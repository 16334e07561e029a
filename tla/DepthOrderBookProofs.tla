------------------------- MODULE DepthOrderBookProofs -------------------------
(***************************************************************************)
(* What the depth of a DepthOrderBook shows is what the book holds, for    *)
(* every menu, every number of levels, orders and calls, and listeners     *)
(* that call the book, as long as the quantities fit in a word.            *)
(***************************************************************************)
EXTENDS DepthOrderBook, ApplicationProofs, FiniteSetTheorems

USE ConstantsAssumption

(* What is proved of the Depth of a client, for a client that keeps what   *)
(* the order objects have left.                                            *)
T == INSTANCE DepthProofs WITH
  Orders <- Order, Prices <- Nat \ {0}, Quantities <- 1..(Word - 1), MaxChanges <- 0,
  depth <- depth, order <- order, shown <- seen

-----------------------------------------------------------------------------
(* The two instances of the Depth *)

(* Finite sets are the same in both. *)
LEMMA SameSets ==
  ASSUME NEW S
  PROVE  /\ IsFiniteSet(S) <=> T!IsFiniteSet(S)
         /\ Cardinality(S) = T!Cardinality(S)
<1>1. IsFiniteSet(S) <=> T!IsFiniteSet(S)
  BY DEF IsFiniteSet, T!IsFiniteSet
<1>2. Cardinality(S) = T!Cardinality(S)
  BY DEF Cardinality, T!Cardinality
<1> QED
  BY <1>1, <1>2

(* The assumption of Depth, from which DepthProofs proves all there is. *)
LEMMA ClientAssumption ==
  /\ SIZE \in Nat \ {0}
  /\ T!IsFiniteSet(Order)
  /\ Nat \ {0} \subseteq Nat \ {0}
  /\ Word \in Nat \ {0}
  /\ 1..(Word - 1) \subseteq 1..(Word - 1)
  /\ 0 \in Nat
<1>1. Order = 1..MaxOrders /\ MaxOrders \in Nat
  BY DEF Order, ConstantsAssumption
<1>2. T!IsFiniteSet(Order)
  <2>1. 1 \in Int /\ MaxOrders \in Int
    BY <1>1
  <2>2. IsFiniteSet(1..MaxOrders)
    BY <2>1, FS_Interval
  <2> QED
    BY <1>1, <2>2, SameSets
<1> QED
  BY <1>2, DepthBookAssumption DEF DepthBookAssumption

(* So are the values of a Depth, *)
LEMMA SameValues ==
  /\ D!Quantity = T!Quantity /\ D!Level = T!Level /\ D!DepthObject = T!DepthObject
  /\ D!NewDepth = T!NewDepth
BY DEF D!Quantity, T!Quantity, D!Level, T!Level, D!DepthObject, T!DepthObject,
       D!NewDepth, T!NewDepth, D!Blank, T!Blank, D!Fresh, T!Fresh,
       D!INVALID_LEVEL_PRICE, T!INVALID_LEVEL_PRICE

(* where a level is looked for and found, *)
LEMMA SamePlaces ==
  ASSUME NEW d, NEW buy, NEW price, NEW loc, NEW l
  PROVE  /\ D!Find(d, buy, price) = T!Find(d, buy, price)
         /\ D!PastEnd(buy, price) = T!PastEnd(buy, price)
         /\ D!At(d, loc) = T!At(d, loc)
         /\ D!Put(d, loc, l) = T!Put(d, loc, l)
         /\ D!Touch(d, loc) = T!Touch(d, loc)
         /\ D!Checked(d, loc, buy) = T!Checked(d, loc, buy)
         /\ D!Failed(d) = T!Failed(d)
<1>1. \A S : D!Min(S) = T!Min(S)
  BY DEF D!Min, T!Min
<1>2. D!PastEnd(buy, price) = T!PastEnd(buy, price)
  BY DEF D!PastEnd, T!PastEnd, D!Loc, T!Loc
<1>3. D!Find(d, buy, price) = T!Find(d, buy, price)
  BY <1>1, <1>2 DEF D!Find, T!Find, D!ExcessHas, T!ExcessHas, D!Loc, T!Loc
<1>4. D!At(d, loc) = T!At(d, loc)
  BY DEF D!At, T!At
<1>5. D!Put(d, loc, l) = T!Put(d, loc, l)
  BY <1>4 DEF D!Put, T!Put
<1>6. D!Touch(d, loc) = T!Touch(d, loc)
  BY DEF D!Touch, T!Touch
<1>7. D!Failed(d) = T!Failed(d)
  BY DEF D!Failed, T!Failed
<1>8. D!Checked(d, loc, buy) = T!Checked(d, loc, buy)
  BY <1>7 DEF D!Checked, T!Checked, D!Missing, T!Missing
<1> QED
  BY <1>2, <1>3, <1>4, <1>5, <1>6, <1>7, <1>8

(* how levels come and go, *)
LEMMA SameLevels ==
  ASSUME NEW d, NEW buy, NEW price, NEW loc
  PROVE  /\ D!WithLevel(d, buy, price) = T!WithLevel(d, buy, price)
         /\ D!Erase(d, buy, loc) = T!Erase(d, buy, loc)
<1>1. \A S : D!Min(S) = T!Min(S)
  BY DEF D!Min, T!Min
<1>2. \A p, q : D!Better(buy, p, q) = T!Better(buy, p, q)
  BY DEF D!Better, T!Better
<1>3. \A p : D!Fresh(p) = T!Fresh(p)
  BY DEF D!Fresh, T!Fresh
<1>4. \A E, l : D!InsertExcess(E, l) = T!InsertExcess(E, l)
  BY DEF D!InsertExcess, T!InsertExcess
<1>5. ASSUME NEW at
      PROVE  D!InsertBefore(d, buy, at, price) = T!InsertBefore(d, buy, at, price)
  <2> DEFINE old == d.level[buy]
             now == d.lastChange + 1
             E(F) == IF old[SIZE].price = 0 THEN d.excess[buy] ELSE F
             L(f) == [i \in 1..SIZE |-> CASE i < at -> old[i] [] i = at -> f [] i > at -> old[i - 1]]
             K == [i \in 1..SIZE |-> IF i > at /\ old[i - 1].price # 0 THEN now ELSE d.stamp[buy][i]]
             N(F, f) == [d EXCEPT !.lastChange = now, !.excess[buy] = E(F), !.level[buy] = L(f),
                                  !.stamp[buy] = K]
  <2>1. D!InsertBefore(d, buy, at, price)
        = N(D!InsertExcess(d.excess[buy], old[SIZE]), D!Fresh(price))
    BY DEF D!InsertBefore, D!INVALID_LEVEL_PRICE
  <2>2. T!InsertBefore(d, buy, at, price)
        = N(T!InsertExcess(d.excess[buy], old[SIZE]), T!Fresh(price))
    BY DEF T!InsertBefore, T!INVALID_LEVEL_PRICE
  <2> HIDE DEF N, old
  <2> QED
    BY <1>3, <1>4, <2>1, <2>2
<1>6. D!WithLevel(d, buy, price) = T!WithLevel(d, buy, price)
  BY <1>1, <1>2, <1>3, <1>5
  DEF D!WithLevel, T!WithLevel, D!ExcessHas, T!ExcessHas,
      D!INVALID_LEVEL_PRICE, T!INVALID_LEVEL_PRICE
<1>7. \A E : D!BestExcess(E, buy) = T!BestExcess(E, buy)
  BY <1>2 DEF D!BestExcess, T!BestExcess
<1>8. D!Erase(d, buy, loc) = T!Erase(d, buy, loc)
  <2> DEFINE old == d.level[buy]
             now == d.lastChange + 1
             moved == IF loc.buy = buy THEN {i \in loc.at..(SIZE - 1) :
                          i = loc.at \/ old[i].price # 0}
                     ELSE {}
             refill == (loc.buy = buy /\ loc.at = SIZE) \/ old[SIZE].price # 0
             last(best, blank) == IF best = {} THEN blank ELSE CHOOSE e \in best : TRUE
             N(best, blank) ==
               IF loc.at = 0 THEN [d EXCEPT !.excess[buy] = {e \in @ : e.price # loc.price}]
               ELSE [d EXCEPT
                 !.lastChange = now,
                 !.level[buy] = [i \in 1..SIZE |-> CASE i \in moved -> old[i + 1]
                                                 [] i = SIZE /\ refill -> last(best, blank)
                                                 [] OTHER -> old[i]],
                 !.stamp[buy] = [i \in 1..SIZE |->
                   IF i \in moved \/ (i = SIZE /\ refill) THEN now ELSE @[i]],
                 !.excess[buy] = IF refill THEN @ \ best ELSE @]
  <2>1. D!Erase(d, buy, loc) = N(D!BestExcess(d.excess[buy], buy), D!Blank)
    BY DEF D!Erase, D!INVALID_LEVEL_PRICE
  <2>2. T!Erase(d, buy, loc) = N(T!BestExcess(d.excess[buy], buy), T!Blank)
    BY DEF T!Erase, T!INVALID_LEVEL_PRICE
  <2>3. D!Blank = T!Blank
    BY <1>3 DEF D!Blank, T!Blank, D!INVALID_LEVEL_PRICE, T!INVALID_LEVEL_PRICE
  <2> HIDE DEF N
  <2> QED
    BY <1>7, <2>1, <2>2, <2>3
<1> QED
  BY <1>6, <1>8

(* and the public member functions. *)
LEMMA SameCalls ==
  ASSUME NEW d, NEW buy, NEW price, NEW newPrice, NEW qty, NEW newQty
  PROVE  /\ D!AddOrder(d, buy, price, qty) = T!AddOrder(d, buy, price, qty)
         /\ D!CloseOrder(d, buy, price, qty) = T!CloseOrder(d, buy, price, qty)
         /\ D!ChangeQtyOrder(d, buy, price, qty) = T!ChangeQtyOrder(d, buy, price, qty)
         /\ D!ReplaceOrder(d, buy, price, newPrice, qty, newQty)
            = T!ReplaceOrder(d, buy, price, newPrice, qty, newQty)
         /\ D!IgnoreFillQty(d, buy, qty) = T!IgnoreFillQty(d, buy, qty)
         /\ D!Published(d) = T!Published(d)
         /\ D!Changed(d) <=> T!Changed(d)
         /\ D!LevelTotal(d, buy, price) = T!LevelTotal(d, buy, price)
<1>1. ASSUME NEW e, NEW p, NEW q
      PROVE  D!AddOrder(e, buy, p, q) = T!AddOrder(e, buy, p, q)
  BY ONLY SamePlaces, SameLevels DEF D!AddOrder, T!AddOrder
<1>2. \A p : D!Fresh(p) = T!Fresh(p)
  BY DEF D!Fresh, T!Fresh
<1>3. ASSUME NEW e, NEW p, NEW q
      PROVE  D!CloseOrder(e, buy, p, q) = T!CloseOrder(e, buy, p, q)
  <2> DEFINE loc == T!Find(e, buy, p)
             l == T!At(e, loc)
             n == T!Checked(e, loc, buy)
  <2>1. D!Find(e, buy, p) = loc /\ D!At(e, loc) = l /\ D!Checked(e, loc, buy) = n
    BY SamePlaces
  <2>2. \A x : D!Put(n, loc, x) = T!Put(n, loc, x)
    BY SamePlaces
  <2>3. /\ \A x : D!Failed(x) = T!Failed(x)
        /\ \A x : D!Touch(x, loc) = T!Touch(x, loc)
        /\ \A x : D!Erase(x, buy, loc) = T!Erase(x, buy, loc)
    BY SamePlaces, SameLevels
  <2>4. T!CloseOrder(e, buy, p, q)
        = IF loc.at > SIZE \/ l.count = 0 THEN T!Failed(e)
          ELSE CASE l.count = 1 -> T!Erase(T!Put(n, loc, T!Fresh(l.price)), buy, loc)
                 [] l.count > 1 /\ l.qty >= q ->
                      T!Touch(T!Put(n, loc, [l EXCEPT !.count = @ - 1, !.qty = @ - q]), loc)
                 [] OTHER -> T!Failed(T!Put(n, loc, [l EXCEPT !.count = @ - 1]))
    BY DEF T!CloseOrder
  <2>5. D!CloseOrder(e, buy, p, q)
        = IF loc.at > SIZE \/ l.count = 0 THEN D!Failed(e)
          ELSE CASE l.count = 1 -> D!Erase(D!Put(n, loc, D!Fresh(l.price)), buy, loc)
                 [] l.count > 1 /\ l.qty >= q ->
                      D!Touch(D!Put(n, loc, [l EXCEPT !.count = @ - 1, !.qty = @ - q]), loc)
                 [] OTHER -> D!Failed(D!Put(n, loc, [l EXCEPT !.count = @ - 1]))
    BY <2>1 DEF D!CloseOrder
  <2> HIDE DEF loc, l, n
  <2> QED
    BY <1>2, <2>2, <2>3, <2>4, <2>5
<1>4. \A q : D!ChangeQtyOrder(d, buy, price, q) = T!ChangeQtyOrder(d, buy, price, q)
  BY SamePlaces DEF D!ChangeQtyOrder, T!ChangeQtyOrder
<1>5. D!ReplaceOrder(d, buy, price, newPrice, qty, newQty)
      = T!ReplaceOrder(d, buy, price, newPrice, qty, newQty)
  BY <1>1, <1>3, <1>4 DEF D!ReplaceOrder, T!ReplaceOrder
<1>6. D!IgnoreFillQty(d, buy, qty) = T!IgnoreFillQty(d, buy, qty)
  BY SamePlaces DEF D!IgnoreFillQty, T!IgnoreFillQty
<1>7. D!Published(d) = T!Published(d) /\ (D!Changed(d) <=> T!Changed(d))
  BY DEF D!Published, T!Published, D!Changed, T!Changed
<1>8. D!LevelTotal(d, buy, price) = T!LevelTotal(d, buy, price)
  BY SamePlaces DEF D!LevelTotal, T!LevelTotal
<1> QED
  BY <1>1, <1>3, <1>4, <1>5, <1>6, <1>7, <1>8

(* The sums of DepthOrderBook are those of SumLemmas. *)
LEMMA SumsAreSums ==
  ASSUME NEW f \in [Order -> Int], NEW S \in SUBSET Order
  PROVE  D!MapThenSumSet(LAMBDA o : f[o], S) = T!Sum(f, S)
<1> DEFINE e == [o \in S |-> f[o]]
           IsTable(h) == h = [s \in SUBSET S |-> IF s = {} THEN 0
                                                 ELSE f[T!Pick(s)] + h[s \ {T!Pick(s)}]]
           h == CHOOSE h : IsTable(h)
           k == CHOOSE g : T!IsSum(g, e, S)
<1>1. T!IsFiniteSet(Order)
  BY ClientAssumption
<1>2. T!IsFiniteSet(S)
  BY <1>1, SameSets, FS_Subset
<1>3. D!MapThenSumSet(LAMBDA o : f[o], S) = h[S]
  BY DEF D!MapThenSumSet, D!MapThenFoldSet, T!Pick
<1>4. e \in [S -> Int] /\ \A s \in SUBSET S : s # {} => e[T!Pick(s)] = f[T!Pick(s)]
  BY ClientAssumption, T!PickIsMember
<1>5. PICK d \in [SUBSET S -> Int] : T!IsSum(d, e, S)
  BY <1>2, <1>4, ClientAssumption, T!SumExists
<1>6. T!Sum(e, S) = k[S]
  BY DEF T!Sum
<1>7. T!IsSum(k, e, S)
  BY <1>5
<1>8. \A g : T!IsSum(g, e, S) <=> IsTable(g)
  <2> TAKE g
  <2>1. [s \in SUBSET S |-> IF s = {} THEN 0 ELSE f[T!Pick(s)] + g[s \ {T!Pick(s)}]]
        = [s \in SUBSET S |-> IF s = {} THEN 0 ELSE e[T!Pick(s)] + g[s \ {T!Pick(s)}]]
    BY <1>4
  <2> QED
    BY <2>1 DEF T!IsSum
<1>9. IsTable(h)
  <2>1. IsTable(d)
    BY <1>5, <1>8
  <2> HIDE DEF IsTable
  <2> QED
    BY <2>1
<1> HIDE DEF h, k
<1>10. h[S] = k[S]
  <2>1. T!IsSum(h, e, S)
    BY <1>8, <1>9
  <2> QED
    BY <1>2, <1>4, <1>7, <2>1, ClientAssumption, T!SumsAgree
<1>11. T!Sum(e, S) = T!Sum(f, S)
  <2>1. \A o \in S : e[o] = f[o]
    OBVIOUS
  <2> HIDE DEF e
  <2> QED
    BY <1>1, <1>2, <1>4, <2>1, ClientAssumption, T!SumOfSame
<1> QED
  BY <1>3, <1>6, <1>10, <1>11

-----------------------------------------------------------------------------
(* The callbacks that are due *)

(* Behind position k of the queue q come fills of the inbound order o, up  *)
(* to one that leaves nothing of it open.                                  *)
Streak(q, k, o) ==
  \E j \in DOMAIN q : /\ j > k /\ o \in q[j].done
                      /\ \A i \in (k + 1)..j : q[i].type = "fill" /\ q[i].order = o

(* An accept callback in q is the first to concern its order, and finds it *)
(* as it was submitted, in the objects x.  When it says that the order was *)
(* filled, the fills come next.                                            *)
AcceptedFirst(x, q, k) ==
  q[k].type = "accept" =>
    /\ x[q[k].order].state = "new" /\ x[q[k].order].filled = 0 /\ x[q[k].order].qty > 0
    /\ \A i \in 1..(k - 1) : ~Concerns(q[i], q[k].order)
    /\ q[k].qty = x[q[k].order].qty => Streak(q, k, q[k].order)

(* The two orders of a fill are of opposite sides. *)
Paired(x, c) == c.type = "fill" => x[c.order].buy # x[c.matched].buy

InOrder(x, q) == \A k \in DOMAIN q : AcceptedFirst(x, q, k) /\ Paired(x, q[k])

(* While add_order() runs, the fills of the inbound order follow its       *)
(* acceptance; call.unfilled is what they left of it.                      *)
Filling ==
  /\ \A k \in (call.accept + 1)..Len(callbacks) :
       callbacks[k].type = "fill" /\ callbacks[k].order = call.order
  /\ open[call.order] = 0 => /\ Len(callbacks) > call.accept
                             /\ call.order \in callbacks[Len(callbacks)].done

AddNoted ==
  InAddOrder /\ call.kind = "add" =>
    /\ call.accept \in DOMAIN callbacks
    /\ callbacks[call.accept].type = "accept" /\ callbacks[call.accept].order = call.order
    /\ Matching /\ ~Nested => Filling
    /\ ~(Matching /\ ~Nested) /\ call.unfilled = 0 =>
         Streak(callbacks, call.accept, call.order)

(* A stop order that waits has not traded. *)
WaitsAreOpen == \A o \in Order : Waits(o) => open[o] > 0

QInv == InOrder(order, Due) /\ AddNoted /\ WaitsAreOpen

(* A streak goes on when callbacks are pushed, *)
LEMMA StreakPushed ==
  ASSUME NEW q \in Seq(Callback), NEW c \in Callback, NEW k \in Nat, NEW o, Streak(q, k, o)
  PROVE  Streak(Append(q, c), k, o)
<1>1. PICK j \in DOMAIN q : /\ j > k /\ o \in q[j].done
                            /\ \A i \in (k + 1)..j : q[i].type = "fill" /\ q[i].order = o
  BY DEF Streak
<1>2. /\ DOMAIN q = 1..Len(q) /\ DOMAIN Append(q, c) = 1..(Len(q) + 1) /\ Len(q) \in Nat
      /\ \A i \in 1..Len(q) : Append(q, c)[i] = q[i]
  OBVIOUS
<1>3. j \in 1..Len(q) /\ \A i \in (k + 1)..j : i \in 1..Len(q)
  BY <1>1, <1>2
<1> QED
  BY <1>1, <1>2, <1>3 DEF Streak

(* and when the one in front is delivered. *)
LEMMA StreakDelivered ==
  ASSUME NEW q \in Seq(Callback), q # <<>>, NEW k \in Nat \ {0}, NEW o, Streak(q, k, o)
  PROVE  Streak(Tail(q), k - 1, o)
<1>1. PICK j \in DOMAIN q : /\ j > k /\ o \in q[j].done
                            /\ \A i \in (k + 1)..j : q[i].type = "fill" /\ q[i].order = o
  BY DEF Streak
<1>2. /\ DOMAIN q = 1..Len(q) /\ DOMAIN Tail(q) = 1..(Len(q) - 1) /\ Len(q) \in Nat
      /\ \A i \in 1..(Len(q) - 1) : Tail(q)[i] = q[i + 1]
  OBVIOUS
<1>3. j - 1 \in 1..(Len(q) - 1) /\ j - 1 > k - 1
  BY <1>1, <1>2
<1>4. ASSUME NEW i \in ((k - 1) + 1)..(j - 1)
      PROVE  Tail(q)[i].type = "fill" /\ Tail(q)[i].order = o
  BY <1>1, <1>2, <1>4
<1> QED
  BY <1>1, <1>2, <1>3, <1>4 DEF Streak

(* It is not touched by a change of a callback that is no fill. *)
LEMMA StreakAlike ==
  ASSUME NEW q \in Seq(Callback), NEW r \in Seq(Callback), Len(r) = Len(q),
         \A i \in 1..Len(q) : q[i].type = "fill" => r[i] = q[i],
         NEW k \in Nat, NEW o, Streak(q, k, o)
  PROVE  Streak(r, k, o)
<1>1. PICK j \in DOMAIN q : /\ j > k /\ o \in q[j].done
                            /\ \A i \in (k + 1)..j : q[i].type = "fill" /\ q[i].order = o
  BY DEF Streak
<1>2. /\ DOMAIN q = 1..Len(q) /\ DOMAIN r = 1..Len(q) /\ Len(q) \in Nat
  OBVIOUS
<1>3. \A i \in (k + 1)..j : i \in 1..Len(q) /\ r[i] = q[i]
  BY <1>1, <1>2
<1>4. j \in (k + 1)..j
  BY <1>1, <1>2
<1> QED
  BY <1>1, <1>2, <1>3, <1>4 DEF Streak

(* A streak of the callbacks that were pushed is one of those that are due. *)
LEMMA StreakBehind ==
  ASSUME NEW w \in Seq(Callback), NEW q \in Seq(Callback), NEW k \in Nat, NEW o, Streak(q, k, o)
  PROVE  Streak(w \o q, Len(w) + k, o)
<1>1. PICK j \in DOMAIN q : /\ j > k /\ o \in q[j].done
                            /\ \A i \in (k + 1)..j : q[i].type = "fill" /\ q[i].order = o
  BY DEF Streak
<1>2. /\ DOMAIN q = 1..Len(q) /\ DOMAIN (w \o q) = 1..(Len(w) + Len(q))
      /\ Len(q) \in Nat /\ Len(w) \in Nat
      /\ \A i \in 1..Len(q) : (w \o q)[Len(w) + i] = q[i]
  OBVIOUS
<1>3. /\ Len(w) + j \in 1..(Len(w) + Len(q)) /\ Len(w) + j > Len(w) + k
      /\ (w \o q)[Len(w) + j] = q[j]
  BY <1>1, <1>2
<1>4. ASSUME NEW i \in ((Len(w) + k) + 1)..(Len(w) + j)
      PROVE  (w \o q)[i].type = "fill" /\ (w \o q)[i].order = o
  <2>1. i - Len(w) \in (k + 1)..j /\ i - Len(w) \in 1..Len(q) /\ Len(w) + (i - Len(w)) = i
    BY <1>1, <1>2
  <2> QED
    BY <1>1, <1>2, <2>1
<1> QED
  BY <1>1, <1>2, <1>3, <1>4 DEF Streak

(* Objects that no callback concerns may change. *)
LEMMA InOrderStill ==
  ASSUME NEW x, NEW y, NEW q \in Seq(Callback), InOrder(x, q),
         \A k \in DOMAIN q : \A o \in Order : Concerns(q[k], o) => y[o] = x[o]
  PROVE  InOrder(y, q)
<1> SUFFICES ASSUME NEW k \in DOMAIN q
             PROVE  AcceptedFirst(y, q, k) /\ Paired(y, q[k])
  BY DEF InOrder
<1>1. AcceptedFirst(x, q, k) /\ Paired(x, q[k])
  BY DEF InOrder
<1>2. q[k] \in Callback /\ q[k].order \in Order /\ q[k].matched \in Order
  <2>1. q[k] \in Callback
    OBVIOUS
  <2> QED
    BY <2>1 DEF Callback
<1>3. q[k].type = "accept" => y[q[k].order] = x[q[k].order]
  BY <1>2 DEF Concerns
<1>4. q[k].type = "fill" => y[q[k].order] = x[q[k].order] /\ y[q[k].matched] = x[q[k].matched]
  BY <1>2 DEF Concerns
<1> QED
  BY <1>1, <1>3, <1>4 DEF AcceptedFirst, Paired

(* A callback is pushed: an accept callback of a new order, or another. *)
LEMMA InOrderPushed ==
  ASSUME NEW x, NEW q \in Seq(Callback), InOrder(x, q), NEW c \in Callback, Paired(x, c),
         c.type = "accept" =>
           /\ x[c.order].state = "new" /\ x[c.order].filled = 0 /\ x[c.order].qty > 0
           /\ c.qty # x[c.order].qty /\ \A i \in DOMAIN q : ~Concerns(q[i], c.order)
  PROVE  InOrder(x, Append(q, c))
<1> DEFINE r == Append(q, c)
<1>1. /\ Len(q) \in Nat /\ DOMAIN q = 1..Len(q) /\ DOMAIN r = 1..(Len(q) + 1)
      /\ r[Len(q) + 1] = c /\ \A i \in 1..Len(q) : r[i] = q[i]
  OBVIOUS
<1>2. ASSUME NEW k \in 1..Len(q)
      PROVE  AcceptedFirst(x, r, k) /\ Paired(x, r[k])
  <2>1. AcceptedFirst(x, q, k) /\ Paired(x, q[k]) /\ r[k] = q[k] /\ k \in Nat
    BY <1>1 DEF InOrder
  <2>2. \A i \in 1..(k - 1) : r[i] = q[i]
    BY <1>1
  <2>3. Streak(q, k, q[k].order) => Streak(r, k, r[k].order)
    BY <2>1, StreakPushed
  <2> HIDE DEF r
  <2> QED
    BY <2>1, <2>2, <2>3 DEF AcceptedFirst
<1>3. AcceptedFirst(x, r, Len(q) + 1) /\ Paired(x, r[Len(q) + 1])
  <2>1. \A i \in 1..((Len(q) + 1) - 1) : r[i] = q[i] /\ i \in DOMAIN q
    BY <1>1
  <2> HIDE DEF r
  <2> QED
    BY <1>1, <2>1 DEF AcceptedFirst
<1>4. ASSUME NEW k \in DOMAIN r
      PROVE  AcceptedFirst(x, r, k) /\ Paired(x, r[k])
  <2>1. k \in 1..Len(q) \/ k = Len(q) + 1
    BY <1>1
  <2> QED
    BY <1>2, <1>3, <2>1
<1> QED
  BY <1>4 DEF InOrder

(* No callback changes the side of an order. *)
LEMMA ToldBuy ==
  ASSUME NEW x \in SimpleOrder, NEW c, NEW o PROVE Told(x, c, o).buy = x.buy
<1>1. [x EXCEPT !.state = "accepted"].buy = x.buy /\ [x EXCEPT !.state = "cancelled"].buy = x.buy
  BY DEF SimpleOrder
<1>2. [x EXCEPT !.qty = @ + c.delta, !.price = c.price].buy = x.buy
  BY DEF SimpleOrder
<1>3. Filled(x, c.qty).buy = x.buy
  BY DEF SimpleOrder, Filled
<1> QED
  BY <1>1, <1>2, <1>3 DEF Told

(* The callback in front is delivered. *)
LEMMA InOrderDelivered ==
  ASSUME NEW x \in [Order -> SimpleOrder], NEW y, NEW q \in Seq(Callback), q # <<>>,
         InOrder(x, q), \A o \in Order : y[o] = Told(x[o], Head(q), o)
  PROVE  InOrder(y, Tail(q))
<1> DEFINE r == Tail(q)
<1>1. /\ Len(q) \in Nat \ {0} /\ DOMAIN q = 1..Len(q) /\ DOMAIN r = 1..(Len(q) - 1)
      /\ Head(q) = q[1] /\ \A i \in 1..(Len(q) - 1) : r[i] = q[i + 1]
  OBVIOUS
<1> SUFFICES ASSUME NEW k \in DOMAIN r
             PROVE  AcceptedFirst(y, r, k) /\ Paired(y, r[k])
  BY DEF InOrder
<1>2. k \in 1..(Len(q) - 1) /\ k + 1 \in DOMAIN q /\ r[k] = q[k + 1] /\ k + 1 \in Nat \ {0}
  BY <1>1
<1>3. AcceptedFirst(x, q, k + 1) /\ Paired(x, q[k + 1])
  BY <1>2 DEF InOrder
<1>4. q[k + 1] \in Callback /\ q[k + 1].order \in Order /\ q[k + 1].matched \in Order
  <2>1. q[k + 1] \in Callback
    BY <1>2
  <2> QED
    BY <2>1 DEF Callback
<1>5. Paired(y, r[k])
  BY <1>2, <1>3, <1>4, ToldBuy DEF Paired
<1>6. AcceptedFirst(y, r, k)
  <2> SUFFICES ASSUME q[k + 1].type = "accept"
               PROVE  AcceptedFirst(y, r, k)
    BY <1>2 DEF AcceptedFirst
  <2> DEFINE o == q[k + 1].order
  <2>1. /\ x[o].state = "new" /\ x[o].filled = 0 /\ x[o].qty > 0
        /\ \A i \in 1..((k + 1) - 1) : ~Concerns(q[i], o)
        /\ q[k + 1].qty = x[o].qty => Streak(q, k + 1, o)
    BY <1>3 DEF AcceptedFirst
  <2>2. 1 \in 1..((k + 1) - 1) /\ \A i \in 1..(k - 1) : i + 1 \in 1..((k + 1) - 1) /\ r[i] = q[i + 1]
    BY <1>1, <1>2
  <2>3. ~Concerns(Head(q), o) /\ \A i \in 1..(k - 1) : ~Concerns(r[i], o)
    BY <1>1, <2>1, <2>2
  <2>4. y[o] = x[o]
    BY <1>4, <2>3, ToldNothing
  <2>5. Streak(q, k + 1, o) => Streak(r, k, o)
    <3>1. (k + 1) - 1 = k
      BY <1>2
    <3> QED
      BY <1>2, <3>1, StreakDelivered
  <2> HIDE DEF o, r
  <2> QED
    BY <1>2, <2>1, <2>3, <2>4, <2>5 DEF AcceptedFirst, o
<1> QED
  BY <1>5, <1>6

(* An accept callback takes down how much of its order was filled. *)
LEMMA InOrderNoted ==
  ASSUME NEW x, NEW q \in Seq(Callback), InOrder(x, q), NEW a \in DOMAIN q,
         q[a].type = "accept", NEW n \in Nat, n = x[q[a].order].qty => Streak(q, a, q[a].order)
  PROVE  InOrder(x, [q EXCEPT ![a].qty = n])
<1> DEFINE r == [q EXCEPT ![a].qty = n]
<1>1. /\ Len(q) \in Nat /\ DOMAIN q = 1..Len(q) /\ \A i \in DOMAIN q : q[i] \in Callback
  OBVIOUS
<1>2. /\ r \in Seq(Callback) /\ Len(r) = Len(q) /\ DOMAIN r = DOMAIN q
      /\ \A i \in DOMAIN q : r[i] = IF i = a THEN [q[i] EXCEPT !.qty = n] ELSE q[i]
  <2>1. [q[a] EXCEPT !.qty = n] \in Callback
    BY <1>1 DEF Callback, Quantity
  <2> QED
    BY <1>1, <2>1
<1>3. \A i \in DOMAIN q : /\ r[i].type = q[i].type /\ r[i].order = q[i].order
                          /\ r[i].matched = q[i].matched /\ (i # a => r[i] = q[i])
                          /\ (i = a => r[i].qty = n)
  BY <1>1, <1>2 DEF Callback
<1> HIDE DEF r
<1> SUFFICES ASSUME NEW k \in DOMAIN q
             PROVE  AcceptedFirst(x, r, k) /\ Paired(x, r[k])
  BY <1>2 DEF InOrder, r
<1>4. AcceptedFirst(x, q, k) /\ Paired(x, q[k])
  BY DEF InOrder
<1>5. Paired(x, r[k])
  BY <1>3, <1>4 DEF Paired
<1>6. \A i \in 1..(k - 1) : \A o : Concerns(r[i], o) <=> Concerns(q[i], o)
  <2>1. \A i \in 1..(k - 1) : i \in DOMAIN q
    BY <1>1
  <2> QED
    BY <1>3, <2>1 DEF Concerns
<1>7. Streak(q, k, q[k].order) => Streak(r, k, q[k].order)
  <2>1. \A i \in 1..Len(q) : q[i].type = "fill" => r[i] = q[i]
    BY <1>1, <1>3
  <2>2. k \in Nat
    BY <1>1
  <2> QED
    BY <1>2, <2>1, <2>2, StreakAlike
<1>8. AcceptedFirst(x, r, k)
  <2>1. CASE k = a
    BY <1>3, <1>4, <1>6, <1>7, <2>1 DEF AcceptedFirst
  <2>2. CASE k # a
    BY <1>3, <1>4, <1>6, <1>7, <2>2 DEF AcceptedFirst
  <2> QED
    BY <2>1, <2>2
<1> QED
  BY <1>5, <1>8

-----------------------------------------------------------------------------
(* The steps of a match *)

(* A step trades q with the order cur, which rests on the other side. *)
Exchanges(cur, q) ==
  /\ order[cur].buy = Opposite(m.taker) /\ q > 0 /\ Resting(cur)
  /\ \E always \in BOOLEAN : MaybeTrade(cur, q, always)

(* A match trades or looks on. *)
LEMMA MatchTrades ==
  ASSUME IInv, AInv, MatchStep
  PROVE  /\ Matching /\ Matching' /\ call' = call /\ m'.taker = m.taker
         /\ UNCHANGED <<order, submitting, working>>
         /\ \/ UNCHANGED <<stops, pending, open, callbacks>>
            \/ \E cur \in Order, q \in Int : Exchanges(cur, q)
<1> DEFINE Frame == /\ Matching /\ Matching' /\ call' = call /\ m'.taker = m.taker
                    /\ UNCHANGED <<order, submitting, working>>
           Quiet == UNCHANGED <<stops, pending, open, callbacks>>
           Trade == \E cur \in Order, q \in Int : Exchanges(cur, q)
<1>0. /\ m \in Match /\ m.taker \in Order /\ plan \in Plan
      /\ m.todo \in SUBSET Order /\ m.deferred \in SUBSET Order
      /\ \A o \in Order : /\ order[o].buy \in BOOLEAN /\ order[o].aon \in BOOLEAN /\ open[o] \in Nat
                          /\ plan.fills[o] \in Int
  <2>1. m \in Match /\ plan \in Plan
    BY DEF IInv, TypeOK
  <2>2. m.taker \in Order /\ m.todo \in SUBSET Order /\ m.deferred \in SUBSET Order
    BY <2>1 DEF Match
  <2>3. \A o \in Order : plan.fills[o] \in Int
    BY <2>1 DEF Plan
  <2>4. \A o \in Order : order[o] \in SimpleOrder /\ open[o] \in Nat
    BY DEF IInv, TypeOK, Quantity
  <2>5. \A o \in Order : order[o].buy \in BOOLEAN /\ order[o].aon \in BOOLEAN
    BY <2>4 DEF SimpleOrder, Side
  <2> QED
    BY <2>1, <2>2, <2>3, <2>4, <2>5
<1>1. ASSUME NEW cur \in Order, NEW q \in Int, NEW always \in BOOLEAN, MaybeTrade(cur, q, always),
             order[cur].buy = Opposite(m.taker), q > 0 => Resting(cur)
      PROVE  UNCHANGED <<order, submitting, working>> /\ (Quiet \/ Trade)
  <2>1. UNCHANGED <<order, submitting, working>>
    BY <1>1 DEF MaybeTrade
  <2>2. CASE q > 0
    <3>1. Exchanges(cur, q)
      BY <1>1, <2>2 DEF Exchanges
    <3> QED
      BY <3>1, <2>1
  <2>3. CASE ~(q > 0)
    BY <1>1, <2>3 DEF MaybeTrade
  <2> QED
    BY <2>1, <2>2, <2>3
<1>2. ASSUME NEW e \in m.todo, DeferAon(e) \/ DeferMatch(e) \/ TryDeferred(e)
      PROVE  Frame /\ Quiet
  <2>1. /\ pc = "match" /\ pc' \in {"match", "propose"} /\ call' = call
        /\ UNCHANGED <<order, submitting, working, stops, pending, open, callbacks>>
    BY <1>2 DEF DeferAon, DeferMatch, TryDeferred, Candidate, containers, trackers,
                triggered, queues
  <2>2. m'.taker = m.taker
    <3>1. CASE DeferAon(e)
      BY <1>0, <3>1 DEF DeferAon, Match
    <3>2. CASE DeferMatch(e)
      <4>1. m' = [m EXCEPT !.dqty = @ + open[e], !.deferred = @ \cup {e}, !.todo = @ \ {e}]
        BY <3>2 DEF DeferMatch
      <4> QED
        BY <1>0, <4>1 DEF Match
    <3>3. CASE TryDeferred(e)
      BY <1>0, <3>3 DEF TryDeferred, Match
    <3> QED
      BY <1>2, <3>1, <3>2, <3>3
  <2> QED
    BY <2>1, <2>2 DEF Matching
<1>3. ASSUME NEW e \in m.todo, MatchRegular(e)
      PROVE  Frame /\ (Quiet \/ Trade)
  <2>1. PICK q : q = TradeQty(e, open[e])
    OBVIOUS
  <2>2. /\ Candidate(e) /\ pc = "match" /\ pc' = "match" /\ call' = call
        /\ MaybeTrade(e, q, AllOrNone(e)) /\ m' = [m EXCEPT !.left = @ - q, !.todo = @ \ {e}]
    BY <1>3, <2>1 DEF MatchRegular, Candidate
  <2>3. e \in Order /\ order[e].buy = Opposite(m.taker) /\ open[e] \in Int
    BY <2>2, CandidateFacts
  <2>4. q \in Int /\ AllOrNone(e) \in BOOLEAN
    BY <1>0, <2>1, <2>3, TradeQtyBound DEF IInv, AllOrNone, ConstantsAssumption
  <2>5. m'.taker = m.taker
    BY <1>0, <2>2 DEF Match
  <2>6. Resting(e)
    <3>1. e \in market[Opposite(m.taker)] /\ Opposite(m.taker) \in Side
      BY <1>0, <2>2 DEF AInv, Standing, Visited, Matching, Opposite, Side
    <3> QED
      BY <3>1 DEF Resting
  <2> HIDE DEF Quiet, Trade
  <2> QED
    BY <1>1, <2>2, <2>3, <2>4, <2>5, <2>6 DEF Matching
<1>4. ASSUME NEW d \in plan.todo, Propose(d)
      PROVE  Frame /\ Quiet
  BY <1>4 DEF Propose, containers, trackers, triggered, queues, Matching
<1>5. ASSUME ProposalEnds \/ SettleEnds
      PROVE  Frame /\ Quiet
  BY <1>5 DEF ProposalEnds, SettleEnds, containers, trackers, triggered, queues, Matching
<1>6. ASSUME NEW d \in plan.todo, Settle(d)
      PROVE  Frame /\ (Quiet \/ Trade)
  <2>1. PICK q : q = IF Dangling(d) THEN 0 ELSE TradeQty(d, plan.fills[d])
    OBVIOUS
  <2>2. /\ pc = "settle" /\ pc' \in {"settle", "undefined"} /\ call' = call /\ m' = m
        /\ MaybeTrade(d, q, FALSE)
    BY <1>6, <2>1 DEF Settle
  <2>3. d \in Order /\ order[d].buy = Opposite(m.taker)
    BY <1>0, <2>2 DEF IInv, Facing, Matching
  <2>4. q \in Int
    BY <1>0, <2>1, <2>3, TradeQtyBound DEF IInv
  <2>5. q > 0 => Resting(d)
    <3>1. Opposite(m.taker) \in Side
      BY <1>0 DEF Opposite, Side
    <3>2. Dangling(d) => q = 0
      BY <2>1
    <3>3. ~Dangling(d) => d \in market[Opposite(m.taker)]
      BY DEF Dangling
    <3>4. ~Dangling(d) => Resting(d)
      BY <3>1, <3>3 DEF Resting
    <3> QED
      BY <2>4, <3>2, <3>4
  <2> HIDE DEF Quiet, Trade
  <2> QED
    BY <1>1, <2>2, <2>3, <2>4, <2>5 DEF Matching
<1>7. ASSUME Close(plan.goal)
      PROVE  Frame /\ (Quiet \/ Trade)
  <2>1. PICK e, q : e = plan.goal /\ q = IF GoalReached(e) THEN TradeQty(e, open[e]) ELSE 0
    OBVIOUS
  <2>2. /\ pc = "close" /\ pc' = "match" /\ call' = call
        /\ MaybeTrade(e, q, AllOrNone(e))
        /\ m' = IF GoalReached(e) THEN [m EXCEPT !.left = @ - plan.got - q] ELSE m
    BY <1>7, <2>1 DEF Close
  <2>3. /\ Trying /\ Matching /\ e \in Order /\ order[e].buy = Opposite(m.taker)
    BY <1>0, <2>1, <2>2 DEF IInv, Facing, Matching, Trying, Plan
  <2>4. q \in Int /\ AllOrNone(e) \in BOOLEAN
    BY <1>0, <2>1, <2>3, TradeQtyBound DEF IInv, AllOrNone, ConstantsAssumption
  <2>5. m'.taker = m.taker
    BY <1>0, <2>2 DEF Match
  <2>6. Resting(e)
    <3>1. e \in market[Opposite(m.taker)] /\ Opposite(m.taker) \in Side
      BY <2>1, <2>3 DEF AInv, Standing, Visited, Opposite, Side
    <3> QED
      BY <3>1 DEF Resting
  <2>7. Matching'
    BY <2>2 DEF Matching
  <2>8. UNCHANGED <<order, submitting, working>> /\ (Quiet \/ Trade)
    BY <1>1, <2>2, <2>3, <2>4, <2>6
  <2> HIDE DEF Quiet, Trade
  <2> QED
    BY <2>2, <2>3, <2>5, <2>7, <2>8
<1> HIDE DEF Frame, Quiet, Trade
<1>8. Frame /\ (Quiet \/ Trade)
  <2>1. CASE \E e \in m.todo : DeferAon(e) \/ MatchRegular(e) \/ DeferMatch(e) \/ TryDeferred(e)
    <3>1. PICK e \in m.todo : DeferAon(e) \/ MatchRegular(e) \/ DeferMatch(e) \/ TryDeferred(e)
      BY <2>1
    <3>2. CASE MatchRegular(e)
      BY <1>3, <3>2
    <3>3. CASE DeferAon(e) \/ DeferMatch(e) \/ TryDeferred(e)
      BY <1>2, <3>3
    <3> QED
      BY <3>1, <3>2, <3>3
  <2>2. CASE \E d \in plan.todo : Propose(d) \/ Settle(d)
    <3>1. PICK d \in plan.todo : Propose(d) \/ Settle(d)
      BY <2>2
    <3>2. CASE Propose(d)
      BY <1>4, <3>2
    <3>3. CASE Settle(d)
      BY <1>6, <3>3
    <3> QED
      BY <3>1, <3>2, <3>3
  <2>3. CASE ProposalEnds \/ SettleEnds \/ Close(plan.goal)
    BY <1>5, <1>7, <2>3
  <2> QED
    BY <2>1, <2>2, <2>3 DEF MatchStep
<1> QED
  BY <1>8 DEF Frame, Quiet, Trade

(* Orders wait that waited, with what they had open. *)
LEMMA WaitsStill ==
  ASSUME WaitsAreOpen, \A o \in Order : Waits(o)' => Waits(o) /\ open'[o] = open[o]
  PROVE  WaitsAreOpen'
BY DEF WaitsAreOpen

(* A match pushes the fills of its trades. *)
LEMMA MatchQueues ==
  ASSUME IInv, AInv, QInv, MatchStep
  PROVE  QInv'
<1>1. /\ Matching /\ Matching' /\ call' = call /\ m'.taker = m.taker
      /\ UNCHANGED <<order, submitting, working>>
      /\ \/ UNCHANGED <<stops, pending, open, callbacks>>
         \/ \E cur \in Order, q \in Int : Exchanges(cur, q)
  BY MatchTrades
<1>2. (Nested' <=> Nested) /\ InAddOrder /\ InAddOrder'
  BY <1>1 DEF Nested, InAddOrder
<1>3. /\ Due \in Seq(Callback) /\ callbacks \in Seq(Callback) /\ working \in Seq(Callback)
      /\ m.taker \in Order /\ call.order \in Order /\ call.accept \in Nat
      /\ \A o \in Order : open[o] \in Nat
  <2>1. m \in Match /\ call \in Call
    BY DEF IInv, TypeOK
  <2> QED
    BY <2>1, DueType, ContainerFacts DEF Match, Call
<1>4. CASE UNCHANGED <<stops, pending, open, callbacks>>
  <2>1. Due' = Due /\ \A o \in Order : Waits(o)' <=> Waits(o)
    BY <1>1, <1>4 DEF Due, Waits, InQueue
  <2>2. InOrder(order, Due)'
    BY <1>1, <2>1 DEF QInv
  <2>3. Filling' <=> Filling
    BY <1>1, <1>4 DEF Filling
  <2>4. AddNoted'
    BY <1>1, <1>2, <1>4, <2>3 DEF QInv, AddNoted
  <2>5. WaitsAreOpen'
    BY <1>4, <2>1, WaitsStill DEF QInv
  <2> QED
    BY <2>2, <2>4, <2>5 DEF QInv
<1>5. ASSUME NEW cur \in Order, NEW q \in Int, Exchanges(cur, q)
      PROVE  QInv'
  <2>1. PICK always \in BOOLEAN : MaybeTrade(cur, q, always)
    BY <1>5 DEF Exchanges
  <2>2. order[cur].buy = Opposite(m.taker) /\ q > 0 /\ Resting(cur)
    BY <1>5 DEF Exchanges
  <2>3. /\ m.taker # cur
        /\ open'[cur] = open[cur] - q /\ open'[m.taker] = open[m.taker] - q
        /\ \A o \in Order \ {cur, m.taker} : open'[o] = open[o]
        /\ \A o \in Order : Waits(o)' <=> Waits(o)
        /\ CrossPrice(cur) \in Price
        /\ callbacks' = Append(callbacks, FillCb(m.taker, cur, q, CrossPrice(cur)))
    BY <1>1, <2>1, <2>2, TradeMoves
  <2>4. PICK c \in Callback : c = FillCb(m.taker, cur, q, CrossPrice(cur))
    <3>1. q \in Quantity
      BY <2>2 DEF Quantity
    <3> QED
      BY <1>3, <2>3, <3>1, FillCbType
  <2>5. /\ c.type = "fill" /\ c.order = m.taker /\ c.matched = cur
        /\ open[m.taker] = q => m.taker \in c.done
    BY <2>4 DEF FillCb
  <2>6. callbacks' = Append(callbacks, c)
    BY <2>3, <2>4
  <2>7. Due' = Append(Due, c)
    BY <1>1, <1>3, <2>6 DEF Due
  <2>8. InOrder(order, Due)'
    <3>1. Paired(order, c)
      <4>1. order[m.taker].buy \in BOOLEAN
        BY <1>3, ContainerFacts DEF Side
      <4> QED
        BY <2>2, <2>5, <4>1 DEF Paired, Opposite
    <3>2. c.type # "accept"
      BY <2>5
    <3>3. InOrder(order, Append(Due, c))
      BY <1>3, <3>1, <3>2, InOrderPushed DEF QInv
    <3> QED
      BY <1>1, <2>7, <3>3
  <2>9. AddNoted'
    <3> SUFFICES ASSUME call.kind = "add"
                 PROVE  /\ call.accept \in DOMAIN callbacks'
                        /\ callbacks'[call.accept].type = "accept"
                        /\ callbacks'[call.accept].order = call.order
                        /\ ~Nested => Filling'
                        /\ Nested /\ call.unfilled = 0 => Streak(callbacks', call.accept, call.order)
      BY <1>1, <1>2 DEF AddNoted
    <3>1. /\ call.accept \in DOMAIN callbacks
          /\ callbacks[call.accept].type = "accept" /\ callbacks[call.accept].order = call.order
          /\ ~Nested => Filling
          /\ Nested /\ call.unfilled = 0 => Streak(callbacks, call.accept, call.order)
      BY <1>1, <1>2 DEF QInv, AddNoted
    <3>2. /\ Len(callbacks) \in Nat /\ DOMAIN callbacks = 1..Len(callbacks)
          /\ Len(callbacks') = Len(callbacks) + 1 /\ DOMAIN callbacks' = 1..(Len(callbacks) + 1)
          /\ callbacks'[Len(callbacks) + 1] = c
          /\ \A i \in 1..Len(callbacks) : callbacks'[i] = callbacks[i]
      BY <1>3, <2>6
    <3>3. /\ call.accept \in DOMAIN callbacks'
          /\ callbacks'[call.accept].type = "accept" /\ callbacks'[call.accept].order = call.order
      BY <3>1, <3>2
    <3>4. ASSUME ~Nested
          PROVE  Filling'
      <4>1. m.taker = call.order
        BY <3>4 DEF Nested
      <4>2. ASSUME NEW k \in (call.accept + 1)..(Len(callbacks) + 1)
            PROVE  callbacks'[k].type = "fill" /\ callbacks'[k].order = call.order
        <5>1. CASE k = Len(callbacks) + 1
          BY <2>5, <3>2, <4>1, <5>1
        <5>2. CASE k # Len(callbacks) + 1
          <6>1. k \in (call.accept + 1)..Len(callbacks) /\ k \in 1..Len(callbacks)
            BY <1>3, <3>2, <5>2
          <6> QED
            BY <3>1, <3>2, <3>4, <6>1 DEF Filling
        <5> QED
          BY <5>1, <5>2
      <4>3. open'[call.order] = 0 => call.order \in c.done
        BY <1>3, <2>3, <2>5, <4>1
      <4>4. Len(callbacks) + 1 > call.accept
        BY <3>1, <3>2
      <4>5. /\ \A k \in (call.accept + 1)..Len(callbacks') :
                 callbacks'[k].type = "fill" /\ callbacks'[k].order = call.order
            /\ open'[call.order] = 0 => /\ Len(callbacks') > call.accept
                                        /\ call.order \in callbacks'[Len(callbacks')].done
        BY <3>2, <4>2, <4>3, <4>4
      <4> QED
        BY <1>1, <4>5 DEF Filling
    <3>5. ASSUME Nested, call.unfilled = 0
          PROVE  Streak(callbacks', call.accept, call.order)
      BY <1>3, <2>6, <3>1, <3>5, StreakPushed
    <3> QED
      BY <3>3, <3>4, <3>5
  <2>10. WaitsAreOpen'
    <3>1. ~Waits(cur)
      BY <2>2, CarriedFacts
    <3>2. ~Waits(m.taker)
      <4>1. CASE ~Nested
        <5>1. Taken(m.taker)
          BY <1>1, <4>1 DEF Taken
        <5> QED
          BY <1>3, <5>1, CarriedFacts
      <4>2. CASE Nested
        <5>1. m.taker \in market[~Opposite(m.taker)]
          BY <1>1, <4>2 DEF AInv, Standing
        <5>2. (~Opposite(m.taker)) \in Side
          BY <1>3, ContainerFacts DEF Opposite, Side
        <5>3. Resting(m.taker)
          BY <5>1, <5>2 DEF Resting
        <5> QED
          BY <1>3, <5>3, CarriedFacts
      <4> QED
        BY <4>1, <4>2
    <3> QED
      BY <2>3, <3>1, <3>2, WaitsStill DEF QInv
  <2> QED
    BY <2>8, <2>9, <2>10 DEF QInv
<1> QED
  BY <1>1, <1>4, <1>5

(* Nothing is pushed, and the order that was submitted keeps its streak,   *)
(* or is still being matched.                                              *)
LEMMA SilentQueues ==
  ASSUME QInv, AddNoted', order' = order, Due' = Due, open' = open,
         \A o \in Order : Waits(o)' => Waits(o)
  PROVE  QInv'
<1>1. InOrder(order, Due)'
  BY DEF QInv
<1>2. WaitsAreOpen'
  BY WaitsStill DEF QInv
<1> QED
  BY <1>1, <1>2 DEF QInv

LEMMA RestQueues ==
  ASSUME IInv, AInv, QInv, Rest
  PROVE  QInv'
<1>1. /\ Matching /\ ~Nested /\ InAddOrder /\ ~Matching'
      /\ call' = [call EXCEPT !.unfilled = open[m.taker]]
      /\ UNCHANGED <<order, stops, open, pending, submitting, callbacks, working>>
  BY DEF Rest, MatchEnds, Matching, InAddOrder, trackers, triggered, queues
<1>2. m.taker = call.order /\ call \in Call
  BY <1>1 DEF Nested, IInv, TypeOK
<1>3. /\ call'.kind = call.kind /\ call'.order = call.order /\ call'.accept = call.accept
      /\ call'.unfilled = open[call.order]
  BY <1>1, <1>2 DEF Call
<1>4. callbacks \in Seq(Callback)
  BY DueType
<1>5. AddNoted'
  <2> SUFFICES ASSUME call.kind = "add"
               PROVE  /\ call.accept \in DOMAIN callbacks
                      /\ callbacks[call.accept].type = "accept"
                      /\ callbacks[call.accept].order = call.order
                      /\ open[call.order] = 0 => Streak(callbacks, call.accept, call.order)
    BY <1>1, <1>3 DEF AddNoted
  <2>1. /\ call.accept \in DOMAIN callbacks
        /\ callbacks[call.accept].type = "accept" /\ callbacks[call.accept].order = call.order
        /\ Filling
    BY <1>1 DEF QInv, AddNoted
  <2>2. ASSUME open[call.order] = 0
        PROVE  Streak(callbacks, call.accept, call.order)
    <3>1. /\ \A k \in (call.accept + 1)..Len(callbacks) :
               callbacks[k].type = "fill" /\ callbacks[k].order = call.order
          /\ Len(callbacks) > call.accept
          /\ call.order \in callbacks[Len(callbacks)].done
      BY <2>1, <2>2 DEF Filling
    <3>2. Len(callbacks) \in DOMAIN callbacks
      BY <1>4, <2>1
    <3> QED
      BY <3>1, <3>2 DEF Streak
  <2> QED
    BY <2>1, <2>2
<1>6. Due' = Due /\ \A o \in Order : Waits(o)' => Waits(o)
  BY <1>1 DEF Due, Waits, InQueue
<1> QED
  BY <1>1, <1>5, <1>6, SilentQueues

LEMMA CheckDeferredQueues ==
  ASSUME IInv, AInv, QInv, NEW a \in aons, CheckDeferred(a)
  PROVE  QInv'
<1>1. /\ pc = "deferred" /\ InAddOrder /\ ~Matching /\ call' = call /\ m'.taker = a
      /\ UNCHANGED <<order, stops, open, pending, submitting, callbacks, working>>
  BY DEF CheckDeferred, StartMatch, Matching, InAddOrder, containers, trackers, triggered, queues
<1>2. a # call.order
  <2>1. a \in Used /\ order[a].buy = Opposite(call.order) /\ call.order \in Order
    BY <1>1 DEF IInv, Facing, TypeOK, Call
  <2>2. order[call.order].buy \in BOOLEAN
    BY <2>1, ContainerFacts DEF Side
  <2> QED
    BY <2>1, <2>2 DEF Opposite
<1>3. Nested'
  BY <1>1, <1>2 DEF Nested
<1>4. AddNoted'
  BY <1>1, <1>3 DEF QInv, AddNoted
<1>5. Due' = Due /\ \A o \in Order : Waits(o)' => Waits(o)
  BY <1>1 DEF Due, Waits, InQueue
<1> QED
  BY <1>1, <1>4, <1>5, SilentQueues

LEMMA NestedEndsQueues ==
  ASSUME IInv, AInv, QInv, NestedEnds
  PROVE  QInv'
<1>1. /\ Matching /\ Nested /\ InAddOrder /\ call' = call /\ ~Matching'
      /\ UNCHANGED <<order, stops, open, pending, submitting, callbacks, working>>
  BY DEF NestedEnds, MatchEnds, Matching, InAddOrder, trackers, triggered, queues
<1>2. AddNoted'
  BY <1>1 DEF QInv, AddNoted
<1>3. Due' = Due /\ \A o \in Order : Waits(o)' => Waits(o)
  BY <1>1 DEF Due, Waits, InQueue
<1> QED
  BY <1>1, <1>2, <1>3, SilentQueues

(* A callback is pushed that is neither an acceptance nor a fill. *)
LEMMA PlainPushed ==
  ASSUME NEW x, NEW q \in Seq(Callback), InOrder(x, q), NEW c \in Callback,
         c.type \notin {"accept", "fill"}
  PROVE  InOrder(x, Append(q, c))
<1>1. Paired(x, c)
  BY DEF Paired
<1> QED
  BY <1>1, InOrderPushed

(* A callback in a queue is replaced. *)
LEMMA OneReplaced ==
  ASSUME NEW q \in Seq(Callback), NEW a \in 1..Len(q), NEW x \in Callback,
         NEW b, b = [q EXCEPT ![a] = x]
  PROVE  /\ b \in Seq(Callback) /\ Len(b) = Len(q)
         /\ \A i \in 1..Len(q) : b[i] = IF i = a THEN x ELSE q[i]
OBVIOUS

LEMMA SameQueues ==
  ASSUME NEW q \in Seq(Callback), NEW r \in Seq(Callback), Len(q) = Len(r),
         \A i \in 1..Len(q) : q[i] = r[i]
  PROVE  q = r
OBVIOUS

LEMMA JoinedQueues ==
  ASSUME NEW w \in Seq(Callback), NEW q \in Seq(Callback), NEW u, u = w \o q
  PROVE  /\ u \in Seq(Callback) /\ Len(u) = Len(w) + Len(q)
         /\ Len(w) \in Nat /\ Len(q) \in Nat
         /\ \A i \in 1..Len(w) : u[i] = w[i]
         /\ \A i \in 1..Len(q) : u[Len(w) + i] = q[i]
OBVIOUS

(* What is behind w changes behind w. *)
ChangesBehind(w, q, a, x, b, r) ==
  /\ w \in Seq(Callback) /\ q \in Seq(Callback) /\ a \in 1..Len(q) /\ x \in Callback
  /\ b = [q EXCEPT ![a] = x]
  /\ r = [w \o q EXCEPT ![Len(w) + a] = x]

LEMMA ReplacedBehind ==
  ASSUME NEW w, NEW q, NEW a, NEW x, NEW b, NEW r, ChangesBehind(w, q, a, x, b, r)
  PROVE  r = w \o b
<1>0. PICK u, v, k : u = w \o q /\ v = w \o b /\ k = Len(w) + a
  OBVIOUS
<1>1. /\ w \in Seq(Callback) /\ q \in Seq(Callback) /\ a \in 1..Len(q) /\ x \in Callback
      /\ b = [q EXCEPT ![a] = x] /\ u = w \o q /\ k = Len(w) + a /\ r = [u EXCEPT ![k] = x]
  BY <1>0 DEF ChangesBehind
<1>2. /\ b \in Seq(Callback) /\ Len(b) = Len(q)
      /\ \A i \in 1..Len(q) : b[i] = IF i = a THEN x ELSE q[i]
  BY ONLY <1>1, OneReplaced
<1>3. /\ u \in Seq(Callback) /\ Len(u) = Len(w) + Len(q)
      /\ Len(w) \in Nat /\ Len(q) \in Nat
      /\ \A i \in 1..Len(w) : u[i] = w[i]
      /\ \A i \in 1..Len(q) : u[Len(w) + i] = q[i]
  BY ONLY <1>1, JoinedQueues
<1>4. /\ v \in Seq(Callback) /\ Len(v) = Len(w) + Len(b)
      /\ \A i \in 1..Len(w) : v[i] = w[i]
      /\ \A i \in 1..Len(b) : v[Len(w) + i] = b[i]
  BY ONLY <1>1, <1>0, <1>2, JoinedQueues
<1>5. /\ k \in 1..Len(u) /\ r = [u EXCEPT ![k] = x]
      /\ u \in Seq(Callback) /\ x \in Callback
  BY <1>1, <1>3
<1>6. /\ r \in Seq(Callback) /\ Len(r) = Len(u)
      /\ \A i \in 1..Len(u) : r[i] = IF i = k THEN x ELSE u[i]
  BY ONLY <1>5, OneReplaced
<1>7. ASSUME NEW i \in 1..Len(u)
      PROVE  r[i] = v[i]
  <2>1. CASE i \in 1..Len(w)
    <3>1. i # k
      BY <1>1, <1>3, <2>1
    <3> QED
      BY <1>3, <1>4, <1>6, <2>1, <3>1
  <2>2. CASE i \notin 1..Len(w)
    <3>1. PICK j \in 1..Len(q) : i = Len(w) + j
      <4>1. i - Len(w) \in 1..Len(q) /\ i = Len(w) + (i - Len(w))
        BY <1>3, <2>2
      <4> QED
        BY <4>1
    <3>2. i = k <=> j = a
      <4>1. a \in Int /\ j \in Int /\ Len(w) \in Int
        BY <1>1, <1>3
      <4> QED
        BY <1>1, <3>1, <4>1
    <3>3. u[i] = q[j] /\ v[i] = b[j]
      BY <1>2, <1>3, <1>4, <3>1
    <3> QED
      BY <1>2, <1>6, <3>2, <3>3
  <2> QED
    BY <2>1, <2>2
<1>8. r = v
  <2>1. Len(r) = Len(v) /\ \A i \in 1..Len(r) : r[i] = v[i]
    BY <1>2, <1>3, <1>4, <1>6, <1>7
  <2> QED
    BY ONLY <1>4, <1>6, <2>1, SameQueues
<1> QED
  BY <1>0, <1>8

LEMMA SubmittedQueues ==
  ASSUME IInv, AInv, QInv, Submitted
  PROVE  QInv'
<1>1. PICK o : o = call.order
  OBVIOUS
<1>2. /\ pc = "deferred" /\ InAddOrder /\ ~Matching /\ ~InAddOrder'
      /\ callbacks' = IF call.kind = "add" THEN Accepted(o) \o IocCancel(o) ELSE callbacks
      /\ UNCHANGED <<order, stops, open, pending, submitting, working>>
  BY <1>1 DEF Submitted, Reset, Matching, InAddOrder, containers, trackers, triggered
<1>3. /\ AddNoted' /\ \A p \in Order : Waits(p)' => Waits(p)
  BY <1>2 DEF AddNoted, Waits, InQueue
<1>4. CASE call.kind # "add"
  <2>1. Due' = Due
    BY <1>2, <1>4 DEF Due
  <2> QED
    BY <1>2, <1>3, <2>1, SilentQueues
<1>5. CASE call.kind = "add"
  <2>1. /\ o \in Order /\ call.unfilled \in Nat /\ call.accept \in Nat /\ order[o].qty \in Int
        /\ callbacks \in Seq(Callback) /\ working \in Seq(Callback) /\ Due \in Seq(Callback)
    <3>1. call \in Call /\ order \in [Order -> SimpleOrder]
      BY DEF IInv, TypeOK
    <3>2. o \in Order /\ call.unfilled \in Nat /\ call.accept \in Nat
      BY <1>1, <3>1 DEF Call
    <3> QED
      BY <3>1, <3>2, DueType DEF SimpleOrder
  <2>2. PICK n \in Nat : n = order[o].qty - call.unfilled
    <3>1. call.unfilled <= order[o].qty
      BY <1>1, <1>2, <1>5 DEF IInv, Answering
    <3> QED
      BY <2>1, <3>1
  <2>3. PICK a : a = Len(working) + call.accept
    OBVIOUS
  <2>4. /\ call.accept \in DOMAIN callbacks
        /\ callbacks[call.accept].type = "accept" /\ callbacks[call.accept].order = o
        /\ call.unfilled = 0 => Streak(callbacks, call.accept, o)
    BY <1>1, <1>2, <1>5 DEF QInv, AddNoted
  <2>5. /\ Len(working) \in Nat /\ Len(callbacks) \in Nat
        /\ DOMAIN working = 1..Len(working) /\ DOMAIN callbacks = 1..Len(callbacks)
        /\ DOMAIN Due = 1..(Len(working) + Len(callbacks))
        /\ \A i \in 1..Len(callbacks) : Due[Len(working) + i] = callbacks[i]
        /\ \A i \in 1..Len(working) : Due[i] = working[i]
    BY <2>1 DEF Due
  <2>6. a \in DOMAIN Due /\ Due[a] = callbacks[call.accept]
    BY <2>1, <2>3, <2>4, <2>5
  <2>7. PICK r : r = [Due EXCEPT ![a].qty = n]
    OBVIOUS
  <2>8. InOrder(order, r)
    <3>1. n = order[Due[a].order].qty => Streak(Due, a, Due[a].order)
      <4>1. n = order[o].qty => call.unfilled = 0
        BY <2>1, <2>2
      <4>2. Streak(callbacks, call.accept, o) => Streak(Due, a, o)
        BY <2>1, <2>3, StreakBehind DEF Due
      <4> QED
        BY <2>4, <2>6, <4>1, <4>2
    <3>2. Due[a].type = "accept"
      BY <2>4, <2>6
    <3> QED
      BY <2>1, <2>6, <2>7, <3>1, <3>2, InOrderNoted DEF QInv
  <2>9. /\ Accepted(o) \in Seq(Callback)
        /\ Accepted(o) = [callbacks EXCEPT ![call.accept].qty = n]
    BY <1>1, <1>2, <1>5, <2>2, AcceptedFacts DEF Accepted
  <2>10. r = working \o Accepted(o)
    <3>1. PICK x : x = [callbacks[call.accept] EXCEPT !.qty = n]
      OBVIOUS
    <3>2. callbacks[call.accept] \in Callback
      BY <2>1, <2>4
    <3>3. x \in Callback
      BY <3>1, <3>2 DEF Callback, Quantity
    <3>4. r = [Due EXCEPT ![a] = x]
      BY <2>6, <2>7, <3>1
    <3>5. Accepted(o) = [callbacks EXCEPT ![call.accept] = x]
      BY <2>9, <3>1
    <3>6. call.accept \in 1..Len(callbacks)
      BY <2>4, <2>5
    <3>7. Due = working \o callbacks
      BY DEF Due
    <3>8. PICK w, q, u, b, j : /\ w = working /\ q = callbacks /\ u = Due /\ b = Accepted(o)
                               /\ j = call.accept
      OBVIOUS
    <3>9. ChangesBehind(w, q, j, x, b, r)
      <4>1. /\ w \in Seq(Callback) /\ q \in Seq(Callback) /\ j \in 1..Len(q)
            /\ u = w \o q /\ a = Len(w) + j /\ b = [q EXCEPT ![j] = x] /\ r = [u EXCEPT ![a] = x]
        BY <2>1, <2>3, <3>4, <3>5, <3>6, <3>7, <3>8
      <4> QED
        BY <3>3, <4>1 DEF ChangesBehind
    <3>10. r = w \o b
      BY <3>9, ReplacedBehind
    <3> QED
      BY <3>8, <3>10
  <2>11. PICK c \in Callback : c = Cb("cancel", o)
    BY <2>1, PlainCb
  <2>12. c.type \notin {"accept", "fill"}
    BY <2>11 DEF Cb
  <2>13. CASE ImmediateOrCancel(o) /\ call.unfilled > 0
    <3>1. Due' = working \o (Accepted(o) \o <<c>>)
      BY <1>2, <1>5, <2>11, <2>13 DEF Due, IocCancel
    <3>2. working \o (Accepted(o) \o <<c>>) = Append(working \o Accepted(o), c)
      BY <2>1, <2>9
    <3>3. r \in Seq(Callback)
      BY <2>1, <2>9, <2>10
    <3>4. InOrder(order, Append(r, c))
      BY <2>8, <2>12, <3>3, PlainPushed
    <3>5. InOrder(order, Due)'
      BY <1>2, <2>10, <3>1, <3>2, <3>4
    <3> QED
      BY <1>2, <1>3, <3>5, WaitsStill DEF QInv
  <2>14. CASE ~(ImmediateOrCancel(o) /\ call.unfilled > 0)
    <3>1. callbacks' = Accepted(o) \o <<>>
      BY <1>2, <1>5, <2>14 DEF IocCancel
    <3>2. Accepted(o) \o <<>> = Accepted(o)
      BY <2>9
    <3>3. Due' = r
      BY <1>2, <2>10, <3>1, <3>2 DEF Due
    <3>4. InOrder(order, Due)'
      BY <1>2, <2>8, <3>3
    <3> QED
      BY <1>2, <1>3, <3>4, WaitsStill DEF QInv
  <2> QED
    BY <2>13, <2>14
<1> QED
  BY <1>4, <1>5

LEMMA TakePendingQueues ==
  ASSUME IInv, AInv, QInv, TakePending
  PROVE  QInv'
<1>1. /\ pc' = "pending" /\ submitting' = pending /\ pending' = <<>>
      /\ UNCHANGED <<order, stops, open, callbacks, working>>
  BY DEF TakePending, containers, trackers, queues, locals
<1>2. AddNoted'
  BY <1>1 DEF AddNoted, InAddOrder, Matching
<1>3. Due' = Due /\ \A o \in Order : Waits(o)' => Waits(o)
  BY <1>1 DEF Due, Waits, InQueue
<1> QED
  BY <1>1, <1>2, <1>3, SilentQueues

LEMMA SubmitPendingQueues ==
  ASSUME IInv, AInv, QInv, NEW o \in Order, SubmitPending(o)
  PROVE  QInv'
<1> DEFINE c1 == [NoCall EXCEPT !.kind = "pending"]
<1>1. /\ submitting # <<>>
      /\ submitting' = IF Head(submitting) = {o} THEN Tail(submitting)
                       ELSE [submitting EXCEPT ![1] = @ \ {o}]
      /\ UNCHANGED <<order, stops, open, pending, callbacks, working>>
  BY DEF SubmitPending, StartMatch, First, containers, trackers, queues
<1>2. call'.kind = "pending"
  <2>1. call' = [c1 EXCEPT !.order = o]
    BY DEF SubmitPending
  <2>2. DOMAIN c1 = DOMAIN NoCall /\ c1.kind = "pending"
    BY DEF NoCall
  <2> HIDE DEF c1
  <2> QED
    BY <2>1, <2>2 DEF NoCall
<1>3. AddNoted'
  BY <1>2 DEF AddNoted
<1>4. ASSUME NEW p \in Order, InQueue(p, submitting')
      PROVE  InQueue(p, submitting)
  <2>1. /\ submitting \in Seq(SUBSET Order) /\ Len(submitting) \in Nat /\ Len(submitting) > 0
        /\ DOMAIN submitting = 1..Len(submitting)
    BY <1>1 DEF IInv, TypeOK
  <2>2. CASE Head(submitting) = {o}
    <3>1. /\ DOMAIN submitting' = 1..(Len(submitting) - 1)
          /\ \A i \in 1..(Len(submitting) - 1) : submitting'[i] = submitting[i + 1]
      BY <1>1, <2>1, <2>2
    <3>2. PICK i \in 1..(Len(submitting) - 1) : p \in submitting[i + 1]
      BY <1>4, <3>1 DEF InQueue
    <3>3. i + 1 \in DOMAIN submitting
      BY <2>1
    <3> QED
      BY <3>2, <3>3 DEF InQueue
  <2>3. CASE Head(submitting) # {o}
    <3>1. /\ DOMAIN submitting' = DOMAIN submitting
          /\ \A i \in DOMAIN submitting :
               submitting'[i] = IF i = 1 THEN submitting[1] \ {o} ELSE submitting[i]
      BY <1>1, <2>1, <2>3
    <3> QED
      BY <1>4, <3>1 DEF InQueue
  <2> QED
    BY <2>2, <2>3
<1>5. \A p \in Order : Waits(p)' => Waits(p)
  BY <1>1, <1>4 DEF Waits
<1>6. Due' = Due
  BY <1>1 DEF Due
<1> QED
  BY <1>1, <1>3, <1>5, <1>6, SilentQueues

(* A call ends with callbacks of other kinds. *)
LEMMA CallQueues ==
  ASSUME IInv, AInv, QInv, ~InAddOrder' \/ call'.kind # "add",
         NEW c \in Callback, c.type \notin {"accept", "fill"},
         NEW d \in Callback, d.type \notin {"accept", "fill"},
         Due' \in {Append(Due, c), Append(Append(Due, c), d)},
         order' = order, \A o \in Order : Waits(o)' => Waits(o) /\ open'[o] = open[o]
  PROVE  QInv'
<1>1. Due \in Seq(Callback) /\ Append(Due, c) \in Seq(Callback)
  BY DueType
<1>2. InOrder(order, Append(Due, c))
  BY <1>1, PlainPushed DEF QInv
<1>3. InOrder(order, Append(Append(Due, c), d))
  BY <1>1, <1>2, PlainPushed
<1>4. InOrder(order, Due)'
  BY <1>2, <1>3
<1>5. AddNoted'
  BY DEF AddNoted
<1>6. WaitsAreOpen'
  BY WaitsStill DEF QInv
<1> QED
  BY <1>4, <1>5, <1>6 DEF QInv

(* callback_now() *)
LEMMA OutsideQueues ==
  ASSUME IInv, AInv, QInv, pending = <<>>, submitting = <<>>,
         NEW c \in Callback, c.type \notin {"accept", "fill"}, CallbackNow(<<c>>),
         UNCHANGED <<order, stops, open, pending, submitting>>
  PROVE  QInv'
<1>1. <<c>> \in Seq(Callback) /\ <<c>> # <<>> /\ Due \in Seq(Callback)
  BY DueType
<1>2. Due' = Due \o <<c>> /\ ~InAddOrder'
  BY <1>1, DueAfterCallbackNow DEF AInv
<1>3. Due' = Append(Due, c)
  BY <1>1, <1>2
<1>4. \A o \in Order : Waits(o)' => Waits(o)
  BY DEF Waits, InQueue
<1> QED
  BY <1>2, <1>3, <1>4, CallQueues

LEMMA FinishQueues ==
  ASSUME IInv, AInv, QInv, Finish
  PROVE  QInv'
<1>1. /\ pending = <<>> /\ submitting = <<>> /\ CallbackNow(<<Cb("book_update", 1)>>)
      /\ UNCHANGED <<order, stops, open, pending, submitting>>
  BY DEF Finish, containers, trackers, triggered
<1>2. 1 \in Order
  BY ConstantsAssumption DEF Order, ConstantsAssumption
<1>3. PICK c \in Callback : c = Cb("book_update", 1)
  BY <1>2, PlainCb
<1>4. c.type \notin {"accept", "fill"}
  BY <1>3 DEF Cb
<1> QED
  BY <1>1, <1>3, <1>4, OutsideQueues

LEMMA CancelQueues ==
  ASSUME IInv, AInv, QInv, NEW o \in Order, Cancel(o)
  PROVE  QInv'
<1>1. /\ CanCall /\ o \in Used
      /\ UNCHANGED <<order, stops, open, pending, submitting>>
  BY DEF Cancel, trackers, triggered
<1>2. pending = <<>> /\ submitting = <<>>
  BY <1>1 DEF CanCall, Ready, AInv, Handed
<1>3. CASE OnMarket(o)
  <2>1. CallbackNow(<<[Cb("cancel", o) EXCEPT !.qty = open[o]], Cb("book_update", 1)>>)
    BY <1>3 DEF Cancel
  <2>2. 1 \in Order /\ open[o] \in Nat
    BY ContainerFacts, ConstantsAssumption DEF Order, ConstantsAssumption
  <2>3. PICK b \in Callback, d \in Callback : b = Cb("cancel", o) /\ d = Cb("book_update", 1)
    BY <2>2, PlainCb
  <2>4. b.type = "cancel" /\ d.type = "book_update"
    BY <2>3 DEF Cb
  <2>5. PICK c : c = [b EXCEPT !.qty = open[o]]
    OBVIOUS
  <2>6. c \in Callback /\ c.type = "cancel"
    BY <2>2, <2>4, <2>5 DEF Callback, Quantity
  <2>7. <<c, d>> \in Seq(Callback) /\ <<c, d>> # <<>> /\ Due \in Seq(Callback)
    BY <2>6, DueType
  <2>8. CallbackNow(<<c, d>>)
    BY <2>1, <2>3, <2>5
  <2>9. Due' = Due \o <<c, d>> /\ ~InAddOrder'
    BY <1>1, <1>2, <2>7, <2>8, DueAfterCallbackNow DEF AInv
  <2>10. Due \o <<c, d>> = Append(Append(Due, c), d)
    BY <2>6, <2>7
  <2>11. \A p \in Order : Waits(p)' => Waits(p)
    BY <1>1 DEF Waits, InQueue
  <2>12. c.type \notin {"accept", "fill"} /\ d.type \notin {"accept", "fill"}
    BY <2>4, <2>6
  <2> QED
    BY <1>1, <2>6, <2>9, <2>10, <2>11, <2>12, CallQueues
<1>4. CASE ~OnMarket(o)
  <2>1. CallbackNow(<<Cb("cancel_reject", o)>>)
    BY <1>4 DEF Cancel
  <2>2. PICK c \in Callback : c = Cb("cancel_reject", o)
    BY PlainCb
  <2>3. c.type \notin {"accept", "fill"}
    BY <2>2 DEF Cb
  <2> QED
    BY <1>1, <1>2, <2>1, <2>2, <2>3, OutsideQueues
<1> QED
  BY <1>3, <1>4

LEMMA ReplaceQueues ==
  ASSUME IInv, AInv, QInv, NEW o \in Order, NEW delta \in Deltas, NEW newPrice \in NewPrices,
         Replace(o, delta, newPrice)
  PROVE  QInv'
<1>1. CanCall /\ UNCHANGED <<order, stops, pending, submitting>>
  BY DEF Replace, triggered
<1>2. pending = <<>> /\ submitting = <<>>
  BY <1>1 DEF CanCall, Ready, AInv, Handed
<1>3. CASE OnMarket(o)
  <2>1. PICK e, price : e = AllowedDelta(o, delta) /\ price = ReplacedPrice(o, newPrice)
    OBVIOUS
  <2>2. ReplaceFound(o, e, price)
    BY <1>3, <2>1 DEF Replace
  <2>3. e \in Int /\ price \in Price
    BY <2>1, DeltaFacts, ConstantsAssumption
    DEF ReplacedPrice, ConstantsAssumption, IInv, TypeOK, SimpleOrder
  <2>4. PICK c \in Callback, d \in Callback : c = ReplaceCb(o, e, price) /\ d = Cb("cancel", o)
    BY <2>3, ReplaceCbType, PlainCb DEF IInv
  <2>5. c.type \notin {"accept", "fill"} /\ d.type \notin {"accept", "fill"}
    BY <2>4 DEF ReplaceCb, Cb
  <2>6. Due \in Seq(Callback) /\ callbacks \in Seq(Callback) /\ working \in Seq(Callback)
    BY DueType
  <2>7. ~Waits(o) /\ \A p \in Order : p # o => open'[p] = open[p]
    <3>1. open' = [open EXCEPT ![o] = @ + e]
      BY <2>2 DEF ReplaceFound
    <3> QED
      BY <1>1, <1>3, <3>1, FoundFacts, ContainerFacts
  <2>8. \A p \in Order : Waits(p)' => Waits(p) /\ open'[p] = open[p]
    BY <1>1, <2>7 DEF Waits, InQueue
  <2>9. CASE open[o] + e = 0
    <3>1. /\ callbacks' = callbacks \o <<c, d>> /\ pc' = "pending" /\ working' = working
      BY <2>2, <2>4, <2>9 DEF ReplaceFound
    <3>2. ~InAddOrder'
      BY <3>1 DEF InAddOrder, Matching
    <3>3. Due' = Append(Append(Due, c), d)
      <4>1. working \o (callbacks \o <<c, d>>) = Append(Append(working \o callbacks, c), d)
        BY <2>6
      <4> QED
        BY <3>1, <4>1 DEF Due
    <3> QED
      BY <1>1, <2>5, <2>8, <3>2, <3>3, CallQueues
  <2>10. CASE open[o] + e # 0
    <3>1. /\ callbacks' = Append(callbacks, c) /\ working' = working
          /\ call' = [NoCall EXCEPT !.kind = "replace", !.order = o]
      BY <2>2, <2>4, <2>10 DEF ReplaceFound
    <3>2. call'.kind = "replace"
      <4> DEFINE c1 == [NoCall EXCEPT !.kind = "replace"]
      <4>1. call' = [c1 EXCEPT !.order = o]
        BY <3>1
      <4>2. DOMAIN c1 = DOMAIN NoCall /\ c1.kind = "replace"
        BY DEF NoCall
      <4> HIDE DEF c1
      <4> QED
        BY <4>1, <4>2 DEF NoCall
    <3>3. Due' = Append(Due, c)
      BY <2>6, <3>1 DEF Due
    <3> QED
      BY <1>1, <2>5, <2>8, <3>2, <3>3, CallQueues
  <2> QED
    BY <2>9, <2>10
<1>4. CASE ~OnMarket(o)
  <2>1. CallbackNow(<<Cb("replace_reject", o)>>) /\ open' = open
    BY <1>4 DEF Replace
  <2>2. PICK c \in Callback : c = Cb("replace_reject", o)
    BY PlainCb
  <2>3. c.type \notin {"accept", "fill"}
    BY <2>2 DEF Cb
  <2> QED
    BY <1>1, <1>2, <2>1, <2>2, <2>3, OutsideQueues
<1> QED
  BY <1>3, <1>4

LEMMA MarketPriceSetQueues ==
  ASSUME IInv, AInv, QInv, NEW price \in MarketPrices, MarketPriceSet(price)
  PROVE  QInv'
<1>1. /\ pc = "idle" /\ pc' = pc /\ SetMarketPrice(price)
      /\ UNCHANGED <<order, open, submitting, callbacks, working>>
  BY DEF MarketPriceSet, containers, trackers, queues, locals
<1>2. \A o \in Order : Waits(o)' <=> Waits(o)
  <2>1. price \in Price
    BY ConstantsAssumption DEF ConstantsAssumption
  <2> QED
    BY <1>1, <2>1, TriggeredStopsWait DEF IInv
<1>3. AddNoted'
  BY <1>1 DEF AddNoted, InAddOrder, Matching
<1>4. Due' = Due
  BY <1>1 DEF Due
<1> QED
  BY <1>1, <1>2, <1>3, <1>4, SilentQueues

(* No callback that is due concerns an order that was not submitted. *)
LEMMA AddQueues ==
  ASSUME IInv, AInv, QInv, NEW o \in Order, NEW t \in Menu, Add(o, t)
  PROVE  QInv'
<1>1. /\ Used = 1..(o - 1) /\ pending = <<>> /\ submitting = <<>>
      /\ order' = [order EXCEPT ![o] = NewOrder(o, t)]
      /\ open' = [open EXCEPT ![o] = t.qty]
      /\ UNCHANGED <<pending, submitting>>
  BY DEF Add, Ready, triggered, AInv, Handed
<1>2. o \in Nat /\ o \notin Used /\ t.qty \in Nat /\ t.buy \in Side
  BY <1>1, ConstantsAssumption DEF Order, ConstantsAssumption, Request, Quantity
<1>3. /\ order'[o].state = "new" /\ order'[o].filled = 0 /\ order'[o].qty = t.qty
      /\ \A p \in Order \ {o} : order'[p] = order[p] /\ open'[p] = open[p]
      /\ open'[o] = t.qty
  <2>1. order'[o] = NewOrder(o, t)
    BY <1>1 DEF IInv, TypeOK
  <2> QED
    BY <1>1, <2>1 DEF NewOrder, IInv, TypeOK
<1>4. /\ Due \in Seq(Callback) /\ callbacks \in Seq(Callback) /\ working \in Seq(Callback)
  BY DueType
<1>5. \A k \in DOMAIN Due : ~Concerns(Due[k], o)
  BY <1>2 DEF AInv, Fitting, Fits
<1>6. InOrder(order', Due)
  <2>1. \A k \in DOMAIN Due : \A p \in Order : Concerns(Due[k], p) => order'[p] = order[p]
    BY <1>3, <1>5
  <2>2. PICK x, y : x = order /\ y = order'
    OBVIOUS
  <2>3. InOrder(y, Due)
    BY <1>4, <2>1, <2>2, InOrderStill DEF QInv
  <2> QED
    BY <2>2, <2>3
<1>7. ~Waits(o)
  BY <1>2, CarriedFacts
<1>8. CASE t.qty = 0
  <2>1. CallbackNow(<<Cb("reject", o)>>) /\ UNCHANGED stops
    BY <1>8 DEF Add, containers
  <2>2. PICK c \in Callback : c = Cb("reject", o)
    BY PlainCb
  <2>3. c.type \notin {"accept", "fill"}
    BY <2>2 DEF Cb
  <2>4. <<c>> \in Seq(Callback) /\ <<c>> # <<>>
    BY <1>4
  <2>5. Due' = Due \o <<c>> /\ ~InAddOrder'
    BY <1>1, <2>1, <2>2, <2>4, DueAfterCallbackNow DEF AInv
  <2>6. Due' = Append(Due, c)
    BY <1>4, <2>5
  <2>7. InOrder(order', Append(Due, c))
    BY <1>4, <1>6, <2>3, PlainPushed
  <2>8. AddNoted'
    BY <2>5 DEF AddNoted
  <2>9. \A p \in Order : Waits(p)' => Waits(p) /\ p # o
    BY <1>1, <1>7, <2>1 DEF Waits, InQueue
  <2>10. WaitsAreOpen'
    BY <1>3, <2>9, WaitsStill DEF QInv
  <2> QED
    BY <2>6, <2>7, <2>8, <2>10 DEF QInv
<1>9. CASE t.qty # 0
  <2>1. callbacks' = Append(callbacks, Cb("accept", o)) /\ working' = working
    BY <1>9 DEF Add
  <2>2. PICK c \in Callback : c = Cb("accept", o)
    BY PlainCb
  <2>3. c.type = "accept" /\ c.order = o /\ c.qty = 0
    BY <2>2 DEF Cb
  <2>4. Due' = Append(Due, c)
    BY <1>4, <2>1, <2>2 DEF Due
  <2>5. InOrder(order', Append(Due, c))
    <3>1. Paired(order', c)
      BY <2>3 DEF Paired
    <3>2. /\ order'[c.order].state = "new" /\ order'[c.order].filled = 0 /\ order'[c.order].qty > 0
          /\ c.qty # order'[c.order].qty /\ \A i \in DOMAIN Due : ~Concerns(Due[i], c.order)
      BY <1>2, <1>3, <1>5, <1>9, <2>3
    <3>3. PICK x : x = order'
      OBVIOUS
    <3>4. InOrder(x, Append(Due, c))
      BY <1>4, <1>6, <3>1, <3>2, <3>3, InOrderPushed
    <3> QED
      BY <3>3, <3>4
  <2>6. open'[o] > 0
    BY <1>2, <1>3, <1>9
  <2>7. WaitsAreOpen'
    <3>1. \A p \in Order \ {o} : Waits(p)' => Waits(p)
      <4>1. CASE Held(t)
        <5>1. stops' = [stops EXCEPT ![t.buy] = @ \cup {o}]
          BY <1>9, <4>1 DEF Add
        <5>2. \A s \in Side, p \in Order \ {o} : p \in stops'[s] <=> p \in stops[s]
          BY <1>2, <5>1 DEF IInv, TypeOK
        <5> QED
          BY <1>1, <5>2 DEF Waits, InQueue
      <4>2. CASE ~Held(t)
        <5>1. stops' = stops
          BY <1>9, <4>2 DEF Add
        <5> QED
          BY <1>1, <5>1 DEF Waits, InQueue
      <4> QED
        BY <4>1, <4>2
    <3> QED
      BY <1>3, <2>6, <3>1 DEF QInv, WaitsAreOpen
  <2>8. AddNoted'
    <3>1. CASE Held(t)
      <4>1. pc' = "pending"
        BY <1>9, <3>1 DEF Add
      <4> QED
        BY <4>1 DEF AddNoted, InAddOrder, Matching
    <3>2. CASE ~Held(t)
      <4>1. /\ pc' = "match" /\ m'.taker = o
            /\ call' = [kind |-> "add", order |-> o, accept |-> Len(callbacks) + 1, unfilled |-> 0]
        BY <1>9, <3>2 DEF Add, StartMatch
      <4>2. /\ call'.accept = Len(callbacks) + 1 /\ call'.order = o
            /\ Matching' /\ ~Nested'
        BY <4>1 DEF Matching, Nested
      <4>3. /\ Len(callbacks) \in Nat /\ Len(callbacks') = Len(callbacks) + 1
            /\ Len(callbacks) + 1 \in DOMAIN callbacks' /\ callbacks'[Len(callbacks) + 1] = c
        BY <1>4, <2>1, <2>2
      <4>4. Filling'
        <5>1. (Len(callbacks) + 1 + 1)..Len(callbacks') = {}
          BY <4>3
        <5>2. open'[call'.order] # 0
          BY <2>6, <4>2
        <5> QED
          BY <4>2, <5>1, <5>2 DEF Filling
      <4> QED
        BY <2>3, <4>2, <4>3, <4>4 DEF AddNoted
    <3> QED
      BY <3>1, <3>2
  <2> QED
    BY <2>4, <2>5, <2>7, <2>8 DEF QInv
<1> QED
  BY <1>8, <1>9

LEMMA PerformQueues ==
  ASSUME IInv, AInv, QInv, Perform
  PROVE  QInv'
<1>1. PICK cb \in Callback :
        /\ Due # <<>> /\ cb = Head(Due) /\ Due' = Tail(Due)
        /\ \A o \in Order : order'[o] = Told(order[o], cb, o)
  BY PerformTells
<1>2. Due \in Seq(Callback) /\ order \in [Order -> SimpleOrder]
  BY DueType DEF IInv, TypeOK
<1>3. InOrder(order, Due)'
  <2>1. PICK y, q : y = order' /\ q = Due
    OBVIOUS
  <2>2. InOrder(y, Tail(q))
    BY <1>1, <1>2, <2>1, InOrderDelivered DEF QInv
  <2> QED
    BY <1>1, <2>1, <2>2
<1>4. /\ pc' \in {"idle", "deliver"}
      /\ UNCHANGED <<stops, open, pending, submitting>>
  BY DEF Perform, Performed, containers, trackers, triggered
<1>5. AddNoted'
  BY <1>4 DEF AddNoted, InAddOrder, Matching
<1>6. WaitsAreOpen'
  <2>1. \A o \in Order : Waits(o)' => Waits(o)
    BY <1>4 DEF Waits, InQueue
  <2> QED
    BY <1>4, <2>1, WaitsStill DEF QInv
<1> QED
  BY <1>3, <1>5, <1>6 DEF QInv

LEMMA InitQueues == ASSUME Init PROVE QInv
<1>1. Due = <<>> /\ ~InAddOrder
  BY DEF Init, Due, InAddOrder, Matching
<1>2. InOrder(order, Due)
  BY <1>1 DEF InOrder
<1>3. \A o \in Order : ~Waits(o)
  BY DEF Init, Waits, InQueue
<1> QED
  BY <1>1, <1>2, <1>3 DEF QInv, AddNoted, WaitsAreOpen

(* Every step that is not a listener's failure. *)
LEMMA NextQueues ==
  ASSUME IInv, AInv, QInv, [ToldStep]_vars
  PROVE  QInv'
<1>1. CASE MatchStep
  BY <1>1, MatchQueues
<1>2. CASE AddOrderStep
  BY <1>2, RestQueues, CheckDeferredQueues, NestedEndsQueues, SubmittedQueues DEF AddOrderStep
<1>3. CASE PendingStep
  BY <1>3, TakePendingQueues, SubmitPendingQueues, FinishQueues DEF PendingStep
<1>4. CASE Perform
  BY <1>4, PerformQueues
<1>5. CASE Application
  <2>1. CASE \E o \in Order, t \in Menu : Add(o, t)
    BY <2>1, AddQueues
  <2>2. CASE \E o \in Order : Cancel(o)
    BY <2>2, CancelQueues
  <2>3. CASE \E o \in Order, delta \in Deltas, price \in NewPrices : Replace(o, delta, price)
    BY <2>3, ReplaceQueues
  <2>4. CASE \E price \in MarketPrices : MarketPriceSet(price)
    BY <2>4, MarketPriceSetQueues
  <2> QED
    BY <1>5, <2>1, <2>2, <2>3, <2>4 DEF Application
<1>6. CASE UNCHANGED vars
  <2>1. UNCHANGED <<order, stops, open, pending, submitting, callbacks, working, call, m, pc>>
    BY <1>6 DEF vars
  <2>2. (InAddOrder' <=> InAddOrder) /\ (Matching' <=> Matching) /\ (Nested' <=> Nested)
    BY <2>1 DEF InAddOrder, Matching, Nested
  <2>3. AddNoted'
    BY <2>1, <2>2 DEF QInv, AddNoted, Filling
  <2>4. Due' = Due /\ \A o \in Order : Waits(o)' => Waits(o)
    BY <2>1 DEF Due, Waits, InQueue
  <2> QED
    BY <2>1, <2>3, <2>4, SilentQueues
<1> QED
  BY <1>1, <1>2, <1>3, <1>4, <1>5, <1>6 DEF ToldStep

-----------------------------------------------------------------------------
(* What is to be ignored *)

(* A record that says what is to be ignored: every d of the type does. *)
HasIgnore(d) == "ignore" \in DOMAIN d

(* What changes the levels leaves that as it is. *)
LEMMA PutIgnores ==
  ASSUME NEW d, HasIgnore(d), NEW loc, NEW l
  PROVE  HasIgnore(D!Put(d, loc, l)) /\ D!Put(d, loc, l).ignore = d.ignore
BY DEF D!Put, HasIgnore

LEMMA TouchIgnores ==
  ASSUME NEW d, HasIgnore(d), NEW loc
  PROVE  HasIgnore(D!Touch(d, loc)) /\ D!Touch(d, loc).ignore = d.ignore
BY DEF D!Touch, HasIgnore

LEMMA FailedIgnores ==
  ASSUME NEW d, HasIgnore(d)
  PROVE  HasIgnore(D!Failed(d)) /\ D!Failed(d).ignore = d.ignore
BY DEF D!Failed, HasIgnore

LEMMA InsertIgnores ==
  ASSUME NEW d, HasIgnore(d), NEW buy, NEW at, NEW price
  PROVE  /\ HasIgnore(D!InsertBefore(d, buy, at, price))
         /\ D!InsertBefore(d, buy, at, price).ignore = d.ignore
BY DEF D!InsertBefore, HasIgnore

LEMMA EraseIgnores ==
  ASSUME NEW d, HasIgnore(d), NEW buy, NEW loc
  PROVE  HasIgnore(D!Erase(d, buy, loc)) /\ D!Erase(d, buy, loc).ignore = d.ignore
BY DEF D!Erase, HasIgnore

LEMMA AddIgnores ==
  ASSUME NEW d, HasIgnore(d), NEW buy, NEW price, NEW qty
  PROVE  /\ HasIgnore(D!AddOrder(d, buy, price, qty))
         /\ D!AddOrder(d, buy, price, qty).ignore = d.ignore
<1> DEFINE n == D!WithLevel(d, buy, price)
<1>1. HasIgnore(n) /\ n.ignore = d.ignore
  <2> DEFINE slots == {i \in 1..SIZE :
                         LET p == d.level[buy][i].price
                         IN  p \in {price, D!INVALID_LEVEL_PRICE} \/ D!Better(buy, price, p)}
             at == D!Min(slots)
             c == [d EXCEPT !.excess[buy] = @ \cup {D!Fresh(price)}]
             e == [d EXCEPT !.level[buy][at] = D!Fresh(price)]
             b == D!InsertBefore(d, buy, at, price)
  <2>1. n = CASE slots = {} /\ D!ExcessHas(d, buy, price) -> d
              [] slots = {} /\ ~D!ExcessHas(d, buy, price) -> c
              [] slots # {} /\ d.level[buy][at].price = price -> d
              [] slots # {} /\ d.level[buy][at].price # price
                   /\ d.level[buy][at].price = D!INVALID_LEVEL_PRICE -> e
              [] OTHER -> b
    BY DEF D!WithLevel
  <2>2. HasIgnore(c) /\ c.ignore = d.ignore /\ HasIgnore(e) /\ e.ignore = d.ignore
    BY DEF HasIgnore
  <2>3. HasIgnore(b) /\ b.ignore = d.ignore
    BY InsertIgnores
  <2> HIDE DEF n, slots, at, c, e, b
  <2> QED
    BY <2>1, <2>2, <2>3
<1> DEFINE loc == D!Find(n, buy, price)
           l == D!At(n, loc)
           x == [l EXCEPT !.count = @ + 1, !.qty = (@ + qty) % Word]
           p == D!Put(n, loc, x)
           now == d.lastChange + 1
<1>2. D!AddOrder(d, buy, price, qty)
      = IF loc.at = 0 THEN p ELSE [p EXCEPT !.lastChange = now, !.stamp[buy][loc.at] = now]
  BY DEF D!AddOrder
<1> HIDE DEF n
<1> HIDE DEF loc, x
<1>3. HasIgnore(p) /\ p.ignore = d.ignore
  BY <1>1, PutIgnores
<1> HIDE DEF p, now
<1> QED
  BY <1>2, <1>3 DEF HasIgnore

LEMMA CloseIgnores ==
  ASSUME NEW d, HasIgnore(d), NEW buy, NEW price, NEW qty
  PROVE  /\ HasIgnore(D!CloseOrder(d, buy, price, qty))
         /\ D!CloseOrder(d, buy, price, qty).ignore = d.ignore
<1> DEFINE loc == D!Find(d, buy, price)
           l == D!At(d, loc)
           n == D!Checked(d, loc, buy)
           x == [l EXCEPT !.count = @ - 1, !.qty = @ - qty]
           y == [l EXCEPT !.count = @ - 1]
           e == D!Erase(D!Put(n, loc, D!Fresh(l.price)), buy, loc)
           t == D!Touch(D!Put(n, loc, x), loc)
           f == D!Failed(D!Put(n, loc, y))
<1>1. D!CloseOrder(d, buy, price, qty)
      = IF loc.at > SIZE \/ l.count = 0 THEN D!Failed(d)
        ELSE CASE l.count = 1 -> e
               [] l.count > 1 /\ l.qty >= qty -> t
               [] OTHER -> f
  BY DEF D!CloseOrder
<1>2. HasIgnore(n) /\ n.ignore = d.ignore
  BY FailedIgnores DEF D!Checked
<1> HIDE DEF n, loc, l, x, y
<1>3. HasIgnore(e) /\ e.ignore = d.ignore
  BY <1>2, PutIgnores, EraseIgnores
<1>4. HasIgnore(t) /\ t.ignore = d.ignore
  BY <1>2, PutIgnores, TouchIgnores
<1>5. HasIgnore(f) /\ f.ignore = d.ignore
  BY <1>2, PutIgnores, FailedIgnores
<1>6. HasIgnore(D!Failed(d)) /\ D!Failed(d).ignore = d.ignore
  BY FailedIgnores
<1> HIDE DEF e, t, f
<1> QED
  BY <1>1, <1>3, <1>4, <1>5, <1>6

LEMMA ChangeQtyIgnores ==
  ASSUME NEW d, HasIgnore(d), NEW buy, NEW price, NEW delta
  PROVE  /\ HasIgnore(D!ChangeQtyOrder(d, buy, price, delta))
         /\ D!ChangeQtyOrder(d, buy, price, delta).ignore = d.ignore
<1> DEFINE loc == D!Find(d, buy, price)
           l == D!At(d, loc)
           n == D!Checked(d, loc, buy)
           x == [l EXCEPT !.qty = (@ + delta) % Word]
           t == D!Touch(D!Put(n, loc, x), loc)
<1>1. D!ChangeQtyOrder(d, buy, price, delta)
      = CASE delta = 0 -> d
          [] delta # 0 /\ loc.at > SIZE -> D!Failed(d)
          [] OTHER -> t
  BY DEF D!ChangeQtyOrder
<1>2. HasIgnore(n) /\ n.ignore = d.ignore
  BY FailedIgnores DEF D!Checked
<1> HIDE DEF n, loc, x
<1>3. HasIgnore(t) /\ t.ignore = d.ignore
  BY <1>2, PutIgnores, TouchIgnores
<1>4. HasIgnore(D!Failed(d)) /\ D!Failed(d).ignore = d.ignore
  BY FailedIgnores
<1> HIDE DEF t
<1> QED
  BY <1>1, <1>3, <1>4

LEMMA ReplaceIgnores ==
  ASSUME NEW d, HasIgnore(d), NEW buy, NEW price, NEW newPrice, NEW qty, NEW newQty
  PROVE  /\ HasIgnore(D!ReplaceOrder(d, buy, price, newPrice, qty, newQty))
         /\ D!ReplaceOrder(d, buy, price, newPrice, qty, newQty).ignore = d.ignore
<1> DEFINE e == D!AddOrder(d, buy, newPrice, newQty)
<1>1. HasIgnore(e) /\ e.ignore = d.ignore
  BY AddIgnores
<1> HIDE DEF e
<1>2. HasIgnore(D!CloseOrder(e, buy, price, qty)) /\ D!CloseOrder(e, buy, price, qty).ignore = d.ignore
  BY <1>1, CloseIgnores
<1>3. /\ HasIgnore(D!ChangeQtyOrder(d, buy, price, newQty - qty))
      /\ D!ChangeQtyOrder(d, buy, price, newQty - qty).ignore = d.ignore
  BY ChangeQtyIgnores
<1> QED
  BY <1>2, <1>3 DEF D!ReplaceOrder, e

-----------------------------------------------------------------------------
(* What the depth is to have *)

(* What the depth is to have of an order object x: a limit order that was  *)
(* accepted and is neither complete nor cancelled, with what it has left.  *)
IsLive(x) == x.state = "accepted" /\ x.price # MARKET_ORDER_PRICE
Left(x) == IF IsLive(x) THEN x.qty - x.filled ELSE 0
Entry(x) == IF IsLive(x) THEN [buy |-> x.buy, price |-> x.price, qty |-> Left(x)] ELSE T!NoOrder

(* An order that was filled when it was accepted is not in the depth: the  *)
(* fills that are due at once are to be ignored.                           *)
Skips(x, d, q, o) == d.ignore[x[o].buy] # 0 /\ Head(q).order = o

Entries(x, d, q) == [o \in Order |-> IF Skips(x, d, q, o) THEN T!NoOrder ELSE Entry(x[o])]
Plain(x) == [o \in Order |-> Entry(x[o])]

Ignoring(x, d, q) ==
  \A b \in Side : d.ignore[b] # 0 =>
    \E o \in Order : /\ x[o].buy = b /\ IsLive(x[o]) /\ d.ignore[b] = Left(x[o])
                     /\ Streak(q, 0, o)

Lefts(x) == [o \in Order |-> Left(x[o])]

(* No order has more filled than it asks for. *)
Within(x) == \A o \in Order : x[o].state = "accepted" => x[o].filled <= x[o].qty

(* The quantities fit, with room for one that is counted twice while it    *)
(* moves.                                                                  *)
Fitted(x) ==
  /\ \A o \in Order : x[o].qty \in D!Quantity
  /\ 2 * D!MapThenSumSet(LAMBDA o : Lefts(x)[o], Order) < Word

LEMMA AmountsAreWords ==
  /\ T!Quantity = 0..(Word - 1) /\ D!Quantity = 0..(Word - 1)
  /\ \A q \in 0..(Word - 1) : q \in T!Amounts
<1>1. Word \in Nat /\ Word > 1
  BY DepthBookAssumption DEF DepthBookAssumption
<1>2. T!Quantity = 0..(Word - 1) /\ D!Quantity = 0..(Word - 1)
  BY DEF T!Quantity, D!Quantity
<1>3. ASSUME NEW q \in 0..(Word - 1) PROVE q \in T!Amounts
  <2>1. \E k \in 1..(Word - 1) : q \in 0..k
    <3>1. CASE q = 0
      <4>1. 1 \in 1..(Word - 1) /\ q \in 0..1
        BY <1>1, <3>1
      <4> QED
        BY <4>1
    <3>2. CASE q # 0
      <4>1. q \in 1..(Word - 1) /\ q \in 0..q
        BY <1>1, <3>2
      <4> QED
        BY <4>1
    <3> QED
      BY <3>1, <3>2
  <2> QED
    BY <2>1 DEF T!Amounts
<1> QED
  BY <1>2, <1>3

LEMMA EntryIsOrder ==
  ASSUME NEW x \in SimpleOrder, x.state = "accepted" => x.filled <= x.qty, x.qty \in D!Quantity
  PROVE  /\ Entry(x) \in T!ClientOrder
         /\ ~IsLive(x) => Entry(x) = T!NoOrder /\ Left(x) = 0
         /\ IsLive(x) => /\ Entry(x) # T!NoOrder
                         /\ Entry(x).buy = x.buy /\ Entry(x).price = x.price
                         /\ Entry(x).qty = x.qty - x.filled /\ Left(x) = x.qty - x.filled
                         /\ x.price \in Nat \ {0} /\ Entry(x).qty \in T!Amounts
         /\ Left(x) \in T!Quantity /\ Left(x) \in Nat /\ Entry(x).qty = Left(x)
<1>1. Word \in Nat /\ Word > 1
  BY DepthBookAssumption DEF DepthBookAssumption
<1>2. x.filled \in Nat /\ x.price \in Nat /\ x.buy \in BOOLEAN
  BY DEF SimpleOrder, Quantity, Price, Side
<1>3. x.qty \in 0..(Word - 1)
  BY AmountsAreWords
<1>4. Left(x) \in 0..(Word - 1) /\ Left(x) \in Nat
  <2>1. CASE IsLive(x)
    <3>1. x.filled <= x.qty
      BY <2>1 DEF IsLive
    <3>2. x.qty - x.filled \in 0..(Word - 1)
      BY <1>1, <1>2, <1>3, <3>1
    <3> QED
      BY <1>1, <2>1, <3>2 DEF Left
  <2>2. CASE ~IsLive(x)
    BY <1>1, <2>2 DEF Left
  <2> QED
    BY <2>1, <2>2
<1>5. Left(x) \in T!Quantity /\ Left(x) \in T!Amounts
  BY <1>4, AmountsAreWords
<1>6. CASE ~IsLive(x)
  <2>1. Entry(x) = T!NoOrder /\ Left(x) = 0
    BY <1>6 DEF Entry, Left
  <2>2. T!NoOrder \in T!ClientOrder /\ T!NoOrder.qty = 0
    BY <1>5, <2>1 DEF T!NoOrder, T!ClientOrder
  <2> QED
    BY <1>4, <1>5, <1>6, <2>1, <2>2
<1>7. CASE IsLive(x)
  <2>1. PICK l : l = Left(x)
    OBVIOUS
  <2>2. Entry(x) = [buy |-> x.buy, price |-> x.price, qty |-> l] /\ l = x.qty - x.filled
    BY <1>7, <2>1 DEF Entry, Left
  <2>3. l \in T!Quantity /\ l \in T!Amounts /\ l \in Nat
    BY <1>4, <1>5, <2>1
  <2>4. x.price # 0
    BY <1>7 DEF IsLive, MARKET_ORDER_PRICE
  <2>5. Entry(x) \in T!ClientOrder
    BY <1>2, <2>2, <2>3 DEF T!ClientOrder
  <2>6. Entry(x).price = x.price /\ Entry(x).buy = x.buy /\ Entry(x).qty = l
    BY <2>2
  <2>7. Entry(x) # T!NoOrder
    BY <2>4, <2>6 DEF T!NoOrder
  <2> QED
    BY <1>2, <1>7, <2>1, <2>2, <2>3, <2>4, <2>5, <2>6, <2>7
<1> QED
  BY <1>6, <1>7

(* There is room for one more order. *)
LEMMA RoomForOne ==
  ASSUME NEW x \in [Order -> SimpleOrder], Within(x), Fitted(x),
         NEW y \in [Order -> SimpleOrder], Within(y), Fitted(y),
         NEW n \in [Order -> T!ClientOrder],
         \A o \in Order : n[o].qty \in {0, Left(x[o])},
         NEW o \in Order
  PROVE  T!AllQty(n) + Left(y[o]) < Word
<1>1. Word \in Nat /\ T!IsFiniteSet(Order)
  BY ClientAssumption
<1>2. PICK f : f = Lefts(x)
  OBVIOUS
<1>3. PICK g : g = Lefts(y)
  OBVIOUS
<1>4. PICK h : h = T!Qtys(n)
  OBVIOUS
<1>5. f \in [Order -> Nat] /\ g \in [Order -> Nat]
  <2>1. \A p \in Order : Left(x[p]) \in Nat /\ Left(y[p]) \in Nat
    BY EntryIsOrder DEF Within, Fitted
  <2> QED
    BY <1>2, <1>3, <2>1 DEF Lefts
<1>6. h \in [Order -> Nat] /\ \A p \in Order : h[p] = n[p].qty
  BY <1>4, ClientAssumption, T!QtysAreNumbers
<1>7. \A p \in Order : h[p] \in {0, f[p]}
  <2>1. \A p \in Order : f[p] = Left(x[p])
    BY <1>2 DEF Lefts
  <2> QED
    BY <1>6, <2>1
<1>8. T!Sum(h, Order) \in Nat /\ T!Sum(f, Order) \in Nat /\ T!Sum(h, Order) <= T!Sum(f, Order)
  BY <1>1, <1>5, <1>6, <1>7, ClientAssumption, T!SumOfSome
<1>9. Left(y[o]) \in Nat /\ T!Sum(g, Order) \in Nat /\ Left(y[o]) <= T!Sum(g, Order)
  <2>1. T!Sum(g, {o}) \in Nat /\ T!Sum(g, Order) \in Nat /\ T!Sum(g, {o}) <= T!Sum(g, Order)
    BY <1>1, <1>5, ClientAssumption, T!SumBound
  <2>2. T!Sum(g, {o}) = g[o]
    <3>1. g \in [Order -> Int] /\ {o} \in SUBSET Order /\ o \in {o} /\ {o} \ {o} = {}
      BY <1>5
    <3>2. T!Sum(g, {o}) = g[o] + T!Sum(g, {o} \ {o})
      BY <1>1, <3>1, ClientAssumption, T!SumWithout
    <3>3. T!Sum(g, {}) = 0
      BY ClientAssumption, T!SumOfNone
    <3>4. T!Sum(g, {o} \ {o}) = 0
      BY <3>1, <3>3
    <3>5. g[o] \in Int
      BY <1>5
    <3> QED
      BY ONLY <3>2, <3>4, <3>5
  <2>3. g[o] = Left(y[o])
    BY <1>3 DEF Lefts
  <2> QED
    BY <1>5, <2>1, <2>2, <2>3
<1>10. 2 * T!Sum(f, Order) < Word /\ 2 * T!Sum(g, Order) < Word
  <2>1. Lefts(x) \in [Order -> Int] /\ Lefts(y) \in [Order -> Int] /\ Order \in SUBSET Order
    BY <1>2, <1>3, <1>5
  <2>2. D!MapThenSumSet(LAMBDA p : Lefts(x)[p], Order) = T!Sum(f, Order)
    BY <1>2, <2>1, SumsAreSums
  <2>3. D!MapThenSumSet(LAMBDA p : Lefts(y)[p], Order) = T!Sum(g, Order)
    BY <1>3, <2>1, SumsAreSums
  <2> QED
    BY <2>2, <2>3 DEF Fitted
<1> QED
  BY <1>1, <1>4, <1>8, <1>9, <1>10 DEF T!AllQty

LEMMA KeptObject ==
  ASSUME NEW kept, NEW d, T!Kept(kept, d)
  PROVE  /\ d \in T!DepthObject /\ HasIgnore(d) /\ ~d.failed
         /\ d.ignore \in [BOOLEAN -> T!Quantity]
         /\ kept \in [Order -> T!ClientOrder]
<1>1. d \in T!DepthObject /\ ~d.failed /\ kept \in [Order -> T!ClientOrder]
  BY DEF T!Kept, T!Structure
<1> QED
  BY <1>1 DEF T!DepthObject, HasIgnore

(* The part of on_fill() for one of the two orders, when its fills are not *)
(* to be ignored.                                                          *)
LEMMA FillPartFollows ==
  ASSUME order \in [Order -> SimpleOrder],
         NEW kept, NEW d, T!Kept(kept, d),
         NEW r \in Order, NEW cb \in Callback,
         order[r].state = "accepted", order[r].qty \in D!Quantity,
         order[r].filled + cb.qty <= order[r].qty,
         r \in cb.done <=> order[r].filled + cb.qty = order[r].qty,
         kept[r] = Entry(order[r]), d.ignore[order[r].buy] = 0,
         NEW y, y = Filled(order[r], cb.qty),
         NEW n, n = FillPart(d, r, cb)
  PROVE  T!Kept(T!With(kept, r, Entry(y)), n) /\ n.ignore = d.ignore
<1>1. PICK x : x = order[r]
  OBVIOUS
<1>2. /\ x \in SimpleOrder /\ x.filled \in Nat /\ x.qty \in Int /\ x.buy \in BOOLEAN
      /\ x.state = "accepted" /\ x.qty \in D!Quantity
  BY <1>1 DEF SimpleOrder, Quantity, Side
<1>3. cb.qty \in Nat
  BY DEF Callback, Quantity
<1>4. /\ y.state = IF x.filled + cb.qty >= x.qty THEN "complete" ELSE "accepted"
      /\ y.buy = x.buy /\ y.price = x.price /\ y.qty = x.qty /\ y.filled = x.filled + cb.qty
      /\ y \in SimpleOrder
  <2>1. x.filled + cb.qty \in Nat
    BY <1>2, <1>3
  <2> QED
    BY <1>1, <1>2, <2>1 DEF Filled, SimpleOrder, Quantity, States
<1>5. /\ d \in T!DepthObject /\ HasIgnore(d) /\ kept \in [Order -> T!ClientOrder]
  BY KeptObject
<1>6. CASE ~IsLive(x)
  <2>1. x.price = MARKET_ORDER_PRICE
    BY <1>2, <1>6 DEF IsLive
  <2>2. ~IsLive(y)
    BY <1>4, <2>1 DEF IsLive
  <2>3. n = d
    BY <1>1, <2>1 DEF FillPart, IsLimit
  <2>4. Entry(x) = T!NoOrder /\ Entry(y) = T!NoOrder
    BY <1>6, <2>2 DEF Entry
  <2>5. T!With(kept, r, Entry(y)) = kept
    BY <1>1, <1>5, <2>4 DEF T!With
  <2> QED
    BY <2>3, <2>5
<1>7. CASE IsLive(x)
  <2>1. IsLimit(r)
    BY <1>1, <1>7 DEF IsLive, IsLimit
  <2>2. PICK c : c = kept[r]
    OBVIOUS
  <2>3. /\ c # T!NoOrder /\ c.buy = x.buy /\ c.price = x.price /\ c.qty = x.qty - x.filled
        /\ c.qty \in T!Amounts /\ c.price \in Nat \ {0}
    <3>1. x.filled <= x.qty
      BY <1>1, <1>2, <1>3
    <3> QED
      BY <1>1, <1>2, <1>7, <2>2, <3>1, EntryIsOrder
  <2>4. d.ignore[x.buy] = 0
    BY <1>1
  <2>5. n = D!FillOrder(d, x.buy, x.price, cb.qty, r \in cb.done)
    BY <1>1, <2>1 DEF FillPart
  <2>6. CASE r \in cb.done
    <3>1. n = D!CloseOrder(d, x.buy, x.price, cb.qty)
      BY <2>4, <2>5, <2>6 DEF D!FillOrder
    <3>2. cb.qty = c.qty
      BY <1>1, <1>2, <1>3, <2>3, <2>6
    <3>3. n = T!CloseOrder(d, c.buy, c.price, c.qty)
      BY <2>3, <3>1, <3>2, SameCalls
    <3>4. T!Kept(T!Without(kept, r), n)
      BY <2>2, <2>3, <3>3, ClientAssumption, T!LeaveFollows
    <3>5. Entry(y) = T!NoOrder
      <4>1. y.state = "complete"
        BY <1>1, <1>2, <1>3, <1>4, <2>6
      <4> QED
        BY <4>1 DEF Entry, IsLive
    <3>6. n.ignore = d.ignore
      BY <1>5, <3>1, CloseIgnores
    <3> QED
      BY <3>4, <3>5, <3>6 DEF T!Without
  <2>7. CASE r \notin cb.done
    <3>1. n = D!ChangeQtyOrder(d, x.buy, x.price, -cb.qty)
      BY <2>4, <2>5, <2>7 DEF D!FillOrder
    <3>2. PICK size : size = c.qty - cb.qty
      OBVIOUS
    <3>3. x.filled + cb.qty < x.qty
      BY <1>1, <1>2, <1>3, <2>7
    <3>4. PICK w : w = Word
      OBVIOUS
    <3>5. w \in Nat /\ x.qty \in 0..(w - 1)
      BY <1>2, <3>4, AmountsAreWords, ClientAssumption
    <3>6. size \in 0..(w - 1) /\ size - c.qty = -cb.qty /\ size \in Int /\ c.qty \in Nat /\ size <= c.qty
      BY <1>2, <1>3, <2>3, <3>2, <3>3, <3>5
    <3>7. size \in T!Amounts
      BY <3>4, <3>6, AmountsAreWords
    <3>8. n = T!ChangeQtyOrder(d, c.buy, c.price, size - c.qty)
      BY <2>3, <3>1, <3>6, SameCalls
    <3>9. T!AllQty(kept) - c.qty + size < Word
      <4>1. T!AllQty(kept) < w
        BY <3>4 DEF T!Kept
      <4>2. T!AllQty(kept) \in Nat
        BY <1>5, ClientAssumption, T!PartOfBook
      <4> QED
        BY <3>4, <3>5, <3>6, <4>1, <4>2
    <3>10. PICK e : e = [c EXCEPT !.qty = size]
      OBVIOUS
    <3>11. T!Kept(T!With(kept, r, e), n)
      BY <2>2, <2>3, <3>7, <3>8, <3>9, <3>10, ClientAssumption, T!ResizeFollows
    <3>12. Entry(y) = e
      <4>1. y.state = "accepted"
        BY <1>2, <1>3, <1>4, <3>3
      <4>2. IsLive(y) /\ Left(y) = size
        <5>1. IsLive(y)
          BY <1>4, <1>7, <4>1 DEF IsLive
        <5>2. y.qty - y.filled = size
          BY <1>2, <1>3, <1>4, <2>3, <3>2
        <5> QED
          BY <5>1, <5>2 DEF Left
      <4>3. c = [buy |-> x.buy, price |-> x.price, qty |-> Left(x)]
        BY <1>1, <1>7, <2>2 DEF Entry
      <4>4. e = [buy |-> x.buy, price |-> x.price, qty |-> size]
        BY <3>10, <4>3
      <4> QED
        BY <1>4, <4>2, <4>4 DEF Entry
    <3>13. n.ignore = d.ignore
      BY <1>5, <3>1, ChangeQtyIgnores
    <3> QED
      BY <3>11, <3>12, <3>13
  <2> QED
    BY <2>6, <2>7
<1> QED
  BY <1>6, <1>7

-----------------------------------------------------------------------------
(* What the depth hears *)

(* The object d keeps what the order objects have left while q is due, the *)
(* objects are y when the first callback of q is delivered, and all        *)
(* quantities fit.                                                         *)
Hears(y, q, d) ==
  /\ order \in [Order -> SimpleOrder] /\ y \in [Order -> SimpleOrder]
  /\ q \in Seq(Callback) /\ q # <<>> /\ InOrder(order, q)
  /\ \A o \in Order : /\ Timely(order[o], Head(q), o)
                      /\ y[o] = Told(order[o], Head(q), o)
  /\ Within(order) /\ Fitted(order) /\ Fitted(y)
  /\ T!Kept(Entries(order, d, q), d) /\ Ignoring(order, d, q)

(* The object n keeps it then. *)
Followed(y, q, n) ==
  T!Kept(Entries(y, n, Tail(q)), n) /\ Ignoring(y, n, Tail(q)) /\ Within(y)

LEMMA StreakAtHead ==
  ASSUME NEW q \in Seq(Callback), NEW o, Streak(q, 0, o)
  PROVE  q # <<>> /\ Head(q).type = "fill" /\ Head(q).order = o
<1>1. PICK j \in DOMAIN q : /\ j > 0 /\ o \in q[j].done
                            /\ \A i \in (0 + 1)..j : q[i].type = "fill" /\ q[i].order = o
  BY DEF Streak
<1>2. 1 \in (0 + 1)..j /\ q # <<>> /\ Head(q) = q[1]
  BY <1>1
<1> QED
  BY <1>1, <1>2

(* A delivery leaves no order with more filled than it asks for. *)
LEMMA WithinStill ==
  ASSUME NEW y, NEW q, NEW d, Hears(y, q, d)
  PROVE  Within(y) /\ \A o \in Order : y[o].buy = order[o].buy
<1>1. Head(q) \in Callback
  BY DEF Hears
<1>2. PICK c \in Callback : c = Head(q)
  BY <1>1
<1>3. ASSUME NEW o \in Order
      PROVE  /\ y[o].state = "accepted" => y[o].filled <= y[o].qty
             /\ y[o].buy = order[o].buy
  <2>1. PICK x : x = order[o]
    OBVIOUS
  <2>2. x \in SimpleOrder /\ Timely(x, c, o) /\ y[o] = Told(x, c, o)
    BY <1>2, <2>1 DEF Hears
  <2>3. x.state = "accepted" => x.filled <= x.qty
    BY <2>1 DEF Hears, Within
  <2>4. y[o].buy = order[o].buy
    BY <2>1, <2>2, ToldBuy
  <2>5. CASE ~Concerns(c, o)
    BY <2>2, <2>3, <2>4, <2>5, ToldNothing
  <2>6. CASE c.type = "accept" /\ Concerns(c, o)
    <3>1. c = Head(q) /\ o = c.order /\ 1 \in DOMAIN q /\ q[1] = c
      BY <1>2, <2>6 DEF Hears, Concerns
    <3>2. x.filled = 0 /\ x.qty > 0
      BY <2>1, <2>6, <3>1 DEF Hears, InOrder, AcceptedFirst
    <3>3. y[o].filled = x.filled /\ y[o].qty = x.qty
      BY <2>2, <2>6, <3>1, ToldAccept
    <3>4. x.qty \in Int
      BY <2>2 DEF SimpleOrder
    <3> QED
      BY <2>4, <3>2, <3>3, <3>4
  <2>7. CASE c.type = "fill" /\ Concerns(c, o)
    <3>1. x.filled + c.qty <= x.qty /\ o \in {c.order, c.matched}
      BY <2>2, <2>7 DEF Timely, Concerns
    <3>2. y[o].filled = x.filled + c.qty /\ y[o].qty = x.qty
      BY <2>2, <2>7, <3>1, ToldFill
    <3> QED
      BY <2>4, <3>1, <3>2
  <2>8. CASE c.type = "cancel" /\ Concerns(c, o)
    <3>1. y[o].state = "cancelled"
      BY <2>2, <2>8, ToldCancel DEF Concerns
    <3> QED
      BY <2>4, <3>1
  <2>9. CASE c.type = "replace" /\ Concerns(c, o)
    <3>1. x.filled <= x.qty + c.delta /\ o = c.order
      BY <2>2, <2>9 DEF Timely, Concerns
    <3>2. y[o].filled = x.filled /\ y[o].qty = x.qty + c.delta
      BY <2>2, <2>9, <3>1, ToldReplace
    <3> QED
      BY <2>4, <3>1, <3>2
  <2>10. CASE c.type = "reject" /\ Concerns(c, o)
    <3>1. y[o] = x
      BY <2>2, <2>10, ToldReject
    <3> QED
      BY <2>3, <2>4, <3>1
  <2> QED
    BY <2>5, <2>6, <2>7, <2>8, <2>9, <2>10 DEF Concerns
<1> QED
  BY <1>3 DEF Within

(* When no fills are to be ignored, all orders are in the depth. *)
LEMMA NothingIgnored ==
  ASSUME NEW x \in [Order -> SimpleOrder], NEW d, NEW q, \A b \in BOOLEAN : d.ignore[b] = 0
  PROVE  Entries(x, d, q) = Plain(x) /\ Ignoring(x, d, q)
<1>1. \A o \in Order : ~Skips(x, d, q, o)
  BY DEF Skips, SimpleOrder, Side
<1> QED
  BY <1>1 DEF Entries, Plain, Ignoring, Side

(* Only the fills that are due next may be ignored. *)
LEMMA OnlyFillsIgnored ==
  ASSUME NEW y, NEW q, NEW d, Hears(y, q, d), Head(q).type # "fill"
  PROVE  /\ \A b \in BOOLEAN : d.ignore[b] = 0
         /\ Entries(order, d, q) = Plain(order) /\ T!Kept(Plain(order), d)
<1>1. \A b \in BOOLEAN : d.ignore[b] = 0
  BY StreakAtHead DEF Hears, Ignoring, Side
<1> QED
  BY <1>1, NothingIgnored DEF Hears

LEMMA PlainFollowed ==
  ASSUME NEW y, NEW q, NEW d, Hears(y, q, d), NEW n,
         T!Kept(Plain(y), n), \A b \in BOOLEAN : n.ignore[b] = 0
  PROVE  Followed(y, q, n)
<1>1. y \in [Order -> SimpleOrder]
  BY DEF Hears
<1> QED
  BY <1>1, NothingIgnored, WithinStill DEF Followed

(* One object that changed is one entry that changed. *)
LEMMA OneEntry ==
  ASSUME NEW x, NEW y, NEW o \in Order, \A p \in Order \ {o} : y[p] = x[p]
  PROVE  Plain(y) = T!With(Plain(x), o, Entry(y[o]))
BY DEF Plain, T!With

LEMMA PlainEntries ==
  ASSUME NEW x \in [Order -> SimpleOrder], Within(x), Fitted(x)
  PROVE  /\ Plain(x) \in [Order -> T!ClientOrder]
         /\ \A o \in Order : Plain(x)[o] = Entry(x[o]) /\ Plain(x)[o].qty = Left(x[o])
BY EntryIsOrder DEF Plain, Within, Fitted

(* A callback about one order: its object x is the only one that changes,  *)
(* and what the depth keeps is what the objects have left.                 *)
LEMMA OneHears ==
  ASSUME NEW y, NEW q, NEW d, Hears(y, q, d), NEW c, c = Head(q),
         c.type \in {"accept", "reject", "cancel", "replace"},
         NEW o, o = c.order, NEW x, x = order[o]
  PROVE  /\ c \in Callback /\ o \in Order /\ x \in SimpleOrder /\ y[o] \in SimpleOrder
         /\ Concerns(c, o) /\ Timely(x, c, o) /\ y[o] = Told(x, c, o)
         /\ x.state = "accepted" => x.filled <= x.qty
         /\ y[o].state = "accepted" => y[o].filled <= y[o].qty
         /\ x.qty \in D!Quantity /\ y[o].qty \in D!Quantity
         /\ Plain(y) = T!With(Plain(order), o, Entry(y[o]))
         /\ Plain(order)[o] = Entry(x)
         /\ T!Kept(Plain(order), d) /\ HasIgnore(d)
         /\ \A b \in BOOLEAN : d.ignore[b] = 0
         /\ T!AllQty(Plain(order)) + Left(y[o]) < Word
         /\ T!AllQty(Plain(order)) \in Nat
<1>1. c \in Callback /\ o \in Order
  <2>1. c \in Callback
    BY DEF Hears
  <2> QED
    BY <2>1 DEF Callback
<1>2. /\ x \in SimpleOrder /\ y[o] \in SimpleOrder
      /\ Timely(x, c, o) /\ y[o] = Told(x, c, o)
  BY <1>1 DEF Hears
<1>3. Concerns(c, o) /\ \A p \in Order \ {o} : ~Concerns(c, p)
  BY DEF Concerns
<1>4. \A p \in Order \ {o} : y[p] = order[p]
  BY <1>3, ToldNothing DEF Hears
<1>5. /\ x.state = "accepted" => x.filled <= x.qty
      /\ y[o].state = "accepted" => y[o].filled <= y[o].qty
      /\ x.qty \in D!Quantity /\ y[o].qty \in D!Quantity
  BY <1>1, WithinStill DEF Hears, Within, Fitted
<1>6. Plain(y) = T!With(Plain(order), o, Entry(y[o]))
  BY <1>1, <1>4, OneEntry
<1>7. /\ Plain(order) \in [Order -> T!ClientOrder]
      /\ \A p \in Order : Plain(order)[p] = Entry(order[p]) /\ Plain(order)[p].qty = Left(order[p])
  BY PlainEntries DEF Hears
<1>8. T!Kept(Plain(order), d) /\ \A b \in BOOLEAN : d.ignore[b] = 0
  BY OnlyFillsIgnored
<1>9. HasIgnore(d)
  BY <1>8, KeptObject
<1>10. T!AllQty(Plain(order)) + Left(y[o]) < Word
  BY <1>1, <1>7, WithinStill, RoomForOne DEF Hears
<1>11. T!AllQty(Plain(order)) \in Nat
  BY <1>7, ClientAssumption, T!PartOfBook
<1> QED
  BY <1>1, <1>2, <1>3, <1>5, <1>6, <1>7, <1>8, <1>9, <1>10, <1>11

(* The cancel of a limit order with what it has left closes it. *)
LEMMA CancelFollows ==
  ASSUME NEW y, NEW q, NEW d, Hears(y, q, d), Head(q).type = "cancel", ~Misleads(Head(q)),
         NEW n, n = Heard(d, Head(q))
  PROVE  Followed(y, q, n)
<1>1. PICK c, o : c = Head(q) /\ o = c.order
  OBVIOUS
<1>2. PICK x : x = order[o]
  OBVIOUS
<1>3. /\ c \in Callback /\ o \in Order /\ x \in SimpleOrder
      /\ Concerns(c, o) /\ Timely(x, c, o) /\ y[o] = Told(x, c, o)
      /\ x.state = "accepted" => x.filled <= x.qty
      /\ x.qty \in D!Quantity
      /\ Plain(y) = T!With(Plain(order), o, Entry(y[o])) /\ Plain(order)[o] = Entry(x)
      /\ T!Kept(Plain(order), d) /\ HasIgnore(d) /\ \A b \in BOOLEAN : d.ignore[b] = 0
  BY <1>1, <1>2, OneHears
<1>4. y[o].state = "cancelled"
  BY <1>1, <1>3, ToldCancel
<1>5. Entry(y[o]) = T!NoOrder
  BY <1>4 DEF Entry, IsLive
<1>6. n = OnCancel(d, o, c.qty)
  BY <1>1 DEF Heard
<1>7. x.state = "accepted"
  BY <1>1, <1>3 DEF Timely
<1>8. CASE x.price = MARKET_ORDER_PRICE
  <2>1. n = d
    BY <1>2, <1>6, <1>8 DEF OnCancel, IsLimit
  <2>2. Entry(x) = T!NoOrder
    BY <1>8 DEF Entry, IsLive
  <2>3. Plain(y) = Plain(order)
    BY <1>3, <1>5, <2>2 DEF T!With, Plain
  <2> QED
    BY <1>3, <2>1, <2>3, PlainFollowed
<1>9. CASE x.price # MARKET_ORDER_PRICE
  <2>1. IsLimit(o) /\ IsLive(x)
    BY <1>2, <1>7, <1>9 DEF IsLimit, IsLive
  <2>2. c.qty = x.qty - x.filled
    BY <1>1, <1>2, <2>1 DEF Misleads
  <2>3. PICK e : e = Plain(order)[o]
    OBVIOUS
  <2>4. e # T!NoOrder /\ e.buy = x.buy /\ e.price = x.price /\ e.qty = x.qty - x.filled
    BY <1>3, <1>7, <2>1, <2>3, EntryIsOrder
  <2>5. n = D!CloseOrder(d, x.buy, x.price, c.qty)
    BY <1>2, <1>6, <2>1 DEF OnCancel
  <2>6. n = T!CloseOrder(d, e.buy, e.price, e.qty)
    BY <2>2, <2>4, <2>5, SameCalls
  <2>7. T!Kept(T!Without(Plain(order), o), n)
    BY <1>3, <2>3, <2>4, <2>6, ClientAssumption, T!LeaveFollows
  <2>8. T!Kept(Plain(y), n)
    BY <1>3, <1>5, <2>7 DEF T!Without
  <2>9. n.ignore = d.ignore
    BY <1>3, <2>5, CloseIgnores
  <2> QED
    BY <1>3, <2>8, <2>9, PlainFollowed
<1> QED
  BY <1>8, <1>9

(* The replace of a limit order that is not both moved and filled in part  *)
(* resizes or moves it.                                                    *)
LEMMA ReplaceFollows ==
  ASSUME NEW y, NEW q, NEW d, Hears(y, q, d), Head(q).type = "replace", ~Misleads(Head(q)),
         NEW n, n = Heard(d, Head(q))
  PROVE  Followed(y, q, n)
<1>1. PICK c, o : c = Head(q) /\ o = c.order
  OBVIOUS
<1>2. PICK x : x = order[o]
  OBVIOUS
<1>3. PICK z : z = y[o]
  OBVIOUS
<1>4. /\ c \in Callback /\ o \in Order /\ x \in SimpleOrder /\ z \in SimpleOrder
      /\ Concerns(c, o) /\ Timely(x, c, o) /\ z = Told(x, c, o)
      /\ x.state = "accepted" => x.filled <= x.qty
      /\ z.state = "accepted" => z.filled <= z.qty
      /\ x.qty \in D!Quantity /\ z.qty \in D!Quantity
      /\ Plain(y) = T!With(Plain(order), o, Entry(z)) /\ Plain(order)[o] = Entry(x)
      /\ T!Kept(Plain(order), d) /\ HasIgnore(d) /\ \A b \in BOOLEAN : d.ignore[b] = 0
      /\ T!AllQty(Plain(order)) + Left(z) < Word /\ T!AllQty(Plain(order)) \in Nat
  BY <1>1, <1>2, <1>3, OneHears
<1>5. /\ x.state = "accepted" /\ x.filled <= x.qty + c.delta
      /\ c.price = MARKET_ORDER_PRICE => x.price = MARKET_ORDER_PRICE
  BY <1>1, <1>4 DEF Timely
<1>6. x.price # MARKET_ORDER_PRICE /\ (c.price = x.price \/ ~(x.filled > 0))
  BY <1>1, <1>2 DEF Misleads, IsLimit
<1>7. /\ z.state = "accepted" /\ z.qty = x.qty + c.delta /\ z.filled = x.filled
      /\ z.price = c.price /\ z.price # MARKET_ORDER_PRICE /\ z.buy = x.buy
  BY <1>1, <1>4, <1>5, <1>6, ToldReplace, ToldBuy
<1>8. IsLive(x) /\ IsLive(z)
  BY <1>5, <1>6, <1>7 DEF IsLive
<1>9. /\ x.filled \in Nat /\ x.qty \in Int /\ c.delta \in Int
  BY <1>4 DEF SimpleOrder, Callback, Quantity
<1>10. PICK e : e = Plain(order)[o]
  OBVIOUS
<1>11. /\ e # T!NoOrder /\ e = [buy |-> x.buy, price |-> x.price, qty |-> x.qty - x.filled]
       /\ e.buy = x.buy /\ e.price = x.price /\ e.qty = x.qty - x.filled /\ e.qty \in T!Amounts
       /\ x.price \in Nat \ {0}
  BY <1>4, <1>5, <1>8, <1>10, EntryIsOrder DEF Entry, Left
<1>12. PICK f : f = Entry(z)
  OBVIOUS
<1>13. /\ f = [buy |-> x.buy, price |-> z.price, qty |-> z.qty - z.filled]
       /\ f.qty = z.qty - z.filled /\ f.qty \in T!Amounts
       /\ z.price \in Nat \ {0} /\ Left(z) = f.qty /\ f.qty \in Nat
  BY <1>4, <1>7, <1>8, <1>12, EntryIsOrder DEF Entry, Left
<1>14. PICK size : size = f.qty
  OBVIOUS
<1>15. n = D!ReplaceOrder(d, x.buy, x.price, z.price, x.qty, z.qty)
  BY <1>1, <1>2, <1>7 DEF Heard, OnReplace
<1>16. n.ignore = d.ignore
  BY <1>4, <1>15, ReplaceIgnores
<1>17. e.qty \in Nat
  BY <1>4, <1>8, <1>10, <1>5, EntryIsOrder
<1>18. CASE z.price = x.price
  <2>1. n = D!ChangeQtyOrder(d, x.buy, x.price, z.qty - x.qty)
    BY <1>15, <1>18 DEF D!ReplaceOrder
  <2>2. z.qty - x.qty = size - e.qty
    BY <1>7, <1>9, <1>11, <1>13, <1>14
  <2>3. n = T!ChangeQtyOrder(d, e.buy, e.price, size - e.qty)
    BY <1>11, <2>1, <2>2, SameCalls
  <2>4. T!AllQty(Plain(order)) - e.qty + size < Word
    <3>1. Word \in Nat
      BY ClientAssumption
    <3> QED
      BY <1>4, <1>13, <1>14, <1>17, <3>1
  <2>5. f = [e EXCEPT !.qty = size]
    BY <1>11, <1>13, <1>14, <1>18
  <2>6. T!Kept(T!With(Plain(order), o, f), n)
    BY <1>4, <1>10, <1>11, <1>13, <1>14, <2>3, <2>4, <2>5, ClientAssumption, T!ResizeFollows
  <2>7. T!Kept(Plain(y), n)
    BY <1>4, <1>12, <2>6
  <2> QED
    BY <1>4, <1>16, <2>7, PlainFollowed
<1>19. CASE z.price # x.price
  <2>1. x.filled = 0
    BY <1>6, <1>7, <1>9, <1>19
  <2>2. e.qty = x.qty /\ size = z.qty
    <3>1. z.filled = 0 /\ z.qty \in Int
      BY <1>7, <1>9, <2>1
    <3> QED
      BY <1>9, <1>11, <1>13, <1>14, <2>1, <3>1
  <2>3. n = T!ReplaceOrder(d, e.buy, e.price, z.price, e.qty, size)
    BY <1>11, <1>15, <2>2, SameCalls
  <2>4. T!AllQty(Plain(order)) + size < Word
    BY <1>4, <1>13, <1>14
  <2>5. f = [e EXCEPT !.price = z.price, !.qty = size]
    <3>1. PICK b, p, g, k : b = x.buy /\ p = x.price /\ g = e.qty /\ k = z.price
      OBVIOUS
    <3>2. e = [buy |-> b, price |-> p, qty |-> g] /\ f = [buy |-> b, price |-> k, qty |-> size]
      BY <1>11, <1>13, <1>14, <3>1
    <3>3. f = [e EXCEPT !.price = k, !.qty = size]
      <4>1. PICK e1 : e1 = [e EXCEPT !.price = k]
        OBVIOUS
      <4>2. e1 = [buy |-> b, price |-> k, qty |-> g]
        BY ONLY <3>2, <4>1
      <4>3. f = [e1 EXCEPT !.qty = size]
        BY ONLY <3>2, <4>2
      <4>4. [e EXCEPT !.price = k, !.qty = size] = [[e EXCEPT !.price = k] EXCEPT !.qty = size]
        OBVIOUS
      <4> QED
        BY ONLY <4>1, <4>3, <4>4
    <3> QED
      BY <3>1, <3>3
  <2>6. z.price # e.price
    BY <1>11, <1>19
  <2>7. T!Kept(T!With(Plain(order), o, f), n)
    <3>1. PICK mm : mm = Plain(order)
      OBVIOUS
    <3>2. PICK k : k = z.price
      OBVIOUS
    <3>3. /\ T!Kept(mm, d) /\ mm[o] = e /\ o \in Order /\ e # T!NoOrder
          /\ k \in Nat \ {0} /\ k # e.price /\ size \in T!Amounts /\ T!AllQty(mm) + size < Word
          /\ n = T!ReplaceOrder(d, e.buy, e.price, k, e.qty, size)
      BY <1>4, <1>10, <1>11, <1>13, <1>14, <2>3, <2>4, <2>6, <3>1, <3>2
    <3>4. T!With(mm, o, f) = T!With(mm, o, [e EXCEPT !.price = k, !.qty = size])
      BY <2>5, <3>2
    <3>5. T!Kept(T!With(mm, o, [e EXCEPT !.price = k, !.qty = size]), n)
      BY ONLY <3>3, ClientAssumption, T!MoveFollows
    <3> QED
      BY <3>1, <3>4, <3>5
  <2>8. T!Kept(Plain(y), n)
    BY <1>4, <1>12, <2>7
  <2> QED
    BY <1>4, <1>16, <2>8, PlainFollowed
<1> QED
  BY <1>18, <1>19

(* What is to be ignored is set; the levels stay. *)
LEMMA IgnoreFollows ==
  ASSUME NEW kept, NEW d, T!Kept(kept, d), NEW b \in BOOLEAN, NEW v \in T!Quantity,
         NEW n, n = [d EXCEPT !.ignore[b] = v]
  PROVE  T!Kept(kept, n) /\ \A a \in BOOLEAN : n.ignore[a] = IF a = b THEN v ELSE d.ignore[a]
<1>1. PICK I : I = [d.ignore EXCEPT ![b] = v]
  OBVIOUS
<1>2. d \in T!DepthObject /\ d.ignore \in [BOOLEAN -> T!Quantity]
  BY KeptObject
<1>3. I \in [BOOLEAN -> T!Quantity] /\ n = [d EXCEPT !.ignore = I]
  BY <1>1, <1>2 DEF T!DepthObject
<1>4. T!Structure(d) /\ T!Numbered(d)
  BY DEF T!Kept
<1>5. T!Structure(n) /\ T!Numbered(n)
  BY <1>3, <1>4, ClientAssumption, T!IgnoreUpdate
<1>6. /\ n.level = d.level /\ n.excess = d.excess /\ n.failed = d.failed /\ n.ignore = I
  BY <1>2, <1>3 DEF T!DepthObject
<1>7. T!Kept(kept, n)
  BY <1>5, <1>6, ClientAssumption, T!SameLevelsFollow
<1> QED
  BY <1>1, <1>2, <1>6, <1>7

(* A market order is passed over; an order that is filled by what is due   *)
(* next is not added, and its fills are to be ignored; any other is added. *)
LEMMA AcceptFollows ==
  ASSUME NEW y, NEW q, NEW d, Hears(y, q, d), Head(q).type = "accept",
         NEW n, n = Heard(d, Head(q))
  PROVE  Followed(y, q, n)
<1>1. PICK c, o : c = Head(q) /\ o = c.order
  OBVIOUS
<1>2. PICK x : x = order[o]
  OBVIOUS
<1>3. PICK z : z = y[o]
  OBVIOUS
<1>4. /\ c \in Callback /\ o \in Order /\ x \in SimpleOrder /\ z \in SimpleOrder
      /\ Concerns(c, o) /\ Timely(x, c, o) /\ z = Told(x, c, o)
      /\ z.state = "accepted" => z.filled <= z.qty
      /\ x.qty \in D!Quantity /\ z.qty \in D!Quantity
      /\ Plain(y) = T!With(Plain(order), o, Entry(z)) /\ Plain(order)[o] = Entry(x)
      /\ T!Kept(Plain(order), d) /\ HasIgnore(d) /\ \A b \in BOOLEAN : d.ignore[b] = 0
      /\ T!AllQty(Plain(order)) + Left(z) < Word
  BY <1>1, <1>2, <1>3, OneHears
<1>5. /\ z.state = "accepted" /\ z.qty = x.qty /\ z.filled = x.filled /\ z.price = x.price
      /\ z.buy = x.buy
  BY <1>1, <1>4, ToldAccept, ToldBuy
<1>6. /\ x.state = "new" /\ x.filled = 0 /\ x.qty > 0
      /\ c.qty = x.qty => Streak(q, 1, o)
  <2>1. 1 \in DOMAIN q /\ q[1] = c /\ c.type = "accept"
    BY <1>1 DEF Hears
  <2> QED
    BY <1>1, <1>2, <2>1 DEF Hears, InOrder, AcceptedFirst
<1>7. Plain(order)[o] = T!NoOrder
  BY <1>4, <1>6 DEF Entry, IsLive
<1>8. n = OnAccept(d, o, c.qty)
  BY <1>1 DEF Heard
<1>9. x.buy \in BOOLEAN /\ x.price \in Nat /\ x.qty \in Int
  BY <1>4 DEF SimpleOrder, Side, Price
<1>10. x.qty \in 1..(Word - 1) /\ x.qty \in T!Quantity
  <2>1. x.qty \in 0..(Word - 1) /\ x.qty \in T!Quantity
    BY <1>4, AmountsAreWords
  <2> QED
    BY <1>6, <2>1, ClientAssumption
<1>11. CASE x.price = MARKET_ORDER_PRICE
  <2>1. n = d
    BY <1>2, <1>8, <1>11 DEF OnAccept, IsLimit
  <2>2. Entry(z) = T!NoOrder
    BY <1>5, <1>11 DEF Entry, IsLive
  <2>3. Plain(y) = Plain(order)
    BY <1>4, <1>7, <2>2 DEF T!With, Plain
  <2> QED
    BY <1>4, <2>1, <2>3, PlainFollowed
<1>12. CASE x.price # MARKET_ORDER_PRICE /\ c.qty = x.qty
  <2>1. n = D!IgnoreFillQty(d, x.buy, c.qty)
    BY <1>2, <1>8, <1>12 DEF OnAccept, IsLimit
  <2>2. n = [d EXCEPT !.ignore[x.buy] = x.qty]
    BY <1>4, <1>9, <1>12, <2>1 DEF D!IgnoreFillQty
  <2>3. /\ T!Kept(Plain(order), n)
        /\ \A b \in BOOLEAN : n.ignore[b] = IF b = x.buy THEN x.qty ELSE d.ignore[b]
    BY <1>4, <1>9, <1>10, <2>2, IgnoreFollows
  <2>9. T!Kept(Plain(order), n)
    BY <2>3
  <2>10. \A b \in BOOLEAN : n.ignore[b] = IF b = x.buy THEN x.qty ELSE 0
    BY <1>4, <2>3
  <2>11. PICK r : r = Tail(q)
    OBVIOUS
  <2>12. r \in Seq(Callback) /\ Streak(r, 0, o)
    <3>1. q \in Seq(Callback) /\ q # <<>> /\ Streak(q, 1, o) /\ 1 \in Nat \ {0} /\ 1 - 1 = 0
      BY <1>6, <1>12 DEF Hears
    <3>2. r \in Seq(Callback)
      BY <2>11, <3>1
    <3>3. Streak(r, 1 - 1, o)
      BY <2>11, <3>1, StreakDelivered
    <3> QED
      BY <3>1, <3>2, <3>3
  <2>13. r # <<>> /\ Head(r).order = o
    BY <2>12, StreakAtHead
  <2>14. IsLive(z) /\ Left(z) = x.qty
    BY <1>5, <1>6, <1>9, <1>12 DEF IsLive, Left
  <2>15. Ignoring(y, n, r)
    <3>1. ASSUME NEW b \in Side, n.ignore[b] # 0
          PROVE  /\ y[o].buy = b /\ IsLive(y[o]) /\ n.ignore[b] = Left(y[o]) /\ Streak(r, 0, o)
      <4>1. b = x.buy /\ n.ignore[b] = x.qty
        BY <2>10, <3>1 DEF Side
      <4> QED
        BY <1>3, <1>5, <2>12, <2>14, <4>1
    <3> QED
      BY <1>4, <3>1 DEF Ignoring
  <2>16. Entries(y, n, r) = Plain(order)
    <3>1. ASSUME NEW p \in Order
          PROVE  (IF Skips(y, n, r, p) THEN T!NoOrder ELSE Entry(y[p])) = Entry(order[p])
      <4>1. CASE p = o
        <5>1. Skips(y, n, r, p)
          BY <1>3, <1>5, <1>6, <1>9, <2>10, <2>13, <4>1 DEF Skips
        <5>2. Entry(order[p]) = T!NoOrder
          BY <1>2, <1>6, <4>1 DEF Entry, IsLive
        <5> QED
          BY <5>1, <5>2
      <4>2. CASE p # o
        <5>1. ~Skips(y, n, r, p)
          BY <2>13, <4>2 DEF Skips
        <5>2. y[p] = order[p]
          <6>1. ~Concerns(Head(q), p)
            BY <1>1, <4>2 DEF Concerns
          <6> QED
            BY <6>1, ToldNothing DEF Hears
        <5> QED
          BY <5>1, <5>2
      <4> QED
        BY <4>1, <4>2
    <3> QED
      BY <3>1 DEF Entries, Plain
  <2> QED
    BY <2>9, <2>11, <2>15, <2>16, WithinStill DEF Followed
<1>13. CASE x.price # MARKET_ORDER_PRICE /\ c.qty # x.qty
  <2>1. n = D!AddOrder(d, x.buy, x.price, x.qty)
    BY <1>2, <1>8, <1>13 DEF OnAccept, IsLimit
  <2>2. n = T!AddOrder(d, x.buy, x.price, x.qty)
    BY <2>1, SameCalls
  <2>3. IsLive(z) /\ Left(z) = x.qty
    BY <1>5, <1>6, <1>9, <1>13 DEF IsLive, Left
  <2>4. Entry(z) = [buy |-> x.buy, price |-> x.price, qty |-> x.qty]
    BY <1>5, <2>3 DEF Entry
  <2>5. PICK b, p, k, mm : b = x.buy /\ p = x.price /\ k = x.qty /\ mm = Plain(order)
    OBVIOUS
  <2>6. /\ b \in BOOLEAN /\ p \in Nat \ {0} /\ k \in 1..(Word - 1) /\ T!Kept(mm, d)
        /\ o \in Order /\ mm[o] = T!NoOrder /\ T!AllQty(mm) + k < Word
        /\ n = T!AddOrder(d, b, p, k)
    BY <1>4, <1>7, <1>9, <1>10, <1>13, <2>2, <2>3, <2>5 DEF MARKET_ORDER_PRICE
  <2>7. T!Kept(T!With(mm, o, [buy |-> b, price |-> p, qty |-> k]), n)
    BY ONLY <2>6, ClientAssumption, T!AddFollows
  <2>8. T!Kept(Plain(y), n)
    BY <1>4, <2>4, <2>5, <2>7
  <2>9. n.ignore = d.ignore
    BY <1>4, <2>1, AddIgnores
  <2> QED
    BY <1>4, <2>8, <2>9, PlainFollowed
<1> QED
  BY <1>11, <1>12, <1>13

(* The other callbacks leave the levels and the objects alone. *)
LEMMA QuietFollows ==
  ASSUME NEW y, NEW q, NEW d, Hears(y, q, d),
         Head(q).type \notin {"accept", "fill", "cancel", "replace"},
         NEW n, n = Heard(d, Head(q))
  PROVE  Followed(y, q, n)
<1>1. PICK c : c = Head(q)
  OBVIOUS
<1>2. /\ \A b \in BOOLEAN : d.ignore[b] = 0
      /\ T!Kept(Plain(order), d)
  BY OnlyFillsIgnored
<1>3. y = order
  <2>1. ASSUME NEW o \in Order PROVE y[o] = order[o]
    <3>1. y[o] = Told(order[o], c, o)
      BY <1>1 DEF Hears
    <3>2. CASE Concerns(c, o)
      <4>1. c.type = "reject"
        BY <1>1, <3>2 DEF Concerns
      <4> QED
        BY <3>1, <4>1, ToldReject
    <3>3. CASE ~Concerns(c, o)
      BY <3>1, <3>3, ToldNothing
    <3> QED
      BY <3>2, <3>3
  <2> QED
    BY <2>1 DEF Hears
<1>4. n = d \/ n = D!Published(d)
  BY <1>1 DEF Heard
<1>5. T!Kept(Plain(order), n) /\ \A b \in BOOLEAN : n.ignore[b] = 0
  <2>1. CASE n = d
    BY <1>2, <2>1
  <2>2. CASE n = D!Published(d)
    <3>1. d \in T!DepthObject
      BY <1>2, KeptObject
    <3>2. n = T!Published(d)
      BY <2>2, SameCalls
    <3>3. /\ n.level = d.level /\ n.excess = d.excess /\ n.failed = d.failed /\ n.ignore = d.ignore
      BY <3>1, <3>2 DEF T!Published, T!DepthObject
    <3>4. T!Structure(n) /\ T!Numbered(n)
      BY <1>2, <3>2, ClientAssumption, T!PublishedKeeps DEF T!Kept
    <3> QED
      BY <1>2, <3>3, <3>4, ClientAssumption, T!SameLevelsFollow
  <2> QED
    BY <1>4, <2>1, <2>2
<1> QED
  BY <1>3, <1>5, PlainFollowed

LEMMA StreakGoesOn ==
  ASSUME NEW q \in Seq(Callback), q # <<>>, NEW o, Streak(q, 0, o), o \notin Head(q).done
  PROVE  Streak(Tail(q), 0, o)
<1>1. PICK j \in DOMAIN q : /\ j > 0 /\ o \in q[j].done
                            /\ \A i \in (0 + 1)..j : q[i].type = "fill" /\ q[i].order = o
  BY DEF Streak
<1>2. j > 1 /\ j \in Nat
  <2>1. Head(q) = q[1] /\ j \in 1..Len(q)
    BY <1>1
  <2> QED
    BY <1>1, <2>1
<1>3. Streak(q, 1, o)
  <2>1. \A i \in (1 + 1)..j : i \in (0 + 1)..j
    BY <1>2
  <2> QED
    BY <1>1, <1>2, <2>1 DEF Streak
<1>4. Streak(Tail(q), 1 - 1, o)
  BY <1>3, StreakDelivered
<1> QED
  BY <1>4

(* What the fill at the head says of one of its two orders. *)
LEMMA FillTells ==
  ASSUME NEW y, NEW q, NEW d, Hears(y, q, d), NEW c, c = Head(q), c.type = "fill",
         NEW r \in {c.order, c.matched}
  PROVE  /\ c \in Callback /\ r \in Order /\ order[r] \in SimpleOrder
         /\ order[r].state = "accepted" /\ order[r].qty \in D!Quantity
         /\ order[r].filled + c.qty <= order[r].qty
         /\ r \in c.done <=> order[r].filled + c.qty = order[r].qty
         /\ y[r] = Filled(order[r], c.qty)
<1>1. c \in Callback
  BY DEF Hears
<1>2. r \in Order
  BY <1>1 DEF Callback
<1>3. order[r] \in SimpleOrder /\ Timely(order[r], c, r) /\ y[r] = Told(order[r], c, r)
  BY <1>2 DEF Hears
<1>4. Concerns(c, r)
  BY DEF Concerns
<1>5. y[r] = Filled(order[r], c.qty)
  BY <1>1, <1>3, ToldFill
<1> QED
  BY <1>1, <1>2, <1>3, <1>4, <1>5 DEF Timely, Hears, Fitted

(* A fill takes from both orders; what one of them takes is ignored while  *)
(* the fills follow of an order that was filled when it was accepted.      *)
LEMMA FillFollows ==
  ASSUME NEW y, NEW q, NEW d, Hears(y, q, d), Head(q).type = "fill",
         NEW n, n = Heard(d, Head(q))
  PROVE  Followed(y, q, n)
<1>1. PICK c, o, p : c = Head(q) /\ o = c.order /\ p = c.matched
  OBVIOUS
<1>2. PICK x, w : x = order[o] /\ w = order[p]
  OBVIOUS
<1>3. /\ c \in Callback /\ o \in Order /\ x \in SimpleOrder
      /\ x.state = "accepted" /\ x.qty \in D!Quantity
      /\ x.filled + c.qty <= x.qty
      /\ o \in c.done <=> x.filled + c.qty = x.qty
      /\ y[o] = Filled(x, c.qty)
  BY <1>1, <1>2, FillTells
<1>4. /\ p \in Order /\ w \in SimpleOrder
      /\ w.state = "accepted" /\ w.qty \in D!Quantity
      /\ w.filled + c.qty <= w.qty
      /\ p \in c.done <=> w.filled + c.qty = w.qty
      /\ y[p] = Filled(w, c.qty)
  BY <1>1, <1>2, FillTells
<1>5. x.buy # w.buy /\ x.buy \in BOOLEAN /\ w.buy \in BOOLEAN /\ o # p
  <2>1. 1 \in DOMAIN q /\ q[1] = c /\ c.type = "fill"
    BY <1>1 DEF Hears
  <2>2. x.buy # w.buy
    BY <1>1, <1>2, <2>1 DEF Hears, InOrder, Paired
  <2> QED
    BY <1>2, <1>3, <1>4, <2>2 DEF SimpleOrder, Side
<1>6. \A k \in Order \ {o, p} : y[k] = order[k]
  <2>1. \A k \in Order \ {o, p} : ~Concerns(c, k)
    BY <1>1 DEF Concerns
  <2> QED
    BY <1>1, <2>1, ToldNothing DEF Hears
<1>7. PICK kept : kept = Entries(order, d, q)
  OBVIOUS
<1>8. T!Kept(kept, d) /\ kept \in [Order -> T!ClientOrder]
  BY <1>7, KeptObject DEF Hears
<1>9. ASSUME NEW b \in BOOLEAN, d.ignore[b] # 0
      PROVE  b = x.buy /\ IsLive(x) /\ d.ignore[b] = Left(x) /\ Streak(q, 0, o)
  <2>1. PICK k \in Order : /\ order[k].buy = b /\ IsLive(order[k]) /\ d.ignore[b] = Left(order[k])
                           /\ Streak(q, 0, k)
    BY <1>9 DEF Hears, Ignoring, Side
  <2>2. k = o
    BY <1>1, <2>1, StreakAtHead DEF Hears
  <2> QED
    BY <1>2, <2>1, <2>2
<1>10. d.ignore[w.buy] = 0
  BY <1>5, <1>9
<1>11. kept[p] = Entry(w)
  BY <1>2, <1>4, <1>7, <1>10 DEF Entries, Skips
<1>12. PICK n1 : n1 = FillPart(d, p, c)
  OBVIOUS
<1>13. n = FillPart(n1, o, c)
  BY <1>1, <1>12 DEF Heard, OnFill
<1>14. PICK m1 : m1 = T!With(kept, p, Entry(y[p]))
  OBVIOUS
<1>15. T!Kept(m1, n1) /\ n1.ignore = d.ignore
  <2>1. order \in [Order -> SimpleOrder]
    BY DEF Hears
  <2> QED
    BY <1>2, <1>3, <1>4, <1>8, <1>10, <1>11, <1>12, <1>14, <2>1, FillPartFollows
<1>16. /\ m1 \in [Order -> T!ClientOrder]
       /\ \A k \in Order : m1[k] = IF k = p THEN Entry(y[p]) ELSE kept[k]
  BY <1>4, <1>8, <1>14, <1>15, KeptObject DEF T!With
<1>17. \A k \in Order \ {o, p} : m1[k] = Entry(y[k])
  <2>1. ASSUME NEW k \in Order \ {o, p} PROVE m1[k] = Entry(y[k])
    <3>1. ~Skips(order, d, q, k)
      BY <1>1, <2>1 DEF Skips
    <3>2. kept[k] = Entry(order[k])
      BY <1>7, <2>1, <3>1 DEF Entries
    <3> QED
      BY <1>6, <1>16, <2>1, <3>2
  <2> QED
    BY <2>1
<1>18. CASE d.ignore[x.buy] = 0
  <2>1. \A b \in BOOLEAN : d.ignore[b] = 0
    BY <1>9, <1>18
  <2>2. m1[o] = Entry(x)
    <3>1. kept[o] = Entry(x)
      BY <1>2, <1>3, <1>7, <1>18 DEF Entries, Skips
    <3> QED
      BY <1>3, <1>5, <1>16, <3>1
  <2>3. T!Kept(T!With(m1, o, Entry(y[o])), n) /\ n.ignore = d.ignore
    <3>1. order \in [Order -> SimpleOrder]
      BY DEF Hears
    <3>2. n1.ignore[x.buy] = 0
      BY <1>15, <1>18
    <3> QED
      BY <1>2, <1>3, <1>13, <1>15, <2>2, <3>1, <3>2, FillPartFollows
  <2>4. Plain(y) = T!With(m1, o, Entry(y[o]))
    BY <1>3, <1>16, <1>17 DEF Plain, T!With
  <2> QED
    BY <2>1, <2>3, <2>4, PlainFollowed
<1>19. CASE d.ignore[x.buy] # 0
  <2>1. IsLive(x) /\ d.ignore[x.buy] = Left(x) /\ Streak(q, 0, o)
    BY <1>5, <1>9, <1>19
  <2>2. x.filled \in Nat /\ c.qty \in Nat /\ x.qty \in Int /\ Left(x) = x.qty - x.filled
    BY <1>3, <2>1 DEF Callback, SimpleOrder, Quantity, Left
  <2>3. PICK v : v = Left(x) - c.qty
    OBVIOUS
  <2>4. v \in T!Quantity /\ v \in 0..(Word - 1) /\ v % Word = v
    <3>1. x.qty \in 0..(Word - 1) /\ T!Quantity = 0..(Word - 1) /\ Word \in Nat \ {0}
      BY <1>3, AmountsAreWords, ClientAssumption
    <3>2. PICK W : W = Word
      OBVIOUS
    <3>3. v \in 0..(W - 1) /\ W \in Nat \ {0}
      BY <1>3, <2>2, <2>3, <3>1, <3>2
    <3>4. v % W = v
      BY ONLY <3>3
    <3> QED
      BY <3>1, <3>2, <3>3, <3>4
  <2>5. n = [n1 EXCEPT !.ignore[x.buy] = v]
    <3>1. IsLimit(o)
      BY <1>2, <2>1 DEF IsLimit, IsLive
    <3>2. n = D!FillOrder(n1, x.buy, x.price, c.qty, o \in c.done)
      BY <1>2, <1>13, <3>1 DEF FillPart
    <3>3. n1 \in T!DepthObject /\ n1.ignore[x.buy] = Left(x)
      BY <1>15, <2>1, KeptObject
    <3>4. n = [n1 EXCEPT !.ignore[x.buy] = (n1.ignore[x.buy] - c.qty) % Word]
      BY <1>5, <1>15, <1>19, <3>2, <3>3 DEF D!FillOrder, T!DepthObject
    <3> QED
      BY <2>3, <2>4, <3>3, <3>4
  <2>6. T!Kept(m1, n) /\ \A b \in BOOLEAN : n.ignore[b] = IF b = x.buy THEN v ELSE 0
    <3>1. /\ T!Kept(m1, n)
          /\ \A b \in BOOLEAN : n.ignore[b] = IF b = x.buy THEN v ELSE n1.ignore[b]
      BY <1>5, <1>15, <2>4, <2>5, IgnoreFollows
    <3> QED
      BY <1>9, <1>15, <3>1
  <2>7. m1[o] = T!NoOrder
    <3>1. Skips(order, d, q, o)
      BY <1>1, <1>2, <1>19 DEF Skips
    <3>2. kept[o] = T!NoOrder
      BY <1>3, <1>7, <3>1 DEF Entries
    <3> QED
      BY <1>3, <1>5, <1>16, <3>2
  <2>8. /\ y[o].state = IF x.filled + c.qty >= x.qty THEN "complete" ELSE "accepted"
        /\ y[o].buy = x.buy /\ y[o].price = x.price /\ y[o].qty = x.qty
        /\ y[o].filled = x.filled + c.qty
    BY <1>3, <2>2 DEF Filled, SimpleOrder
  <2>9. CASE v = 0
    <3>1. y[o].state = "complete"
      BY <2>2, <2>3, <2>8, <2>9
    <3>2. Entry(y[o]) = T!NoOrder
      BY <3>1 DEF Entry, IsLive
    <3>3. \A k \in Order : m1[k] = Entry(y[k])
      BY <1>16, <1>17, <2>7, <3>2
    <3>4. Plain(y) = m1
      BY <1>16, <3>3 DEF Plain
    <3> QED
      BY <2>6, <2>9, <3>4, PlainFollowed
  <2>10. CASE v # 0
    <3>1. o \notin c.done /\ y[o].state = "accepted"
      BY <1>3, <2>2, <2>3, <2>8, <2>10
    <3>2. IsLive(y[o]) /\ Left(y[o]) = v
      <4>1. IsLive(y[o])
        BY <2>1, <2>8, <3>1 DEF IsLive
      <4>2. y[o].qty - y[o].filled = v
        BY <2>2, <2>3, <2>8
      <4> QED
        BY <4>1, <4>2 DEF Left
    <3>3. PICK r : r = Tail(q)
      OBVIOUS
    <3>4. r \in Seq(Callback) /\ Streak(r, 0, o)
      BY <1>1, <2>1, <3>1, <3>3, StreakGoesOn DEF Hears
    <3>5. r # <<>> /\ Head(r).order = o
      BY <3>4, StreakAtHead
    <3>6. Ignoring(y, n, r)
      <4>1. ASSUME NEW b \in Side, n.ignore[b] # 0
            PROVE  /\ y[o].buy = b /\ IsLive(y[o]) /\ n.ignore[b] = Left(y[o]) /\ Streak(r, 0, o)
        <5>1. b = x.buy /\ n.ignore[b] = v
          BY <2>6, <4>1 DEF Side
        <5> QED
          BY <2>8, <3>2, <3>4, <5>1
      <4> QED
        BY <1>3, <4>1 DEF Ignoring
    <3>7. \A k \in Order : m1[k] = IF Skips(y, n, r, k) THEN T!NoOrder ELSE Entry(y[k])
      <4>1. Skips(y, n, r, o)
        BY <1>5, <2>6, <2>8, <2>10, <3>5 DEF Skips
      <4>2. \A k \in Order : k # o => ~Skips(y, n, r, k)
        BY <3>5 DEF Skips
      <4> QED
        BY <1>16, <1>17, <2>7, <4>1, <4>2
    <3>8. Entries(y, n, r) = m1
      BY <1>16, <3>7 DEF Entries
    <3> QED
      BY <2>6, <3>3, <3>6, <3>8, WithinStill DEF Followed
  <2> QED
    BY <2>9, <2>10
<1> QED
  BY <1>18, <1>19

LEMMA HeardFollows ==
  ASSUME NEW y, NEW q, NEW d, Hears(y, q, d), ~Misleads(Head(q)),
         NEW n, n = Heard(d, Head(q))
  PROVE  Followed(y, q, n)
BY AcceptFollows, FillFollows, CancelFollows, ReplaceFollows, QuietFollows

-----------------------------------------------------------------------------
(* Steps that deliver nothing *)

(* What is due stays due, except that an acceptance may be noted anew. *)
Grown(q, r) ==
  /\ r \in Seq(Callback) /\ Len(q) <= Len(r)
  /\ \A i \in 1..Len(q) : q[i].type = "fill" => r[i] = q[i]

LEMMA GrownOn ==
  ASSUME NEW q \in Seq(Callback), NEW r, Grown(q, r), NEW s \in Seq(Callback)
  PROVE  Grown(q, r \o s)
<1>1. PICK t : t = r \o s
  OBVIOUS
<1>2. r \in Seq(Callback) /\ Len(q) <= Len(r) /\ Len(q) \in Nat /\ Len(r) \in Nat
  BY DEF Grown
<1>3. /\ t \in Seq(Callback) /\ Len(t) = Len(r) + Len(s) /\ Len(s) \in Nat
      /\ \A i \in 1..Len(r) : t[i] = r[i]
  BY <1>1, <1>2, JoinedQueues
<1>4. Len(q) <= Len(t) /\ \A i \in 1..Len(q) : i \in 1..Len(r)
  BY <1>2, <1>3
<1> QED
  BY <1>1, <1>3, <1>4 DEF Grown

LEMMA GrownBehind ==
  ASSUME NEW w \in Seq(Callback), NEW q \in Seq(Callback), NEW r, Grown(q, r)
  PROVE  Grown(w \o q, w \o r)
<1>1. PICK u, v : u = w \o q /\ v = w \o r
  OBVIOUS
<1>2. r \in Seq(Callback) /\ Len(q) <= Len(r) /\ Len(q) \in Nat /\ Len(r) \in Nat
  BY DEF Grown
<1>3. /\ Len(u) = Len(w) + Len(q) /\ Len(w) \in Nat
      /\ \A i \in 1..Len(w) : u[i] = w[i]
      /\ \A i \in 1..Len(q) : u[Len(w) + i] = q[i]
  BY <1>1, JoinedQueues
<1>4. /\ v \in Seq(Callback) /\ Len(v) = Len(w) + Len(r)
      /\ \A i \in 1..Len(w) : v[i] = w[i]
      /\ \A i \in 1..Len(r) : v[Len(w) + i] = r[i]
  BY <1>1, <1>2, JoinedQueues
<1>5. ASSUME NEW i \in 1..Len(u), u[i].type = "fill"
      PROVE  v[i] = u[i]
  <2>1. CASE i <= Len(w)
    BY <1>3, <1>4, <2>1
  <2>2. CASE i > Len(w)
    <3>1. PICK k \in 1..Len(q) : i = Len(w) + k
      <4>1. i - Len(w) \in 1..Len(q) /\ i = Len(w) + (i - Len(w))
        BY <1>2, <1>3, <2>2
      <4> QED
        BY <4>1
    <3>2. u[i] = q[k] /\ k \in 1..Len(r)
      BY <1>2, <1>3, <3>1
    <3>3. r[k] = q[k]
      BY <1>5, <3>2 DEF Grown
    <3> QED
      BY <1>4, <3>1, <3>2, <3>3
  <2> QED
    BY <1>3, <2>1, <2>2
<1> QED
  BY <1>1, <1>2, <1>3, <1>4, <1>5 DEF Grown

LEMMA StreakGrows ==
  ASSUME NEW q \in Seq(Callback), NEW r, Grown(q, r), NEW o, Streak(q, 0, o)
  PROVE  Streak(r, 0, o) /\ Head(r) = Head(q)
<1>1. PICK j \in DOMAIN q : /\ j > 0 /\ o \in q[j].done
                            /\ \A i \in (0 + 1)..j : q[i].type = "fill" /\ q[i].order = o
  BY DEF Streak
<1>2. /\ DOMAIN q = 1..Len(q) /\ Len(q) \in Nat /\ r \in Seq(Callback)
      /\ Len(r) \in Nat /\ DOMAIN r = 1..Len(r) /\ Len(q) <= Len(r)
  BY DEF Grown
<1>3. \A i \in (0 + 1)..j : i \in 1..Len(q) /\ r[i] = q[i]
  BY <1>1, <1>2 DEF Grown
<1>4. Streak(r, 0, o)
  <2>1. j \in DOMAIN r /\ j \in (0 + 1)..j
    BY <1>1, <1>2
  <2> QED
    BY <1>1, <1>3, <2>1 DEF Streak
<1>5. 1 \in (0 + 1)..j /\ Head(q) = q[1] /\ Head(r) = r[1]
  BY <1>1, <1>2
<1> QED
  BY <1>3, <1>4, <1>5

LEMMA GrownSame ==
  ASSUME NEW q \in Seq(Callback) PROVE Grown(q, q)
BY DEF Grown

(* callback_now() pushes behind what is due. *)
LEMMA OutsideGrows ==
  ASSUME IInv, Handed, pending = <<>>, submitting = <<>>,
         NEW s \in Seq(Callback), s # <<>>, CallbackNow(s), UNCHANGED <<pending, submitting>>
  PROVE  Grown(Due, Due')
<1>1. Due \in Seq(Callback) /\ Due' = Due \o s
  BY DueType, DueAfterCallbackNow
<1>2. PICK d, e : d = Due /\ e = Due'
  OBVIOUS
<1>3. Grown(d, d \o s)
  BY <1>1, <1>2, GrownSame, GrownOn
<1> QED
  BY <1>1, <1>2, <1>3

(* So does everything else, where the outermost call does not deliver yet. *)
LEMMA PushedGrows ==
  ASSUME IInv, working' = working, NEW r, callbacks' = r, Grown(callbacks, r)
  PROVE  Grown(Due, Due')
<1>1. PICK w, q : w = working /\ q = callbacks
  OBVIOUS
<1>2. w \in Seq(Callback) /\ q \in Seq(Callback)
  BY <1>1, DueType
<1>3. Grown(w \o q, w \o r)
  BY <1>1, <1>2, GrownBehind
<1> QED
  BY <1>1, <1>3 DEF Due

LEMMA OneMoreGrows ==
  ASSUME IInv, working' = working, NEW c \in Callback, callbacks' = Append(callbacks, c)
  PROVE  Grown(Due, Due')
<1>1. callbacks \in Seq(Callback) /\ <<c>> \in Seq(Callback)
  BY DueType
<1>2. PICK q, s : q = callbacks /\ s = <<c>>
  OBVIOUS
<1>3. Grown(q, q \o s)
  BY <1>1, <1>2, GrownSame, GrownOn
<1>4. q \o s = Append(q, c)
  BY <1>1, <1>2
<1> QED
  BY <1>2, <1>3, <1>4, PushedGrows

LEMMA SilentGrows ==
  ASSUME IInv, UNCHANGED <<working, callbacks>>
  PROVE  Grown(Due, Due')
<1>1. Due \in Seq(Callback) /\ Due' = Due
  BY DueType DEF Due
<1> QED
  BY <1>1, GrownSame

LEMMA MatchGrows ==
  ASSUME IInv, AInv, MatchStep
  PROVE  Grown(Due, Due')
<1>1. /\ Matching /\ UNCHANGED working
      /\ \/ UNCHANGED callbacks
         \/ \E cur \in Order, q \in Int : Exchanges(cur, q)
  BY MatchTrades
<1>2. ASSUME NEW cur \in Order, NEW q \in Int, Exchanges(cur, q)
      PROVE  Grown(Due, Due')
  <2>1. PICK always \in BOOLEAN : MaybeTrade(cur, q, always)
    BY <1>2 DEF Exchanges
  <2>2. order[cur].buy = Opposite(m.taker) /\ q > 0
    BY <1>2 DEF Exchanges
  <2>3. /\ CrossPrice(cur) \in Price /\ m.taker \in Order
        /\ callbacks' = Append(callbacks, FillCb(m.taker, cur, q, CrossPrice(cur)))
    BY <1>1, <2>1, <2>2, TradeMoves
  <2>4. PICK c \in Callback : c = FillCb(m.taker, cur, q, CrossPrice(cur))
    <3>1. q \in Quantity
      BY <2>2 DEF Quantity
    <3> QED
      BY <2>3, <3>1, FillCbType
  <2> QED
    BY <1>1, <2>3, <2>4, OneMoreGrows
<1> QED
  BY <1>1, <1>2, SilentGrows

LEMMA SubmittedGrows ==
  ASSUME IInv, AInv, Submitted
  PROVE  Grown(Due, Due')
<1>1. PICK o : o = call.order
  OBVIOUS
<1>2. /\ pc = "deferred" /\ UNCHANGED working
      /\ callbacks' = IF call.kind = "add" THEN Accepted(o) \o IocCancel(o) ELSE callbacks
  BY <1>1 DEF Submitted
<1>3. CASE call.kind # "add"
  BY <1>2, <1>3, SilentGrows
<1>4. CASE call.kind = "add"
  <2>1. PICK q, a : q = callbacks /\ a = Accepted(o)
    OBVIOUS
  <2>2. /\ q \in Seq(Callback) /\ a \in Seq(Callback) /\ Len(a) = Len(q)
        /\ \A i \in 1..Len(q) : Alike(q[i], a[i])
    BY <1>1, <1>2, <1>4, <2>1, DueType, AcceptedFacts
  <2>3. Grown(q, a)
    BY <2>2 DEF Grown, Alike
  <2>4. IocCancel(o) \in Seq(Callback)
    <3>1. o \in Order
      BY <1>1 DEF IInv, TypeOK, Call
    <3>2. PICK c \in Callback : c = Cb("cancel", o)
      BY <3>1, PlainCb
    <3>3. <<c>> \in Seq(Callback) /\ <<>> \in Seq(Callback)
      OBVIOUS
    <3> QED
      BY <3>2, <3>3 DEF IocCancel
  <2>5. Grown(q, a \o IocCancel(o))
    BY <2>2, <2>3, <2>4, GrownOn
  <2> QED
    BY <1>2, <1>4, <2>1, <2>5, PushedGrows
<1> QED
  BY <1>3, <1>4

LEMMA ApplicationGrows ==
  ASSUME IInv, AInv, Application
  PROVE  Grown(Due, Due')
<1>1. ASSUME Ready
      PROVE  pending = <<>> /\ submitting = <<>> /\ Handed
  BY <1>1 DEF Ready, AInv, Handed
<1>2. ASSUME NEW o \in Order, NEW t \in Menu, Add(o, t)
      PROVE  Grown(Due, Due')
  <2>1. Ready /\ UNCHANGED <<pending, submitting>>
    BY <1>2 DEF Add, triggered
  <2>2. CASE t.qty = 0
    <3>1. PICK c \in Callback : c = Cb("reject", o)
      BY PlainCb
    <3>2. CallbackNow(<<c>>) /\ <<c>> \in Seq(Callback) /\ <<c>> # <<>>
      BY <1>2, <2>2, <3>1 DEF Add
    <3> QED
      BY <1>1, <2>1, <3>2, OutsideGrows
  <2>3. CASE t.qty # 0
    <3>1. PICK c \in Callback : c = Cb("accept", o)
      BY PlainCb
    <3>2. callbacks' = Append(callbacks, c) /\ working' = working
      BY <1>2, <2>3, <3>1 DEF Add
    <3> QED
      BY <3>2, OneMoreGrows
  <2> QED
    BY <2>2, <2>3
<1>3. ASSUME NEW o \in Order, Cancel(o)
      PROVE  Grown(Due, Due')
  <2>1. Ready /\ UNCHANGED <<pending, submitting>>
    BY <1>3 DEF Cancel, CanCall, triggered
  <2>2. 1 \in Order /\ open[o] \in Nat
    BY ContainerFacts, ConstantsAssumption DEF Order, ConstantsAssumption
  <2>3. CASE OnMarket(o)
    <3>1. PICK b \in Callback, d \in Callback : b = Cb("cancel", o) /\ d = Cb("book_update", 1)
      BY <2>2, PlainCb
    <3>2. PICK c : c = [b EXCEPT !.qty = open[o]]
      OBVIOUS
    <3>3. c \in Callback
      BY <2>2, <3>2 DEF Callback, Quantity
    <3>4. CallbackNow(<<c, d>>) /\ <<c, d>> \in Seq(Callback) /\ <<c, d>> # <<>>
      BY <1>3, <2>3, <3>1, <3>2, <3>3 DEF Cancel
    <3> QED
      BY <1>1, <2>1, <3>4, OutsideGrows
  <2>4. CASE ~OnMarket(o)
    <3>1. PICK c \in Callback : c = Cb("cancel_reject", o)
      BY PlainCb
    <3>2. CallbackNow(<<c>>) /\ <<c>> \in Seq(Callback) /\ <<c>> # <<>>
      BY <1>3, <2>4, <3>1 DEF Cancel
    <3> QED
      BY <1>1, <2>1, <3>2, OutsideGrows
  <2> QED
    BY <2>3, <2>4
<1>4. ASSUME NEW o \in Order, NEW delta \in Deltas, NEW newPrice \in NewPrices,
             Replace(o, delta, newPrice)
      PROVE  Grown(Due, Due')
  <2>1. Ready /\ UNCHANGED <<pending, submitting>>
    BY <1>4 DEF Replace, CanCall, triggered
  <2>2. CASE OnMarket(o)
    <3>1. PICK e, price : e = AllowedDelta(o, delta) /\ price = ReplacedPrice(o, newPrice)
      OBVIOUS
    <3>2. ReplaceFound(o, e, price)
      BY <1>4, <2>2, <3>1 DEF Replace
    <3>3. e \in Int /\ price \in Price
      BY <3>1, DeltaFacts, ConstantsAssumption
      DEF ReplacedPrice, ConstantsAssumption, IInv, TypeOK, SimpleOrder
    <3>4. PICK c \in Callback, d \in Callback : c = ReplaceCb(o, e, price) /\ d = Cb("cancel", o)
      BY <3>3, ReplaceCbType, PlainCb DEF IInv
    <3>5. CASE open[o] + e = 0
      <4>1. callbacks' = callbacks \o <<c, d>> /\ working' = working
        BY <3>2, <3>4, <3>5 DEF ReplaceFound
      <4>2. PICK q, s : q = callbacks /\ s = <<c, d>>
        OBVIOUS
      <4>3. q \in Seq(Callback) /\ s \in Seq(Callback)
        BY <4>2, DueType
      <4>4. Grown(q, q \o s)
        BY <4>3, GrownSame, GrownOn
      <4> QED
        BY <4>1, <4>2, <4>4, PushedGrows
    <3>6. CASE open[o] + e # 0
      <4>1. callbacks' = Append(callbacks, c) /\ working' = working
        BY <3>2, <3>4, <3>6 DEF ReplaceFound
      <4> QED
        BY <4>1, OneMoreGrows
    <3> QED
      BY <3>5, <3>6
  <2>3. CASE ~OnMarket(o)
    <3>1. PICK c \in Callback : c = Cb("replace_reject", o)
      BY PlainCb
    <3>2. CallbackNow(<<c>>) /\ <<c>> \in Seq(Callback) /\ <<c>> # <<>>
      BY <1>4, <2>3, <3>1 DEF Replace
    <3> QED
      BY <1>1, <2>1, <3>2, OutsideGrows
  <2> QED
    BY <2>2, <2>3
<1>5. ASSUME NEW price \in MarketPrices, MarketPriceSet(price)
      PROVE  Grown(Due, Due')
  BY <1>5, SilentGrows DEF MarketPriceSet, queues
<1> QED
  BY <1>2, <1>3, <1>4, <1>5 DEF Application

LEMMA DueGrows ==
  ASSUME IInv, AInv, MatchStep \/ AddOrderStep \/ PendingStep \/ Application
  PROVE  Grown(Due, Due')
<1>1. ASSUME Rest \/ (\E a \in aons : CheckDeferred(a)) \/ NestedEnds
      PROVE  Grown(Due, Due')
  BY <1>1, SilentGrows DEF Rest, CheckDeferred, NestedEnds, queues
<1>2. ASSUME TakePending \/ \E o \in Order : SubmitPending(o)
      PROVE  Grown(Due, Due')
  BY <1>2, SilentGrows DEF TakePending, SubmitPending, queues
<1>3. ASSUME Finish
      PROVE  Grown(Due, Due')
  <2>1. /\ pending = <<>> /\ submitting = <<>> /\ UNCHANGED <<pending, submitting>>
        /\ CallbackNow(<<Cb("book_update", 1)>>)
    BY <1>3 DEF Finish, triggered
  <2>2. 1 \in Order
    BY ConstantsAssumption DEF Order, ConstantsAssumption
  <2>3. PICK c \in Callback : c = Cb("book_update", 1)
    BY <2>2, PlainCb
  <2>4. CallbackNow(<<c>>) /\ <<c>> \in Seq(Callback) /\ <<c>> # <<>>
    BY <2>1, <2>3
  <2> QED
    BY <2>1, <2>4, OutsideGrows DEF AInv
<1>4. CASE AddOrderStep
  BY <1>1, <1>4, SubmittedGrows DEF AddOrderStep
<1>5. CASE PendingStep
  BY <1>2, <1>3, <1>5 DEF PendingStep
<1> QED
  BY <1>4, <1>5, MatchGrows, ApplicationGrows

-----------------------------------------------------------------------------
(* The depth keeps what the order objects have left *)

KInv == T!Kept(Entries(order, depth, Due), depth) /\ Ignoring(order, depth, Due) /\ Within(order)

(* Twice what the orders have left is less than 2^32, and will be when the *)
(* callback that is being delivered has been told: quantities are 32 bits  *)
(* wide in the levels, and a replace adds the new one before it takes the  *)
(* old one away.                                                           *)
QuantitiesFit ==
  Fitted(order) /\ (pc = "deliver" => Fitted(Notified(Head(working))))

(* Whatever else happens to the book leaves what the depth says true.      *)
LEMMA KeptStill ==
  ASSUME IInv, KInv, depth' = depth, Grown(Due, Due'),
         \A o \in Order : \/ order'[o] = order[o]
                          \/ order[o].state # "accepted" /\ order'[o].state # "accepted"
  PROVE  KInv'
<1>1. PICK x, y, q, r, d : x = order /\ y = order' /\ q = Due /\ r = Due' /\ d = depth
  OBVIOUS
<1>2. /\ q \in Seq(Callback) /\ Grown(q, r) /\ x \in [Order -> SimpleOrder]
      /\ \A o \in Order : y[o] = x[o] \/ (x[o].state # "accepted" /\ y[o].state # "accepted")
      /\ T!Kept(Entries(x, d, q), d) /\ Ignoring(x, d, q) /\ Within(x)
  BY <1>1, DueType DEF KInv, IInv, TypeOK
<1>3. Ignoring(y, d, r)
  <2> SUFFICES ASSUME NEW b \in Side, d.ignore[b] # 0
               PROVE  \E o \in Order : /\ y[o].buy = b /\ IsLive(y[o]) /\ d.ignore[b] = Left(y[o])
                                       /\ Streak(r, 0, o)
    BY DEF Ignoring
  <2>1. PICK o \in Order : /\ x[o].buy = b /\ IsLive(x[o]) /\ d.ignore[b] = Left(x[o])
                           /\ Streak(q, 0, o)
    BY <1>2 DEF Ignoring
  <2>2. y[o] = x[o]
    BY <1>2, <2>1 DEF IsLive
  <2>3. Streak(r, 0, o)
    BY <1>2, <2>1, StreakGrows
  <2> QED
    BY <2>1, <2>2, <2>3
<1>4. ASSUME NEW o \in Order
      PROVE  (IF Skips(y, d, r, o) THEN T!NoOrder ELSE Entry(y[o]))
             = (IF Skips(x, d, q, o) THEN T!NoOrder ELSE Entry(x[o]))
  <2>1. CASE x[o].state # "accepted" /\ y[o].state # "accepted"
    BY <2>1 DEF Entry, IsLive
  <2>2. CASE y[o] = x[o]
    <3>1. CASE d.ignore[x[o].buy] = 0
      BY <2>2, <3>1 DEF Skips
    <3>2. CASE d.ignore[x[o].buy] # 0
      <4>1. x[o].buy \in Side
        BY <1>2 DEF SimpleOrder
      <4>2. PICK p \in Order : Streak(q, 0, p)
        BY <1>2, <3>2, <4>1 DEF Ignoring
      <4>3. Head(r) = Head(q)
        BY <1>2, <4>2, StreakGrows
      <4> QED
        BY <2>2, <4>3 DEF Skips
    <3> QED
      BY <3>1, <3>2
  <2> QED
    BY <1>2, <2>1, <2>2
<1>5. Entries(y, d, r) = Entries(x, d, q)
  BY <1>4 DEF Entries
<1>6. Within(y)
  BY <1>2 DEF Within
<1> QED
  BY <1>1, <1>2, <1>3, <1>5, <1>6 DEF KInv

(* No order that is not submitted is accepted. *)
LEMMA AddedIsNew ==
  ASSUME IInv, NEW o \in Order, NEW t \in Menu, Add(o, t), NEW p \in Order
  PROVE  \/ order'[p] = order[p]
         \/ order[p].state # "accepted" /\ order'[p].state # "accepted"
<1>1. Used = 1..(o - 1) /\ order' = [order EXCEPT ![o] = NewOrder(o, t)]
  BY DEF Add
<1>2. order[o].state = "none"
  BY <1>1, ConstantsAssumption DEF Used, Order, ConstantsAssumption
<1>3. CASE p = o
  <2>1. order'[p] = NewOrder(o, t)
    BY <1>1, <1>3 DEF IInv, TypeOK
  <2> QED
    BY <1>2, <1>3, <2>1 DEF NewOrder
<1>4. CASE p # o
  BY <1>1, <1>4 DEF IInv, TypeOK
<1> QED
  BY <1>3, <1>4

LEMMA OtherStepsKeep ==
  ASSUME IInv, AInv, KInv, depth' = depth,
         MatchStep \/ AddOrderStep \/ PendingStep \/ Application
  PROVE  KInv'
<1>1. ASSUME NEW p \in Order
      PROVE  \/ order'[p] = order[p]
             \/ order[p].state # "accepted" /\ order'[p].state # "accepted"
  <2>1. CASE MatchStep \/ AddOrderStep \/ PendingStep
    BY <2>1, CallsLeaveObjects
  <2>2. CASE Application
    <3>1. order' = order \/ \E o \in Order, t \in Menu : Add(o, t)
      BY <2>2 DEF Application, Cancel, Replace, MarketPriceSet
    <3> QED
      BY <3>1, AddedIsNew
  <2> QED
    BY <2>1, <2>2
<1> QED
  BY <1>1, DueGrows, KeptStill

(* A callback that does not mislead the depth makes no call of it fail, so *)
(* the object is told.                                                     *)
LEMMA DeliveryKeeps ==
  ASSUME IInv, AInv, QInv, KInv, QuantitiesFit, PerformWithDepth, ~Misleads(Head(working))
  PROVE  KInv' /\ Perform
<1>1. /\ Performed /\ pc = "deliver" /\ depth' = Heard(depth, Head(working))
      /\ order' = Notified(Head(working)) \/ (depth'.failed /\ UNCHANGED order)
  BY DEF PerformWithDepth, Performed
<1>2. PICK cb \in Callback :
        /\ cb = Head(working) /\ Due # <<>> /\ cb = Head(Due) /\ Due' = Tail(Due)
        /\ \A o \in Order : Timely(order[o], cb, o) /\ Notified(cb)[o] = Told(order[o], cb, o)
  BY <1>1, PerformedTells
<1>3. PICK y, q, d, n : y = Notified(cb) /\ q = Due /\ d = depth /\ n = depth'
  OBVIOUS
<1>4. Hears(y, q, d)
  <2>1. y \in [Order -> SimpleOrder] /\ order \in [Order -> SimpleOrder]
    BY <1>3, NotifiedType DEF IInv, TypeOK
  <2>2. Fitted(order) /\ Fitted(y)
    BY <1>1, <1>2, <1>3 DEF QuantitiesFit
  <2>3. q \in Seq(Callback) /\ q # <<>> /\ InOrder(order, q)
    BY <1>2, <1>3, DueType DEF QInv
  <2>4. T!Kept(Entries(order, d, q), d) /\ Ignoring(order, d, q) /\ Within(order)
    BY <1>3 DEF KInv
  <2> QED
    BY <1>2, <1>3, <2>1, <2>2, <2>3, <2>4 DEF Hears
<1>5. n = Heard(d, Head(q)) /\ ~Misleads(Head(q))
  BY <1>1, <1>2, <1>3
<1>6. Followed(y, q, n)
  BY <1>4, <1>5, HeardFollows
<1>7. ~n.failed
  BY <1>6, KeptObject DEF Followed
<1>8. order' = y
  BY <1>1, <1>2, <1>3, <1>7
<1> QED
  BY <1>1, <1>2, <1>3, <1>6, <1>8 DEF KInv, Followed, Perform

-----------------------------------------------------------------------------
(* The theorems *)

(* What holds at all times, and what holds until a callback misleads.      *)
DepthBookInv == IInv /\ (~misled => AInv /\ Whole /\ QInv /\ KInv)

(* A new depth has nothing of a book that is empty.                        *)
LEMMA InitDepthBook ==
  ASSUME DepthInit
  PROVE  DepthBookInv
<1>1. /\ Init /\ depth = T!NewDepth /\ order = [o \in Order |-> NoOrder] /\ Due = <<>>
      /\ order \in [Order -> SimpleOrder]
  <2>1. Init /\ depth = T!NewDepth
    BY SameValues DEF DepthInit
  <2>2. order = [o \in Order |-> NoOrder] /\ Due = <<>>
    BY <2>1 DEF Init, Due
  <2>3. order \in [Order -> SimpleOrder]
    BY <2>1, InitIInv DEF IInv, TypeOK
  <2> QED
    BY <2>1, <2>2, <2>3
<1>2. PICK x, d, q : x = order /\ d = depth /\ q = Due
  OBVIOUS
<1>3. \A o \in Order : x[o].state = "none"
  BY <1>1, <1>2 DEF NoOrder
<1>4. \A b \in BOOLEAN : d.ignore[b] = 0
  BY <1>1, <1>2 DEF T!NewDepth
<1>5. Entries(x, d, q) = Plain(x) /\ Ignoring(x, d, q)
  BY <1>1, <1>2, <1>4, NothingIgnored
<1>6. Plain(x) = [o \in Order |-> T!NoOrder]
  BY <1>3 DEF Plain, Entry, IsLive
<1>7. T!Kept(Entries(x, d, q), d)
  BY <1>1, <1>2, <1>5, <1>6, ClientAssumption, T!NewIsKept
<1>8. KInv
  BY <1>2, <1>3, <1>5, <1>7 DEF KInv, Within
<1> QED
  BY <1>1, <1>8, InitIInv, InitAInv, InitWholeness, InitQueues DEF DepthBookInv

(* The object of the order at the head is told, or it is left as it was.   *)
LEMMA DeliveryIsSafe ==
  ASSUME IInv, PerformWithDepth
  PROVE  IInv'
<1>1. /\ Performed /\ pc = "deliver"
      /\ (order' = Notified(Head(working)) \/ order' = order)
  BY DEF PerformWithDepth, Performed
<1>2. Head(working) \in Callback
  BY <1>1 DEF IInv, TypeOK, Delivering
<1>3. /\ order' \in [Order -> SimpleOrder]
      /\ \A o \in Used : o \in Used' /\ order'[o].buy = order[o].buy
  <2>1. CASE order' = order
    BY <2>1 DEF IInv, TypeOK, Used
  <2>2. CASE order' = Notified(Head(working))
    <3>1. PICK cb \in Callback : cb = Head(working)
      BY <1>2
    <3> QED
      BY <2>2, <3>1, NotifiedType DEF IInv, Used
  <2> QED
    BY <1>1, <2>1, <2>2
<1> QED
  BY <1>1, <1>3, PerformedStep

LEMMA NextDepthBook ==
  ASSUME DepthBookInv, QuantitiesFit, [DepthNext]_bookVars
  PROVE  DepthBookInv'
<1>1. CASE PerformWithDepth
  <2>1. IInv'
    BY <1>1, DeliveryIsSafe DEF DepthBookInv
  <2>2. ASSUME ~misled'
        PROVE  AInv' /\ Whole' /\ QInv' /\ KInv'
    <3>1. ~misled /\ ~Misleads(Head(working))
      BY <1>1, <2>2 DEF PerformWithDepth
    <3>2. IInv /\ AInv /\ Whole /\ QInv /\ KInv
      BY <3>1 DEF DepthBookInv
    <3>3. KInv' /\ Perform
      BY <1>1, <3>1, <3>2, DeliveryKeeps
    <3>4. [ToldStep]_vars
      BY <3>3 DEF ToldStep
    <3> QED
      BY <3>2, <3>3, <3>4, ToldStepIsStep, NextKeepsAInv, NextKeepsWhole, NextQueues
  <2> QED
    BY <2>1, <2>2 DEF DepthBookInv
<1>2. CASE (MatchStep \/ AddOrderStep \/ PendingStep \/ Application) /\ UNCHANGED depthVars
  <2>1. [ToldStep]_vars /\ depth' = depth /\ misled' = misled
    BY <1>2 DEF ToldStep, depthVars
  <2>2. [Next]_vars
    BY <2>1, ToldStepIsStep
  <2> QED
    BY <1>2, <2>1, <2>2, NextKeepsIInv, NextKeepsAInv, NextKeepsWhole, NextQueues, OtherStepsKeep
    DEF DepthBookInv
<1>3. CASE UNCHANGED bookVars
  <2>1. UNCHANGED vars /\ depth' = depth /\ misled' = misled
    BY <1>3 DEF bookVars, depthVars
  <2>2. [ToldStep]_vars /\ [Next]_vars /\ UNCHANGED <<order, working, callbacks>>
    BY <2>1 DEF vars
  <2>3. IInv /\ KInv => KInv'
    BY <2>1, <2>2, SilentGrows, KeptStill
  <2> QED
    BY <2>1, <2>2, <2>3, NextKeepsIInv, NextKeepsAInv, NextKeepsWhole, NextQueues
    DEF DepthBookInv
<1> QED
  BY <1>1, <1>2, <1>3 DEF DepthNext

LEMMA DepthBookHolds == DepthSpec /\ []QuantitiesFit => []DepthBookInv
<1>1. DepthInit => DepthBookInv
  BY InitDepthBook
<1>2. DepthBookInv /\ QuantitiesFit /\ [DepthNext]_bookVars => DepthBookInv'
  BY NextDepthBook
<1> QED
  BY <1>1, <1>2, PTL DEF DepthSpec

(* No call of the depth throws, and no order object misses its callback    *)
(* because the depth threw: until a callback misleads the depth, objects   *)
(* and engine agree between two calls.                                     *)
THEOREM EveryObjectIsTold == DepthSpec /\ []QuantitiesFit => []ObjectsAreTold
<1>1. DepthBookInv => ObjectsAreTold
  BY AgreesAtIdle DEF DepthBookInv, ObjectsAreTold
<1> QED
  BY <1>1, DepthBookHolds, PTL

(* Between two calls nothing is due, so nothing is to be ignored.          *)
LEMMA NothingIsDue ==
  ASSUME IInv, AInv, KInv, Idle
  PROVE  /\ \A b \in Side : depth.ignore[b] = 0
         /\ T!Kept(Plain(order), depth)
<1>1. Due = <<>>
  BY DEF AInv, Handed, Idle, Due
<1>2. \A b \in Side : depth.ignore[b] = 0
  <2>1. \A o : ~Streak(Due, 0, o)
    BY <1>1 DEF Streak
  <2> QED
    BY <2>1 DEF KInv, Ignoring
<1>3. \A b \in BOOLEAN : depth.ignore[b] = 0
  BY <1>2 DEF Side
<1>4. order \in [Order -> SimpleOrder]
  BY DEF IInv, TypeOK
<1>5. Entries(order, depth, Due) = Plain(order)
  BY <1>3, <1>4, NothingIgnored
<1> QED
  BY <1>2, <1>5 DEF KInv

(* Each call of the depth that the callbacks make finds its level, and the *)
(* fills that it is asked to ignore are all delivered before the call of   *)
(* the book returns.                                                       *)
THEOREM DepthCallsSucceed == DepthSpec /\ []QuantitiesFit => []NoDepthCallFails
<1>1. DepthBookInv => NoDepthCallFails
  <2> SUFFICES ASSUME IInv, AInv, KInv
               PROVE  ~depth.failed /\ (Idle => \A buy \in Side : depth.ignore[buy] = 0)
    BY DEF DepthBookInv, NoDepthCallFails
  <2> QED
    BY KeptObject, NothingIsDue DEF KInv
<1> QED
  BY <1>1, DepthBookHolds, PTL

(* The orders that have something left are those in the containers, with   *)
(* what is open of them.                                                   *)
LEMMA LivingIsLive ==
  ASSUME IInv, AInv, QInv, NothingDropped, Idle, NEW o \in Order
  PROVE  /\ IsLive(order[o]) <=> o \in Living(order[o].buy)
         /\ IsLive(order[o]) => Left(order[o]) = open[o]
         /\ \A b \in Side : o \in Living(b) => order[o].buy = b
<1>1. /\ Stands(o, order[o]) /\ ~Matching /\ open[o] \in Nat
  BY ToldAtIdle, ContainerFacts
<1>2. ASSUME NEW b \in Side, o \in Living(b)
      PROVE  order[o].buy = b /\ IsLive(order[o])
  <2>1. o \in market[b] \cup stops[b] /\ order[o].price # MARKET_ORDER_PRICE
    BY <1>2 DEF Living, IsLimit
  <2>2. order[o].buy = b
    BY <2>1 DEF IInv, Filed
  <2>3. Resting(o) \/ Waits(o)
    BY <2>1 DEF Resting, Waits
  <2>4. open[o] > 0
    BY <1>1, <2>3, CarriedFacts DEF QInv, WaitsAreOpen
  <2>5. order[o].state = "accepted"
    BY <1>1, <2>3, <2>4 DEF Stands, Carried
  <2> QED
    BY <2>1, <2>2, <2>5 DEF IsLive
<1>3. ASSUME IsLive(order[o])
      PROVE  o \in Living(order[o].buy) /\ Left(order[o]) = open[o]
  <2>1. order[o].state = "accepted" /\ order[o].price # MARKET_ORDER_PRICE
    BY <1>3 DEF IsLive
  <2>2. o \in market[order[o].buy] \cup stops[order[o].buy]
    BY <2>1, KeptAtIdle DEF NoOrderIsLost
  <2>3. order[o].qty - order[o].filled = open[o]
    BY <1>1, <2>1 DEF Stands
  <2> QED
    BY <1>3, <2>1, <2>2, <2>3 DEF Living, IsLimit, Left
<1>4. order[o].buy \in Side
  BY ContainerFacts
<1> QED
  BY <1>2, <1>3, <1>4

(* The total of a level is what the engine has at its price.               *)
LEMMA LevelIsOpen ==
  ASSUME IInv, AInv, QInv, NothingDropped, Idle, Within(order), Fitted(order),
         T!Kept(Plain(order), depth), NEW b \in Side, NEW p \in Nat \ {0}
  PROVE  D!LevelTotal(depth, b, p) = OpenAt(b, p)
<1>1. PICK n : n = Plain(order)
  OBVIOUS
<1>2. PICK here : here = {o \in Living(b) : order[o].price = p}
  OBVIOUS
<1>3. /\ n \in [Order -> T!ClientOrder] /\ order \in [Order -> SimpleOrder]
      /\ \A o \in Order : n[o] = Entry(order[o]) /\ n[o].qty = Left(order[o])
  BY <1>1, PlainEntries DEF IInv, TypeOK
<1>4. ASSUME NEW o \in Order
      PROVE  /\ ~IsLive(order[o]) => n[o].price = 0
             /\ IsLive(order[o]) => n[o].buy = order[o].buy /\ n[o].price = order[o].price
  BY <1>3 DEF Entry, T!NoOrder
<1>5. here \in SUBSET Order
  BY <1>2 DEF Living, IInv, TypeOK
<1>6. T!AtPrice(n, b, p) = here
  <2>1. ASSUME NEW o \in Order
        PROVE  (n[o].buy = b /\ n[o].price = p) <=> o \in here
    BY <1>2, <1>4, LivingIsLive
  <2> QED
    BY <1>5, <2>1 DEF T!AtPrice
<1>7. \A o \in here : T!Qtys(n)[o] = open[o]
  <2> TAKE o \in here
  <2>1. o \in Order /\ IsLive(order[o])
    BY <1>2, <1>5, LivingIsLive
  <2>2. n[o].qty = open[o]
    BY <1>3, <2>1, LivingIsLive
  <2> QED
    BY <2>1, <2>2 DEF T!Qtys
<1>8. T!Sum(T!Qtys(n), here) = T!Sum(open, here)
  <2>1. T!IsFiniteSet(Order) /\ T!Qtys(n) \in [Order -> Int]
    BY <1>3, ClientAssumption, T!QtysAreNumbers
  <2>2. open \in [Order -> Int]
    BY ContainerFacts
  <2>3. PICK f, e, S : f = T!Qtys(n) /\ e = open /\ S = Order
    OBVIOUS
  <2>4. /\ T!IsFiniteSet(S) /\ f \in [S -> Int] /\ e \in [S -> Int] /\ here \in SUBSET S
        /\ \A o \in here : f[o] = e[o]
    BY <1>5, <1>7, <2>1, <2>2, <2>3
  <2>5. T!Sum(f, here) = T!Sum(e, here)
    BY <2>4, T!SumOfSame, ClientAssumption
  <2> QED
    BY <2>3, <2>5
<1>9. D!MapThenSumSet(LAMBDA o : open[o], here) = T!Sum(open, here)
  <2>1. open \in [Order -> Int]
    BY ContainerFacts
  <2> QED
    BY <1>5, <2>1, SumsAreSums
<1>10. T!Cardinality(here) = Cardinality(here)
  BY SameSets
<1>11. D!LevelTotal(depth, b, p) = T!Book(n, b, p)
  <2>1. T!LevelTotal(depth, b, p) = T!Book(n, b, p)
    BY <1>1 DEF T!Kept, Side
  <2> QED
    BY <2>1, SameCalls
<1>12. T!Book(n, b, p) = [count |-> T!Cardinality(here), qty |-> T!Sum(T!Qtys(n), here)]
  BY <1>6 DEF T!Book
<1>13. OpenAt(b, p) = [count |-> Cardinality(here), qty |-> D!MapThenSumSet(LAMBDA o : open[o], here)]
  BY <1>2 DEF OpenAt
<1> QED
  BY <1>8, <1>9, <1>10, <1>11, <1>12, <1>13

(* After each call the depth has at each price the limit orders that are   *)
(* in the book or held as stops, and their open quantity, as long as none  *)
(* of the three callbacks that mislead it was delivered and no order is    *)
(* dropped without a callback.                                             *)
THEOREM DepthShowsTheBook ==
  ASSUME NothingDropped
  PROVE  DepthSpec /\ []QuantitiesFit => []DepthFollowsBook
<1>1. DepthBookInv /\ QuantitiesFit => DepthFollowsBook
  <2> SUFFICES ASSUME DepthBookInv, QuantitiesFit, Idle, ~misled,
                      NEW buy \in Side, NEW price \in DepthPrices
               PROVE  D!LevelTotal(depth, buy, price) = OpenAt(buy, price)
    BY DEF DepthFollowsBook, AddsUp
  <2>1. IInv /\ AInv /\ QInv /\ KInv
    BY DEF DepthBookInv
  <2>2. price \in Nat \ {0}
    BY <2>1 DEF DepthPrices, Used, IInv, TypeOK, SimpleOrder, Price, MARKET_ORDER_PRICE
  <2>3. T!Kept(Plain(order), depth) /\ Within(order) /\ Fitted(order)
    BY <2>1, NothingIsDue DEF KInv, QuantitiesFit
  <2> QED
    BY <2>1, <2>2, <2>3, LevelIsOpen
<1> QED
  BY <1>1, DepthBookHolds, PTL

-----------------------------------------------------------------------------
(* The listeners of the depth, also after a callback misled it *)

(* The quantities of the order objects are 32 bits wide. *)
QuantitiesAreWords == \A o \in Order : order[o].qty \in D!Quantity

(* Whatever callback is delivered, the depth numbers what it changes.      *)
LEMMA PartMarks ==
  ASSUME order \in [Order -> SimpleOrder], NEW d, d \in T!DepthObject, T!Numbered(d),
         NEW r \in Order, NEW cb \in Callback, NEW n, n = FillPart(d, r, cb)
  PROVE  T!Marked(d, n)
<1>1. order[r].buy \in BOOLEAN /\ order[r].price \in Nat /\ cb.qty \in Nat
  BY DEF SimpleOrder, Price, Side, Callback, Quantity
<1>2. PICK b \in BOOLEAN, p \in Nat, q \in Nat :
        b = order[r].buy /\ p = order[r].price /\ q = cb.qty
  BY <1>1
<1>3. CASE IsLimit(r)
  <2>1. n = D!FillOrder(d, b, p, q, r \in cb.done)
    BY <1>2, <1>3 DEF FillPart
  <2>2. n = D!FillOrder(d, b, p, q, TRUE) \/ n = D!FillOrder(d, b, p, q, FALSE)
    BY <2>1 DEF D!FillOrder
  <2>3. ASSUME NEW f \in BOOLEAN, n = D!FillOrder(d, b, p, q, f)
        PROVE  T!Marked(d, n)
    <3>1. n = T!FillOrder(d, b, p, q, f)
      BY <2>3, SameCalls DEF D!FillOrder, T!FillOrder
    <3> QED
      BY <3>1, ClientAssumption, T!FillOrderMarks
  <2> QED
    BY <2>2, <2>3
<1>4. CASE ~IsLimit(r)
  <2>1. n = d
    BY <1>4 DEF FillPart
  <2> QED
    BY <2>1, ClientAssumption, T!QuietMarks
<1> QED
  BY <1>3, <1>4

LEMMA HeardMarks ==
  ASSUME order \in [Order -> SimpleOrder], QuantitiesAreWords,
         NEW d, d \in T!DepthObject, T!Numbered(d),
         NEW cb \in Callback, cb.type # "book_update", NEW n, n = Heard(d, cb)
  PROVE  T!Marked(d, n)
<1>1. PICK o \in Order, x \in SimpleOrder : o = cb.order /\ x = order[o]
  BY DEF Callback
<1>2. PICK b \in BOOLEAN, p \in Nat, q \in Nat, newPrice \in Nat, w \in T!Quantity, v \in Int :
        /\ b = x.buy /\ p = x.price /\ q = cb.qty /\ newPrice = cb.price /\ w = x.qty
        /\ v = x.qty + cb.delta
  <2>1. /\ x.buy \in BOOLEAN /\ x.price \in Nat /\ cb.qty \in Nat /\ cb.price \in Nat
        /\ cb.delta \in Int
    BY DEF SimpleOrder, Price, Side, Callback, Quantity
  <2>2. x.qty \in T!Quantity /\ x.qty \in Int
    BY <1>1, AmountsAreWords DEF QuantitiesAreWords, SimpleOrder
  <2> QED
    BY <2>1, <2>2
<1>3. w \in Nat
  BY <1>2, AmountsAreWords, DepthBookAssumption DEF DepthBookAssumption
<1>4. CASE n = d
  BY <1>4, ClientAssumption, T!QuietMarks
<1>5. CASE cb.type = "accept"
  <2>1. n = OnAccept(d, o, q)
    BY <1>1, <1>2, <1>5 DEF Heard
  <2>2. n = d \/ (n = D!IgnoreFillQty(d, b, q) /\ q = w) \/ n = D!AddOrder(d, b, p, w)
    BY <1>1, <1>2, <2>1 DEF OnAccept
  <2>3. n = d \/ n = T!IgnoreFillQty(d, b, w) \/ n = T!AddOrder(d, b, p, w)
    BY <2>2, SameCalls
  <2>4. CASE n = T!IgnoreFillQty(d, b, w)
    BY <2>4, ClientAssumption, T!IgnoreFillQtyMarks
  <2>5. CASE n = T!AddOrder(d, b, p, w)
    BY <1>3, <2>5, ClientAssumption, T!AddOrderMarks
  <2> QED
    BY <1>4, <2>3, <2>4, <2>5
<1>6. CASE cb.type = "fill"
  <2>0. PICK r \in Order : r = cb.matched
    BY DEF Callback
  <2>1. PICK e : e = FillPart(d, r, cb)
    OBVIOUS
  <2>2. T!Marked(d, e)
    BY <2>1, PartMarks
  <2>3. e \in T!DepthObject /\ T!Numbered(e)
    BY <2>2 DEF T!Marked
  <2>4. n = FillPart(e, o, cb)
    BY <1>1, <1>6, <2>0, <2>1 DEF Heard, OnFill
  <2>5. T!Marked(e, n)
    BY <2>3, <2>4, PartMarks
  <2> QED
    BY <2>2, <2>3, <2>5, ClientAssumption, T!MarkedTwice
<1>7. CASE cb.type = "cancel"
  <2>1. n = d \/ n = D!CloseOrder(d, b, p, q)
    BY <1>1, <1>2, <1>7 DEF Heard, OnCancel
  <2>2. n = d \/ n = T!CloseOrder(d, b, p, q)
    BY <2>1, SameCalls
  <2>3. CASE n = T!CloseOrder(d, b, p, q)
    BY <2>3, ClientAssumption, T!CloseOrderMarks
  <2> QED
    BY <1>4, <2>2, <2>3
<1>8. CASE cb.type = "replace"
  <2>1. n = D!ReplaceOrder(d, b, p, newPrice, w, v)
    BY <1>1, <1>2, <1>8 DEF Heard, OnReplace
  <2>2. n = T!ReplaceOrder(d, b, p, newPrice, w, v)
    BY <2>1, SameCalls
  <2> QED
    BY <1>3, <2>2, ClientAssumption, T!ReplaceOrderMarks
<1>9. CASE cb.type \notin {"accept", "fill", "cancel", "replace"}
  BY <1>4, <1>9 DEF Heard
<1> QED
  BY <1>5, <1>6, <1>7, <1>8, <1>9

(* Where the listeners have the control, every callback that may change    *)
(* the depth has the update of its call behind it, and so has a depth that *)
(* was changed and not published.                                          *)
Calm == pc \in {"idle", "deliver"}
Moving == {"accept", "fill", "cancel", "replace"}

UpdateBehind(q, d) ==
  /\ \A k \in DOMAIN q : q[k].type \in Moving =>
       \E j \in DOMAIN q : j > k /\ q[j].type = "book_update"
  /\ D!Changed(d) => \E j \in DOMAIN q : q[j].type = "book_update"

(* The outermost call delivers for the calls that the listeners make. *)
Outermost ==
  (~handling => working = <<>>) /\ (pc = "idle" => ~handling /\ callbacks = <<>>)

(* What the listeners have not seen has a number that is not published. *)
Shown(d, s, best) ==
  ~d.failed =>
    /\ ~D!Changed(d) => s = d.level
    /\ \A b \in BOOLEAN : d.level[b][1] # best[b] => d.stamp[b][1] > d.lastPublished

ShownTypes ==
  /\ depth \in T!DepthObject /\ T!Numbered(depth)
  /\ seen \in [Side -> [1..SIZE -> D!Level]]
  /\ seenBest \in [Side -> D!Level]
  /\ misled \in BOOLEAN

UpdateFollows == Calm => UpdateBehind(Due, depth)

ListenInv ==
  /\ IInv /\ ShownTypes /\ Outermost /\ UpdateFollows /\ Shown(depth, seen, seenBest)

(* A callback behind the others. *)
LEMMA UpdateStillBehind ==
  ASSUME NEW q \in Seq(Callback), NEW c \in Callback, NEW d,
         c.type = "book_update" \/ (c.type \notin Moving /\ UpdateBehind(q, d))
  PROVE  UpdateBehind(Append(q, c), d)
<1>1. PICK r : r = Append(q, c)
  OBVIOUS
<1>2. /\ Len(q) \in Nat /\ DOMAIN q = 1..Len(q) /\ DOMAIN r = 1..(Len(q) + 1)
      /\ r[Len(q) + 1] = c /\ \A i \in 1..Len(q) : r[i] = q[i]
  BY <1>1
<1>3. CASE c.type = "book_update"
  <2>1. Len(q) + 1 \in DOMAIN r /\ r[Len(q) + 1].type = "book_update"
    BY <1>2, <1>3
  <2>2. ASSUME NEW k \in DOMAIN r, r[k].type \in Moving
        PROVE  Len(q) + 1 > k
    BY <1>2, <1>3, <2>2 DEF Moving
  <2> QED
    BY <1>1, <2>1, <2>2 DEF UpdateBehind
<1>4. CASE c.type \notin Moving /\ UpdateBehind(q, d)
  <2>1. ASSUME NEW k \in DOMAIN r, r[k].type \in Moving
        PROVE  \E j \in DOMAIN r : j > k /\ r[j].type = "book_update"
    <3>1. k \in DOMAIN q /\ q[k].type \in Moving
      BY <1>2, <1>4, <2>1
    <3>2. PICK j \in DOMAIN q : j > k /\ q[j].type = "book_update"
      BY <1>4, <3>1 DEF UpdateBehind
    <3> QED
      BY <1>2, <3>2
  <2>2. D!Changed(d) => \E j \in DOMAIN r : r[j].type = "book_update"
    <3>1. ASSUME D!Changed(d)
          PROVE  \E j \in DOMAIN r : r[j].type = "book_update"
      <4>1. PICK j \in DOMAIN q : q[j].type = "book_update"
        BY <1>4, <3>1 DEF UpdateBehind
      <4> QED
        BY <1>2, <4>1
    <3> QED
      BY <3>1
  <2> QED
    BY <1>1, <2>1, <2>2 DEF UpdateBehind
<1> QED
  BY <1>3, <1>4

(* The first callback is delivered. *)
LEMMA UpdateBehindRest ==
  ASSUME NEW q \in Seq(Callback), q # <<>>, NEW d, NEW n, UpdateBehind(q, d),
         \/ Head(q).type \in Moving
         \/ Head(q).type # "book_update" /\ (D!Changed(n) => D!Changed(d))
         \/ ~D!Changed(n)
  PROVE  UpdateBehind(Tail(q), n)
<1>1. PICK r : r = Tail(q)
  OBVIOUS
<1>2. /\ Len(q) \in Nat \ {0} /\ DOMAIN q = 1..Len(q) /\ DOMAIN r = 1..(Len(q) - 1)
      /\ Head(q) = q[1] /\ \A i \in 1..(Len(q) - 1) : r[i] = q[i + 1]
  BY <1>1
<1>3. ASSUME NEW k \in DOMAIN r, r[k].type \in Moving
      PROVE  \E j \in DOMAIN r : j > k /\ r[j].type = "book_update"
  <2>1. k + 1 \in DOMAIN q /\ q[k + 1].type \in Moving
    BY <1>2, <1>3
  <2>2. PICK j \in DOMAIN q : j > k + 1 /\ q[j].type = "book_update"
    BY <2>1 DEF UpdateBehind
  <2>3. j - 1 \in DOMAIN r /\ j - 1 > k /\ r[j - 1] = q[j]
    BY <1>2, <2>2
  <2> QED
    BY <2>2, <2>3
<1>4. ASSUME D!Changed(n)
      PROVE  \E j \in DOMAIN r : r[j].type = "book_update"
  <2>1. 1 \in DOMAIN q
    BY <1>2
  <2>2. \E j \in DOMAIN q : j # 1 /\ q[j].type = "book_update"
    <3>1. CASE Head(q).type \in Moving
      BY <1>2, <2>1, <3>1 DEF UpdateBehind
    <3>2. CASE Head(q).type # "book_update" /\ D!Changed(d)
      BY <1>2, <3>2 DEF UpdateBehind
    <3> QED
      BY <1>4, <3>1, <3>2
  <2>3. PICK j \in DOMAIN q : j # 1 /\ q[j].type = "book_update"
    BY <2>2
  <2>4. j - 1 \in DOMAIN r /\ r[j - 1] = q[j]
    BY <1>2, <2>3
  <2> QED
    BY <2>3, <2>4
<1> QED
  BY <1>1, <1>3, <1>4 DEF UpdateBehind

(* callback_now() pushes behind what is due and starts the delivery. *)
LEMMA DuePushed ==
  ASSUME IInv, Outermost, NEW s \in Seq(Callback), CallbackNow(s)
  PROVE  Due' = Due \o s /\ Outermost' /\ Calm'
<1>1. callbacks \in Seq(Callback) /\ working \in Seq(Callback) /\ handling \in BOOLEAN
  BY DEF IInv, TypeOK
<1>2. pc' = "deliver"
  BY DEF CallbackNow
<1>3. CASE handling
  <2>1. callbacks' = callbacks \o s /\ working' = working /\ handling' = handling
    BY <1>3 DEF CallbackNow
  <2>2. working \o (callbacks \o s) = (working \o callbacks) \o s
    BY <1>1
  <2> QED
    BY <1>2, <1>3, <2>1, <2>2 DEF Due, Outermost, Calm
<1>4. CASE ~handling
  <2>1. working' = callbacks \o s /\ callbacks' = <<>> /\ handling' = TRUE
    BY <1>4 DEF CallbackNow
  <2>2. working = <<>>
    BY <1>4 DEF Outermost
  <2>3. callbacks \o s \in Seq(Callback)
    BY <1>1
  <2>4. (callbacks \o s) \o <<>> = callbacks \o s /\ <<>> \o callbacks = callbacks
    BY <1>1, <2>3
  <2> QED
    BY <1>2, <2>1, <2>2, <2>4 DEF Due, Outermost, Calm
<1> QED
  BY <1>3, <1>4

(* What the matching does leaves the delivery alone, and the control in    *)
(* the book.                                                               *)
LEMMA MatchGoesOn ==
  ASSUME MatchStep
  PROVE  ~Calm' /\ UNCHANGED <<working, handling>>
<1>1. ASSUME NEW e \in m.todo, DeferAon(e) \/ MatchRegular(e) \/ DeferMatch(e)
      PROVE  ~Calm' /\ UNCHANGED <<working, handling>>
  BY <1>1 DEF DeferAon, MatchRegular, DeferMatch, Candidate, MaybeTrade, queues, Calm
<1>2. ASSUME NEW e \in m.todo, TryDeferred(e)
      PROVE  ~Calm' /\ UNCHANGED <<working, handling>>
  BY <1>2 DEF TryDeferred, queues, Calm
<1>3. ASSUME NEW d \in plan.todo, Propose(d)
      PROVE  ~Calm' /\ UNCHANGED <<working, handling>>
  BY <1>3 DEF Propose, queues, Calm
<1>4. ASSUME NEW d \in plan.todo, Settle(d)
      PROVE  ~Calm' /\ UNCHANGED <<working, handling>>
  BY <1>4 DEF Settle, MaybeTrade, Calm
<1>5. ASSUME ProposalEnds \/ SettleEnds
      PROVE  ~Calm' /\ UNCHANGED <<working, handling>>
  BY <1>5 DEF ProposalEnds, SettleEnds, queues, Calm
<1>6. ASSUME Close(plan.goal)
      PROVE  ~Calm' /\ UNCHANGED <<working, handling>>
  BY <1>6 DEF Close, MaybeTrade, Calm
<1> QED
  BY <1>1, <1>2, <1>3, <1>4, <1>5, <1>6 DEF MatchStep

(* A call that the book refuses, or a cancel, is told at once. *)
LEMMA PushedBehind ==
  ASSUME IInv, Outermost, NEW d, NEW c \in Callback, CallbackNow(<<c>>),
         c.type = "book_update" \/ (c.type \notin Moving /\ UpdateBehind(Due, d))
  PROVE  Outermost' /\ UpdateBehind(Due', d)
<1>1. PICK s : s = <<c>>
  OBVIOUS
<1>2. s \in Seq(Callback) /\ CallbackNow(s)
  BY <1>1
<1>3. Due' = Due \o s /\ Outermost' /\ Due \in Seq(Callback)
  BY <1>2, DuePushed, DueType
<1>4. PICK q : q = Due
  OBVIOUS
<1>5. UpdateBehind(Append(q, c), d) /\ q \o s = Append(q, c)
  BY <1>1, <1>3, <1>4, UpdateStillBehind
<1> QED
  BY <1>3, <1>4, <1>5

LEMMA CancelPushedBehind ==
  ASSUME IInv, Outermost, NEW d, NEW c \in Callback, NEW u \in Callback,
         u.type = "book_update", CallbackNow(<<c, u>>)
  PROVE  Outermost' /\ UpdateBehind(Due', d)
<1>1. PICK s : s = <<c, u>>
  OBVIOUS
<1>2. s \in Seq(Callback) /\ CallbackNow(s)
  BY <1>1
<1>3. Due' = Due \o s /\ Outermost' /\ Due \in Seq(Callback)
  BY <1>2, DuePushed, DueType
<1>4. PICK q, r : q = Due /\ r = Append(q, c)
  OBVIOUS
<1>5. r \in Seq(Callback) /\ q \o s = Append(r, u)
  BY <1>1, <1>3, <1>4
<1>6. UpdateBehind(Append(r, u), d)
  BY <1>5, UpdateStillBehind
<1> QED
  BY <1>3, <1>4, <1>5, <1>6

(* No step but the delivery changes the depth or hands out its callbacks. *)
LEMMA UpdateStillFollows ==
  ASSUME IInv, Outermost, UpdateFollows, depth' = depth,
         MatchStep \/ AddOrderStep \/ PendingStep \/ Application
  PROVE  Outermost' /\ UpdateFollows'
<1>1. ASSUME ~Calm', UNCHANGED <<working, handling>>
      PROVE  Outermost' /\ UpdateFollows'
  BY <1>1 DEF Outermost, UpdateFollows, Calm
<1>2. ASSUME NEW q, q = Due', Outermost', UpdateBehind(q, depth)
      PROVE  Outermost' /\ UpdateFollows'
  BY <1>2 DEF UpdateFollows
<1>3. 1 \in Order
  BY ConstantsAssumption DEF Order, ConstantsAssumption
<1>4. CASE MatchStep
  BY <1>1, <1>4, MatchGoesOn
<1>5. CASE AddOrderStep
  <2>1. ASSUME NEW a \in aons, CheckDeferred(a)
        PROVE  ~Calm' /\ UNCHANGED <<working, handling>>
    BY <2>1 DEF CheckDeferred, StartMatch, queues, Calm
  <2>2. ASSUME Rest \/ NestedEnds \/ Submitted
        PROVE  ~Calm' /\ UNCHANGED <<working, handling>>
    BY <2>2 DEF Rest, NestedEnds, Submitted, queues, Calm
  <2> QED
    BY <1>1, <1>5, <2>1, <2>2 DEF AddOrderStep
<1>6. CASE PendingStep
  <2>1. ASSUME TakePending \/ \E o \in Order : SubmitPending(o)
        PROVE  ~Calm' /\ UNCHANGED <<working, handling>>
    BY <2>1 DEF TakePending, SubmitPending, StartMatch, queues, Calm
  <2>2. ASSUME Finish
        PROVE  Outermost' /\ UpdateFollows'
    <3>1. PICK c \in Callback : c = Cb("book_update", 1)
      BY <1>3, PlainCb
    <3>2. c.type = "book_update" /\ CallbackNow(<<c>>)
      BY <2>2, <3>1 DEF Finish, Cb
    <3> QED
      BY <1>2, <3>2, PushedBehind
  <2> QED
    BY <1>1, <1>6, <2>1, <2>2 DEF PendingStep
<1>7. CASE Application
  <2>1. ASSUME Ready
        PROVE  UpdateBehind(Due, depth)
    BY <2>1 DEF Ready, UpdateFollows, Calm
  <2>2. ASSUME NEW o \in Order, NEW t \in Menu, Add(o, t)
        PROVE  Outermost' /\ UpdateFollows'
    <3>1. CASE t.qty = 0
      <4>1. PICK c \in Callback : c = Cb("reject", o)
        BY PlainCb
      <4>2. c.type \notin Moving /\ CallbackNow(<<c>>) /\ Ready
        BY <2>2, <3>1, <4>1 DEF Add, Cb, Moving
      <4> QED
        BY <1>2, <2>1, <4>2, PushedBehind
    <3>2. CASE t.qty # 0
      <4>1. UNCHANGED <<working, handling>> /\ pc' \in {"pending", "match"}
        BY <2>2, <3>2 DEF Add, StartMatch
      <4> QED
        BY <1>1, <4>1 DEF Calm
    <3> QED
      BY <3>1, <3>2
  <2>3. ASSUME NEW o \in Order, Cancel(o)
        PROVE  Outermost' /\ UpdateFollows'
    <3>1. Ready
      BY <2>3 DEF Cancel, CanCall
    <3>2. CASE OnMarket(o)
      <4>1. open[o] \in Nat
        BY DEF IInv, TypeOK, Quantity
      <4>2. PICK b \in Callback, u \in Callback : b = Cb("cancel", o) /\ u = Cb("book_update", 1)
        BY <1>3, PlainCb
      <4>3. PICK c : c = [b EXCEPT !.qty = open[o]]
        OBVIOUS
      <4>4. c \in Callback
        BY <4>1, <4>3 DEF Callback, Quantity
      <4>5. CallbackNow(<<c, u>>) /\ u.type = "book_update"
        BY <2>3, <3>2, <4>2, <4>3 DEF Cancel, Cb
      <4> QED
        BY <1>2, <4>4, <4>5, CancelPushedBehind
    <3>3. CASE ~OnMarket(o)
      <4>1. PICK c \in Callback : c = Cb("cancel_reject", o)
        BY PlainCb
      <4>2. c.type \notin Moving /\ CallbackNow(<<c>>)
        BY <2>3, <3>3, <4>1 DEF Cancel, Cb, Moving
      <4> QED
        BY <1>2, <2>1, <3>1, <4>2, PushedBehind
    <3> QED
      BY <3>2, <3>3
  <2>4. ASSUME NEW o \in Order, NEW delta \in Deltas, NEW newPrice \in NewPrices,
               Replace(o, delta, newPrice)
        PROVE  Outermost' /\ UpdateFollows'
    <3>1. Ready
      BY <2>4 DEF Replace, CanCall
    <3>2. CASE OnMarket(o)
      <4>1. ReplaceFound(o, AllowedDelta(o, delta), ReplacedPrice(o, newPrice))
        BY <2>4, <3>2 DEF Replace
      <4>2. UNCHANGED <<working, handling>> /\ pc' \in {"pending", "match"}
        BY <4>1 DEF ReplaceFound, StartMatch
      <4> QED
        BY <1>1, <4>2 DEF Calm
    <3>3. CASE ~OnMarket(o)
      <4>1. PICK c \in Callback : c = Cb("replace_reject", o)
        BY PlainCb
      <4>2. c.type \notin Moving /\ CallbackNow(<<c>>)
        BY <2>4, <3>3, <4>1 DEF Replace, Cb, Moving
      <4> QED
        BY <1>2, <2>1, <3>1, <4>2, PushedBehind
    <3> QED
      BY <3>2, <3>3
  <2>5. ASSUME NEW price \in MarketPrices, MarketPriceSet(price)
        PROVE  Outermost' /\ UpdateFollows'
    BY <2>5 DEF MarketPriceSet, queues, Outermost, UpdateFollows, Calm, Due
  <2> QED
    BY <1>7, <2>2, <2>3, <2>4, <2>5 DEF Application
<1> QED
  BY <1>4, <1>5, <1>6, <1>7

(* The callback that is delivered is the first of those that are due. *)
LEMMA FirstIsDelivered ==
  ASSUME IInv, Outermost, Performed
  PROVE  /\ Due \in Seq(Callback) /\ Due # <<>> /\ Head(working) = Head(Due)
         /\ Due' = Tail(Due) /\ Outermost'
<1>1. pc = "deliver" /\ handling /\ working # <<>>
  BY DEF Performed, IInv, Delivering
<1>2. working \in Seq(Callback) /\ callbacks \in Seq(Callback) /\ Due \in Seq(Callback)
  BY DueType
<1>3. Due # <<>> /\ Head(Due) = Head(working) /\ Tail(Due) = Tail(working) \o callbacks
  BY <1>1, <1>2 DEF Due
<1>4. CASE Tail(working) # <<>>
  <2>1. working' = Tail(working) /\ UNCHANGED <<callbacks, handling, pc>>
    BY <1>4 DEF Performed
  <2> QED
    BY <1>1, <1>2, <1>3, <2>1 DEF Due, Outermost
<1>5. CASE Tail(working) = <<>>
  <2>1. /\ working' = callbacks /\ callbacks' = <<>> /\ handling' = (callbacks # <<>>)
        /\ pc' = IF callbacks = <<>> THEN "idle" ELSE "deliver"
    BY <1>5 DEF Performed
  <2>2. callbacks \o <<>> = callbacks /\ <<>> \o callbacks = callbacks
    BY <1>2
  <2>3. Due' = Tail(Due)
    BY <1>3, <1>5, <2>1, <2>2 DEF Due
  <2>4. CASE callbacks = <<>>
    BY <1>2, <1>3, <2>1, <2>3, <2>4 DEF Outermost
  <2>5. CASE callbacks # <<>>
    BY <1>2, <1>3, <2>1, <2>3, <2>5 DEF Outermost
  <2> QED
    BY <2>4, <2>5
<1> QED
  BY <1>4, <1>5

(* What a callback changes in the depth is not published. *)
LEMMA ShownStill ==
  ASSUME NEW d, d \in T!DepthObject, T!Numbered(d), NEW n, T!Marked(d, n), NEW s, NEW best,
         Shown(d, s, best)
  PROVE  Shown(n, s, best)
<1>1. 1 \in 1..SIZE
  BY DepthBookAssumption DEF DepthBookAssumption
<1>2. /\ n \in T!DepthObject /\ T!Numbered(n) /\ n.lastPublished = d.lastPublished
      /\ n.lastChange >= d.lastChange /\ (d.failed => n.failed)
      /\ n.failed \/ /\ n.level = d.level \/ n.lastChange > d.lastChange
                     /\ \A b \in BOOLEAN : T!Same(d, n, b, 1) \/ n.stamp[b][1] > d.lastChange
  BY DEF T!Marked
<1>3. /\ d.lastChange \in Nat /\ d.lastPublished \in Nat /\ n.lastChange \in Nat
      /\ \A b \in BOOLEAN : n.stamp[b][1] \in Nat /\ d.stamp[b][1] \in Nat
  BY <1>1, <1>2 DEF T!DepthObject
<1>4. d.lastPublished <= d.lastChange
  BY DEF T!Numbered
<1>5. ASSUME ~n.failed
      PROVE  /\ n.level = d.level \/ n.lastChange > d.lastChange
             /\ \A b \in BOOLEAN : T!Same(d, n, b, 1) \/ n.stamp[b][1] > d.lastChange
             /\ ~d.failed
  BY <1>2, <1>5
<1>6. ASSUME ~n.failed, ~D!Changed(n)
      PROVE  s = n.level
  <2>1. ~(n.lastChange > n.lastPublished)
    BY <1>6 DEF D!Changed
  <2>2. ~(n.lastChange > d.lastChange) /\ ~(d.lastChange > d.lastPublished)
    BY <1>2, <1>3, <1>4, <2>1
  <2>3. ~D!Changed(d) /\ n.level = d.level /\ ~d.failed
    BY <1>5, <1>6, <2>2 DEF D!Changed
  <2> QED
    BY <2>3 DEF Shown
<1>7. ASSUME ~n.failed, NEW b \in BOOLEAN, n.level[b][1] # best[b]
      PROVE  n.stamp[b][1] > n.lastPublished
  <2>1. CASE T!Same(d, n, b, 1)
    <3>1. d.level[b][1] # best[b] /\ n.stamp[b][1] = d.stamp[b][1] /\ ~d.failed
      BY <1>5, <1>7, <2>1 DEF T!Same
    <3> QED
      BY <1>2, <3>1 DEF Shown
  <2>2. CASE n.stamp[b][1] > d.lastChange
    BY <1>2, <1>3, <1>4, <2>2
  <2> QED
    BY <1>5, <1>7, <2>1, <2>2
<1> QED
  BY <1>6, <1>7 DEF Shown

(* on_order_book_change() shows what was not published. *)
LEMMA PublishedIsShown ==
  ASSUME NEW d, d \in T!DepthObject, T!Numbered(d), NEW n, n = D!Published(d),
         NEW s, NEW best, Shown(d, s, best),
         NEW t, t = d.level, NEW c, c = IF BestChanged(d) THEN Best(d) ELSE best
  PROVE  n \in T!DepthObject /\ T!Numbered(n) /\ ~D!Changed(n) /\ Shown(n, t, c)
<1>0. 1 \in 1..SIZE
  BY DepthBookAssumption DEF DepthBookAssumption
<1>1. n = T!Published(d)
  BY SameCalls
<1>2. /\ n \in T!DepthObject /\ T!Numbered(n)
      /\ n.level = d.level /\ n.stamp = d.stamp /\ n.failed = d.failed
      /\ n.lastChange = d.lastChange /\ n.lastPublished = d.lastChange
  BY <1>1, ClientAssumption, T!PublishedObject
<1>3. ~D!Changed(n)
  BY <1>2 DEF D!Changed, T!DepthObject
<1>4. ASSUME NEW b \in BOOLEAN, ~d.failed, d.level[b][1] # c[b]
      PROVE  n.stamp[b][1] > n.lastPublished
  <2>1. CASE BestChanged(d)
    <3>1. c[b] = d.level[b][1]
      BY <2>1 DEF Best, Side
    <3> QED
      BY <1>4, <3>1
  <2>2. CASE ~BestChanged(d)
    <3>1. d.stamp[b][1] > d.lastPublished
      BY <1>4, <2>2 DEF Shown
    <3> QED
      BY <2>2, <3>1 DEF BestChanged, Side
  <2> QED
    BY <2>1, <2>2
<1> QED
  BY <1>2, <1>3, <1>4 DEF Shown

LEMMA DeliveryShows ==
  ASSUME ListenInv, QuantitiesAreWords, PerformWithDepth
  PROVE  ListenInv'
<1>1. IInv'
  BY DeliveryIsSafe DEF ListenInv
<1>2. /\ Performed /\ pc = "deliver" /\ IInv /\ Outermost /\ order \in [Order -> SimpleOrder]
      /\ depth \in T!DepthObject /\ T!Numbered(depth) /\ Shown(depth, seen, seenBest)
  BY DEF ListenInv, PerformWithDepth, Performed, ShownTypes, IInv, TypeOK
<1>3. PICK q, d : q = Due /\ d = depth
  OBVIOUS
<1>4. /\ q \in Seq(Callback) /\ q # <<>> /\ Head(working) = Head(q)
      /\ Due' = Tail(q) /\ Outermost'
  BY <1>2, <1>3, FirstIsDelivered
<1>5. PICK cb \in Callback : cb = Head(q)
  BY <1>4
<1>6. /\ depth' = Heard(d, cb) /\ misled' \in BOOLEAN
      /\ IF cb.type = "book_update" /\ D!Changed(d)
         THEN /\ seen' = d.level
              /\ seenBest' = IF BestChanged(d) THEN Best(d) ELSE seenBest
         ELSE UNCHANGED <<seen, seenBest>>
  <2>1. cb = Head(working)
    BY <1>4, <1>5
  <2> QED
    BY <1>3, <2>1 DEF PerformWithDepth
<1>7. UpdateBehind(q, d)
  BY <1>2, <1>3 DEF ListenInv, UpdateFollows, Calm
<1>8. PICK n : n = depth'
  OBVIOUS
<1>9. ASSUME n \in T!DepthObject, T!Numbered(n), seen' \in [Side -> [1..SIZE -> D!Level]],
             seenBest' \in [Side -> D!Level], Shown(n, seen', seenBest'),
             UpdateBehind(Tail(q), n)
      PROVE  ListenInv'
  <2>1. ShownTypes'
    BY <1>6, <1>8, <1>9 DEF ShownTypes
  <2>2. UpdateFollows'
    BY <1>4, <1>8, <1>9 DEF UpdateFollows
  <2> QED
    BY <1>1, <1>4, <1>8, <1>9, <2>1, <2>2 DEF ListenInv
<1>10. seen \in [Side -> [1..SIZE -> D!Level]] /\ seenBest \in [Side -> D!Level]
  BY DEF ListenInv, ShownTypes
<1>11. CASE cb.type # "book_update"
  <2>1. n = Heard(d, cb) /\ UNCHANGED <<seen, seenBest>>
    BY <1>6, <1>8, <1>11
  <2>2. T!Marked(d, n)
    BY <1>2, <1>3, <1>11, <2>1, HeardMarks
  <2>3. n \in T!DepthObject /\ T!Numbered(n)
    BY <2>2 DEF T!Marked
  <2>4. PICK s, best : s = seen /\ best = seenBest
    OBVIOUS
  <2>5. Shown(n, s, best)
    BY <1>2, <1>3, <2>2, <2>4, ShownStill
  <2>6. cb.type \notin Moving => n = d
    BY <1>11, <2>1 DEF Heard, Moving
  <2>7. UpdateBehind(Tail(q), n)
    BY <1>4, <1>5, <1>7, <1>11, <2>6, UpdateBehindRest
  <2> QED
    BY <1>9, <1>10, <2>1, <2>3, <2>4, <2>5, <2>7
<1>12. CASE cb.type = "book_update" /\ D!Changed(d)
  <2>1. n = D!Published(d)
    BY <1>6, <1>8, <1>12 DEF Heard
  <2>2. PICK s, best, t, c : s = seen /\ best = seenBest /\ t = seen' /\ c = seenBest'
    OBVIOUS
  <2>3. t = d.level /\ c = IF BestChanged(d) THEN Best(d) ELSE best
    BY <1>6, <1>12, <2>2
  <2>4. n \in T!DepthObject /\ T!Numbered(n) /\ ~D!Changed(n) /\ Shown(n, t, c)
    BY <1>2, <1>3, <2>1, <2>2, <2>3, PublishedIsShown
  <2>5. UpdateBehind(Tail(q), n)
    BY <1>4, <1>7, <2>4, UpdateBehindRest
  <2>6. t \in [Side -> [1..SIZE -> D!Level]] /\ c \in [Side -> D!Level]
    <3>1. d \in D!DepthObject
      BY <1>2, <1>3, SameValues
    <3>2. d.level \in [Side -> [1..SIZE -> D!Level]] /\ 1 \in 1..SIZE
      BY <3>1, DepthBookAssumption DEF D!DepthObject, Side, DepthBookAssumption
    <3>3. Best(d) \in [Side -> D!Level]
      BY <3>2 DEF Best
    <3> QED
      BY <1>10, <2>2, <2>3, <3>2, <3>3
  <2> QED
    BY <1>9, <2>2, <2>4, <2>5, <2>6
<1>13. CASE cb.type = "book_update" /\ ~D!Changed(d)
  <2>1. n = d /\ UNCHANGED <<seen, seenBest>>
    BY <1>6, <1>8, <1>13 DEF Heard
  <2>2. UpdateBehind(Tail(q), n)
    BY <1>4, <1>7, <1>13, <2>1, UpdateBehindRest
  <2> QED
    BY <1>2, <1>3, <1>9, <1>10, <2>1, <2>2
<1> QED
  BY <1>11, <1>12, <1>13

-----------------------------------------------------------------------------
(* The theorems about the listeners *)

LEMMA InitListens ==
  ASSUME DepthInit
  PROVE  ListenInv
<1>0. 1 \in 1..SIZE
  BY DepthBookAssumption DEF DepthBookAssumption
<1>1. IInv
  BY InitIInv DEF DepthInit
<1>2. PICK d : d = depth
  OBVIOUS
<1>3. d = T!NewDepth /\ d = D!NewDepth
  BY <1>2, SameValues DEF DepthInit
<1>4. d \in T!DepthObject /\ T!Numbered(d) /\ ~T!Changed(d)
  BY <1>3, ClientAssumption, T!NewObject
<1>5. seen = d.level /\ seenBest = Best(d) /\ misled = FALSE
  BY <1>3 DEF DepthInit
<1>6. d.level \in [Side -> [1..SIZE -> D!Level]]
  <2>1. d \in D!DepthObject
    BY <1>4, SameValues
  <2> QED
    BY <2>1 DEF D!DepthObject, Side
<1>7. Best(d) \in [Side -> D!Level] /\ \A b \in BOOLEAN : Best(d)[b] = d.level[b][1]
  BY <1>0, <1>6 DEF Best, Side
<1>8. ShownTypes
  BY <1>2, <1>4, <1>5, <1>6, <1>7 DEF ShownTypes
<1>9. Shown(depth, seen, seenBest)
  BY <1>2, <1>5, <1>7 DEF Shown
<1>10. working = <<>> /\ callbacks = <<>> /\ ~handling /\ Due = <<>>
  BY DEF DepthInit, Init, Due
<1>11. ~D!Changed(d)
  BY <1>4, SameCalls
<1>12. UpdateFollows
  BY <1>2, <1>10, <1>11 DEF UpdateFollows, UpdateBehind
<1> QED
  BY <1>1, <1>8, <1>9, <1>10, <1>12 DEF ListenInv, Outermost

LEMMA NextListens ==
  ASSUME ListenInv, QuantitiesAreWords, [DepthNext]_bookVars
  PROVE  ListenInv'
<1>1. CASE PerformWithDepth
  BY <1>1, DeliveryShows
<1>2. CASE (MatchStep \/ AddOrderStep \/ PendingStep \/ Application) /\ UNCHANGED depthVars
  <2>1. [Next]_vars /\ UNCHANGED <<depth, seen, seenBest, misled>>
    BY <1>2 DEF Next, BookStep, depthVars
  <2>2. IInv'
    BY <2>1, NextKeepsIInv DEF ListenInv
  <2>3. Outermost' /\ UpdateFollows'
    BY <1>2, <2>1, UpdateStillFollows DEF ListenInv
  <2>4. ShownTypes' /\ Shown(depth, seen, seenBest)'
    BY <2>1 DEF ListenInv, ShownTypes, Shown
  <2> QED
    BY <2>2, <2>3, <2>4 DEF ListenInv
<1>3. CASE UNCHANGED bookVars
  <2>1. /\ UNCHANGED vars /\ UNCHANGED <<depth, seen, seenBest, misled>>
    BY <1>3 DEF bookVars, depthVars
  <2>2. IInv'
    BY <2>1, NextKeepsIInv DEF ListenInv
  <2>3. UNCHANGED <<working, callbacks, handling, pc>>
    BY <2>1 DEF vars
  <2>4. Outermost' /\ UpdateFollows' /\ ShownTypes' /\ Shown(depth, seen, seenBest)'
    BY <2>1, <2>3 DEF ListenInv, ShownTypes, Shown, Outermost, UpdateFollows, Calm, Due
  <2> QED
    BY <2>2, <2>4 DEF ListenInv
<1> QED
  BY <1>1, <1>2, <1>3 DEF DepthNext

LEMMA ListenersHold == DepthSpec /\ []QuantitiesAreWords => []ListenInv
<1>1. DepthInit => ListenInv
  BY InitListens
<1>2. ListenInv /\ QuantitiesAreWords /\ [DepthNext]_bookVars => ListenInv'
  BY NextListens
<1> QED
  BY <1>1, <1>2, PTL DEF DepthSpec

(* Whatever was delivered, and also after a callback misled the depth: it  *)
(* stays an object of its type, and what the listeners were shown too.     *)
THEOREM DepthBookIsTyped == DepthSpec /\ []QuantitiesAreWords => []DepthTypeOK
<1>1. ListenInv => DepthTypeOK
  BY SameValues DEF ListenInv, ShownTypes, DepthTypeOK, IInv
<1> QED
  BY <1>1, ListenersHold, PTL

(* When a call returns, the listeners of the depth have seen all levels as *)
(* they are, and those of the best bid and offer the first ones, however   *)
(* many callbacks and calls of listeners were between, and also after a    *)
(* callback misled the depth, until a call of it fails.                    *)
THEOREM ListenersSeeTheDepth == DepthSpec /\ []QuantitiesAreWords => []ListenersAreCurrent
<1>1. ASSUME ListenInv, Idle, ~depth.failed
      PROVE  seen = depth.level /\ seenBest = Best(depth)
  <2>0. 1 \in 1..SIZE
    BY DepthBookAssumption DEF DepthBookAssumption
  <2>1. callbacks = <<>> /\ working = <<>> /\ Due = <<>>
    BY <1>1 DEF ListenInv, Outermost, Idle, Due
  <2>2. ~D!Changed(depth)
    BY <1>1, <2>1 DEF ListenInv, UpdateFollows, Calm, Idle, UpdateBehind
  <2>3. PICK d : d = depth
    OBVIOUS
  <2>4. /\ d \in T!DepthObject /\ T!Numbered(d) /\ Shown(d, seen, seenBest)
        /\ seenBest \in [Side -> D!Level] /\ ~d.failed /\ ~D!Changed(d)
    BY <1>1, <2>2, <2>3 DEF ListenInv, ShownTypes
  <2>5. ASSUME NEW b \in BOOLEAN
        PROVE  d.level[b][1] = seenBest[b]
    <3>1. d.stamp[b][1] <= d.lastChange
      BY <2>0, <2>4 DEF T!Numbered
    <3>2. d.stamp[b][1] \in Nat /\ d.lastChange \in Nat /\ d.lastPublished \in Nat
      BY <2>0, <2>4 DEF T!DepthObject
    <3>3. ~(d.stamp[b][1] > d.lastPublished)
      BY <2>4, <3>1, <3>2 DEF D!Changed
    <3> QED
      BY <2>4, <3>3 DEF Shown
  <2>6. seen = d.level
    BY <2>4 DEF Shown
  <2>7. seenBest = Best(d)
    BY <2>4, <2>5 DEF Best, Side
  <2> QED
    BY <2>3, <2>6, <2>7
<1>2. ListenInv => ListenersAreCurrent
  BY <1>1 DEF ListenersAreCurrent
<1> QED
  BY <1>2, ListenersHold, PTL

===============================================================================
