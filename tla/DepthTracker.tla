---------------------------- MODULE DepthTracker ----------------------------
(***************************************************************************)
(* book::Depth with its DepthLevels: the orders of a market aggregated by  *)
(* price.  The best SIZE levels of a side are in a fixed array, the others *)
(* in a map of excess levels; a level moves between the two when one is    *)
(* inserted before it or erased before it.  Every change takes a number    *)
(* and is stamped on the levels it changes, so that a feed can send what   *)
(* changed since it last published.                                        *)
(*                                                                         *)
(* The member functions are operators on a record d, the object, so that   *)
(* one may call another and that other modules may hold a Depth.           *)
(***************************************************************************)
EXTENDS Integers, FiniteSets, FiniteSetsExt

CONSTANTS
  SIZE,  \* the levels of a side in the array
  Word   \* quantities are modulo this: 2^32 in the code

-----------------------------------------------------------------------------
(* Levels and where they are.  TRUE is the bid side. *)

INVALID_LEVEL_PRICE == 0
Quantity == 0..(Word - 1)

Level == [price : Nat, count : Nat, qty : Quantity]
Fresh(price) == [price |-> price, count |-> 0, qty |-> 0]
Blank == Fresh(INVALID_LEVEL_PRICE)

(* The stamps of excess levels are never read: they have none. *)
DepthObject == [level : [BOOLEAN -> [1..SIZE -> Level]],
                stamp : [BOOLEAN -> [1..SIZE -> Nat]],
                excess : [BOOLEAN -> SUBSET Level],
                lastChange : Nat, lastPublished : Nat,
                ignore : [BOOLEAN -> Quantity],
                failed : BOOLEAN]

NewDepth == [level |-> [buy \in BOOLEAN |-> [i \in 1..SIZE |-> Blank]],
             stamp |-> [buy \in BOOLEAN |-> [i \in 1..SIZE |-> 0]],
             excess |-> [buy \in BOOLEAN |-> {}],
             lastChange |-> 0, lastPublished |-> 0,
             ignore |-> [buy \in BOOLEAN |-> 0],
             failed |-> FALSE]

(* A call threw, or used a level that is not the one it meant. *)
Failed(d) == [d EXCEPT !.failed = TRUE]

Better(buy, p, q) == IF buy THEN p > q ELSE p < q

(* A pointer to a level: an index of the array of a side, or 0 for the     *)
(* excess level of that price.                                             *)
Loc(buy, at, price) == [buy |-> buy, at |-> at, price |-> price]

(* past_end: behind the bids come the asks, behind the asks nothing. *)
PastEnd(buy, price) == Loc(FALSE, IF buy THEN 1 ELSE SIZE + 1, price)

At(d, loc) ==
  IF loc.at > 0 THEN d.level[loc.buy][loc.at]
  ELSE CHOOSE e \in d.excess[loc.buy] : e.price = loc.price

Put(d, loc, l) ==
  IF loc.at > 0 THEN [d EXCEPT !.level[loc.buy][loc.at] = l]
  ELSE [d EXCEPT !.excess[loc.buy] = (@ \ {At(d, loc)}) \cup {l}]

(* Mutant of Touch: ++ is missing. *)
TouchUncounted(d, loc) ==
  IF loc.at > 0 THEN [d EXCEPT !.stamp[loc.buy][loc.at] = d.lastChange] ELSE d

(* ++last_change_, stamped on the level. *)
Touch(d, loc) ==
  LET n == [d EXCEPT !.lastChange = @ + 1]
  IN  IF loc.at > 0 THEN [n EXCEPT !.stamp[loc.buy][loc.at] = n.lastChange] ELSE n

(* Mutant of InsertExcess: what does not fit is dropped. *)
InsertExcessDrops(E, l) == E

(* std::map::insert keeps what is there. *)
InsertExcess(E, l) == IF \E e \in E : e.price = l.price THEN E ELSE E \cup {l}

ExcessHas(d, buy, price) == \E e \in d.excess[buy] : e.price = price

(* find_level() without should_create. *)
Find(d, buy, price) ==
  LET found == {i \in 1..SIZE : d.level[buy][i].price = price}
  IN  CASE found # {} -> Loc(buy, Min(found), price)
        [] found = {} /\ ExcessHas(d, buy, price) -> Loc(buy, 0, price)
        [] OTHER -> PastEnd(buy, price)

-----------------------------------------------------------------------------
(* Levels come and go. *)

(* insert_level_before(): the last level becomes an excess one. *)
InsertBefore(d, buy, at, price) ==
  LET old == d.level[buy]
      now == d.lastChange + 1
  IN  [d EXCEPT
        !.lastChange = now,
        !.excess[buy] = IF old[SIZE].price = INVALID_LEVEL_PRICE THEN @
                        ELSE InsertExcess(@, old[SIZE]),
        !.level[buy] = [i \in 1..SIZE |-> CASE i < at -> old[i]
                                            [] i = at -> Fresh(price)
                                            [] i > at -> old[i - 1]],
        !.stamp[buy] = [i \in 1..SIZE |->
          IF i > at /\ old[i - 1].price # INVALID_LEVEL_PRICE THEN now ELSE @[i]]]

(* Mutant of WithLevel: a better price is not inserted before the others. *)
WithLevelAppended(d, buy, price) ==
  LET slots == {i \in 1..SIZE : d.level[buy][i].price \in {price, INVALID_LEVEL_PRICE}}
      at == Min(slots)
  IN  CASE slots = {} /\ ExcessHas(d, buy, price) -> d
        [] slots = {} /\ ~ExcessHas(d, buy, price) ->
             [d EXCEPT !.excess[buy] = @ \cup {Fresh(price)}]
        [] OTHER -> [d EXCEPT !.level[buy][at].price = price]

(* find_level() with should_create: the object in which the price has a    *)
(* level.                                                                  *)
WithLevel(d, buy, price) ==
  LET slots == {i \in 1..SIZE :
                  LET p == d.level[buy][i].price
                  IN  p \in {price, INVALID_LEVEL_PRICE} \/ Better(buy, price, p)}
      at == Min(slots)
  IN  CASE slots = {} /\ ExcessHas(d, buy, price) -> d
        [] slots = {} /\ ~ExcessHas(d, buy, price) ->
             [d EXCEPT !.excess[buy] = @ \cup {Fresh(price)}]
        [] slots # {} /\ d.level[buy][at].price = price -> d
        [] slots # {} /\ d.level[buy][at].price # price
             /\ d.level[buy][at].price = INVALID_LEVEL_PRICE ->
             [d EXCEPT !.level[buy][at] = Fresh(price)]
        [] OTHER -> InsertBefore(d, buy, at, price)

(* Mutant of BestExcess: the map is sorted the other way round. *)
WorstExcess(E, buy) == {e \in E : \A f \in E \ {e} : Better(buy, f.price, e.price)}

(* begin() of the map, if there is one. *)
BestExcess(E, buy) == {e \in E : \A f \in E \ {e} : Better(buy, e.price, f.price)}

(* erase_level(): the levels behind it move up and the best excess level   *)
(* fills the gap.                                                          *)
Erase(d, buy, loc) ==
  LET old == d.level[buy]
      now == d.lastChange + 1
      moved == IF loc.buy = buy THEN {i \in loc.at..(SIZE - 1) :
                    i = loc.at \/ old[i].price # INVALID_LEVEL_PRICE}
               ELSE {}
      refill == (loc.buy = buy /\ loc.at = SIZE) \/ old[SIZE].price # INVALID_LEVEL_PRICE
      best == BestExcess(d.excess[buy], buy)
      last == IF best = {} THEN Blank ELSE CHOOSE e \in best : TRUE
  IN  IF loc.at = 0 THEN [d EXCEPT !.excess[buy] = {e \in @ : e.price # loc.price}]
      ELSE [d EXCEPT
             !.lastChange = now,
             !.level[buy] = [i \in 1..SIZE |-> CASE i \in moved -> old[i + 1]
                                                 [] i = SIZE /\ refill -> last
                                                 [] OTHER -> old[i]],
             !.stamp[buy] = [i \in 1..SIZE |->
               IF i \in moved \/ (i = SIZE /\ refill) THEN now ELSE @[i]],
             !.excess[buy] = IF refill THEN @ \ best ELSE @]

-----------------------------------------------------------------------------
(* The public member functions *)

(* An excess level that is added to takes no number. *)
AddOrder(d, buy, price, qty) ==
  LET n == WithLevel(d, buy, price)
      loc == Find(n, buy, price)
      l == At(n, loc)
      added == Put(n, loc, [l EXCEPT !.count = @ + 1, !.qty = (@ + qty) % Word])
      now == d.lastChange + 1
  IN  IF loc.at = 0 THEN added
      ELSE [added EXCEPT !.lastChange = now, !.stamp[buy][loc.at] = now]

(* The level of a price that must be there. *)
Missing(loc, buy) == loc.buy # buy \/ loc.at > SIZE
Checked(d, loc, buy) == IF Missing(loc, buy) THEN Failed(d) ELSE d

(* DepthLevel::close_order() throws when there is no order or too little   *)
(* quantity to close.                                                      *)
CloseOrder(d, buy, price, qty) ==
  LET loc == Find(d, buy, price)
      l == At(d, loc)
      n == Checked(d, loc, buy)
  IN  IF loc.at > SIZE \/ l.count = 0 THEN Failed(d)
      ELSE CASE l.count = 1 -> Erase(Put(n, loc, Fresh(l.price)), buy, loc)
             [] l.count > 1 /\ l.qty >= qty ->
                  Touch(Put(n, loc, [l EXCEPT !.count = @ - 1, !.qty = @ - qty]), loc)
             [] OTHER -> Failed(Put(n, loc, [l EXCEPT !.count = @ - 1]))

(* Mutant of ChangeQtyOrder: the quantity is not kept in an unsigned word. *)
ChangeQtyOrderSigned(d, buy, price, delta) ==
  LET loc == Find(d, buy, price)
      l == At(d, loc)
  IN  IF delta = 0 \/ loc.at > SIZE THEN d
      ELSE Touch(Put(d, loc, [l EXCEPT !.qty = @ + delta]), loc)

ChangeQtyOrder(d, buy, price, delta) ==
  LET loc == Find(d, buy, price)
      l == At(d, loc)
  IN  CASE delta = 0 -> d
        [] delta # 0 /\ loc.at > SIZE -> Failed(d)
        [] OTHER -> Touch(Put(Checked(d, loc, buy), loc,
                              [l EXCEPT !.qty = (@ + delta) % Word]), loc)

(* Mutant of ReplaceOrder: the new quantity leaves the old price. *)
ReplaceOrderNewQty(d, buy, price, newPrice, qty, newQty) ==
  IF price = newPrice THEN ChangeQtyOrder(d, buy, price, newQty - qty)
  ELSE CloseOrder(AddOrder(d, buy, newPrice, newQty), buy, price, newQty)

(* A move adds before it closes. *)
ReplaceOrder(d, buy, price, newPrice, qty, newQty) ==
  IF price = newPrice THEN ChangeQtyOrder(d, buy, price, newQty - qty)
  ELSE CloseOrder(AddOrder(d, buy, newPrice, newQty), buy, price, qty)

(* The fills of an order that was never added are to be ignored. *)
IgnoreFillQty(d, buy, qty) ==
  IF d.ignore[buy] # 0 THEN Failed(d) ELSE [d EXCEPT !.ignore[buy] = qty]

FillOrder(d, buy, price, qty, filled) ==
  CASE d.ignore[buy] # 0 -> [d EXCEPT !.ignore[buy] = (@ - qty) % Word]
    [] d.ignore[buy] = 0 /\ filled -> CloseOrder(d, buy, price, qty)
    [] OTHER -> ChangeQtyOrder(d, buy, price, -qty)

Published(d) == [d EXCEPT !.lastPublished = d.lastChange]

Changed(d) == d.lastChange > d.lastPublished

(* What the object holds at a price, in the array or among the excess. *)
LevelTotal(d, buy, price) ==
  LET loc == Find(d, buy, price)
      l == At(d, loc)
  IN  IF loc = PastEnd(buy, price) THEN [count |-> 0, qty |-> 0]
      ELSE [count |-> l.count, qty |-> l.qty]
=============================================================================
