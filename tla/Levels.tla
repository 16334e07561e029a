------------------------------- MODULE Levels -------------------------------
(***************************************************************************)
(* What an aggregated market depth promises, without arrays, excess maps   *)
(* and change numbers: total says how many orders there are at each price  *)
(* of each side and what they add up to, and view always shows the best    *)
(* SIZE of the prices that have orders, the best one first.                *)
(***************************************************************************)
EXTENDS Integers

CONSTANTS
  SIZE,       \* how many levels of a side are shown
  Prices,     \* the prices of limit orders
  Quantities  \* the quantities of orders

VARIABLES total, view

levelsVars == <<total, view>>

Blank == [price |-> 0, count |-> 0, qty |-> 0]

(* Price p of a side is better than price q: the order of the levels. *)
Better(buy, p, q) == IF buy THEN p > q ELSE p < q

(* view is what there is to see of the totals t. *)
Shows(v, t, buy) ==
  /\ \A i \in 1..SIZE :
       \/ v[i] = Blank
       \/ /\ v[i].price \in Prices
          /\ v[i].count > 0
          /\ t[v[i].price] = [count |-> v[i].count, qty |-> v[i].qty]
  /\ \A i, j \in 1..SIZE :
       i < j /\ v[j] # Blank => v[i] # Blank /\ Better(buy, v[i].price, v[j].price)
  /\ \A p \in Prices :
       t[p].count > 0 => \/ \E i \in 1..SIZE : v[i].price = p
                         \/ \A i \in 1..SIZE : v[i] # Blank /\ Better(buy, v[i].price, p)

Nothing == [p \in Prices |-> [count |-> 0, qty |-> 0]]

LevelsInit ==
  /\ total = [buy \in BOOLEAN |-> Nothing]
  /\ view = [buy \in BOOLEAN |-> [i \in 1..SIZE |-> Blank]]

(* The totals of a side after an order enters, leaves, trades or changes   *)
(* its size, or moves to another price.                                    *)
Entered(t, p, q) == [t EXCEPT ![p] = [count |-> @.count + 1, qty |-> @.qty + q]]
Left(t, p, q) == [t EXCEPT ![p] = [count |-> @.count - 1, qty |-> @.qty - q]]
Resized(t, p, q, r) == [t EXCEPT ![p].qty = @ - q + r]
Moved(t, p, q, p2, r) == Left(Entered(t, p2, r), p, q)

(* One call changes the totals of one side, and the view goes with them.   *)
(* (The two values are named by quantifiers so that TLC evaluates them     *)
(* once.)                                                                  *)
Called(t, u) ==
  \E p \in Prices, q \in Quantities :
    \/ u = Entered(t, p, q)
    \/ u = Left(t, p, q)
    \/ \E r \in Quantities : u = Resized(t, p, q, r)
    \/ \E p2 \in Prices \ {p}, r \in Quantities : u = Moved(t, p, q, p2, r)

LevelsNext ==
  \E t \in {total}, u \in {total'} :
    /\ \E buy \in BOOLEAN : Called(t[buy], u[buy]) /\ u[~buy] = t[~buy]
    /\ \A buy \in BOOLEAN : Shows(view'[buy], u[buy], buy)

LevelsSpec == LevelsInit /\ [][LevelsNext]_levelsVars
=============================================================================
