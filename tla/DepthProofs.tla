----------------------------- MODULE DepthProofs -----------------------------
(***************************************************************************)
(* What holds of Depth for every number of levels, prices and quantities:  *)
(* the levels stay in order, and no change escapes the change numbers;     *)
(* what the array and the excess map hold at a price is what the open      *)
(* orders there add up to, no call fails, and each is one of Levels.       *)
(***************************************************************************)
EXTENDS Depth, SumLemmas, WellFoundedInduction, TLAPS

-----------------------------------------------------------------------------
(* Least and greatest numbers *)

LEMMA LeastNatural ==
  ASSUME NEW S \in SUBSET Nat, S # {}
  PROVE  \E m \in S : \A k \in S : m <= k
<1>1. IsWellFoundedOn(OpToRel(<, Nat), Nat)
  BY NatLessThanWellFounded
<1>2. PICK m \in S : \A k \in S : ~(<<k, m>> \in OpToRel(<, Nat))
  BY <1>1, WFMin
<1>3. ASSUME NEW k \in S
      PROVE  m <= k
  <2>1. ~(k < m)
    BY <1>2 DEF OpToRel
  <2> QED BY <2>1
<1> QED BY <1>2, <1>3

LEMMA GreatestNatural ==
  ASSUME NEW S \in SUBSET Nat, S # {},
         NEW n \in Nat, \A k \in S : k <= n
  PROVE  \E m \in S : \A k \in S : k <= m
<1> DEFINE Bounds == {b \in Nat : \A k \in S : k <= b}
<1>1. PICK b \in Bounds : \A c \in Bounds : b <= c
  BY LeastNatural
<1>2. b \in S
  <2> SUFFICES ASSUME b \notin S PROVE FALSE
    OBVIOUS
  <2>1. \A k \in S : k < b
    BY <1>1
  <2>2. b > 0 /\ b - 1 \in Nat
    <3>1. PICK k \in S : TRUE
      OBVIOUS
    <3>2. k \in Nat /\ b \in Nat /\ k < b
      BY <2>1
    <3> QED BY <3>2
  <2>3. b - 1 \in Bounds
    BY <2>1, <2>2
  <2> QED BY <1>1, <2>3
<1> QED BY <1>1, <1>2

LEMMA MinIsLeast ==
  ASSUME NEW S \in SUBSET Nat, S # {}
  PROVE  Min(S) \in S /\ \A k \in S : Min(S) <= k
BY LeastNatural DEF Min

LEMMA ModuloIsQuantity ==
  ASSUME NEW q \in Int
  PROVE  q % Word \in Quantity
BY DepthAssumption DEF DepthAssumption, Quantity

-----------------------------------------------------------------------------
(* The array and the excess map of one side *)

Array == [1..SIZE -> Level]
Stamps == [1..SIZE -> Nat]

(* The prices of the excess levels are valid, and have an upper bound:     *)
(* with it the best one exists on the bid side too.                        *)
BoundedBy(E, n) == \A e \in E : 0 < e.price /\ e.price <= n

(* begin() of a map that is not empty is one level, better than the rest.  *)
LEMMA BestIsOne ==
  ASSUME NEW buy \in BOOLEAN, NEW E \in SUBSET Level, E # {},
         \A e, f \in E : e.price = f.price => e = f,
         NEW n \in Nat, BoundedBy(E, n)
  PROVE  \E b \in E : /\ BestExcess(E, buy) = {b}
                      /\ \A e \in E \ {b} : Better(buy, b.price, e.price)
<1> DEFINE P == {e.price : e \in E}
<1>1. P \in SUBSET Nat /\ P # {} /\ \A p \in P : p <= n
  BY DEF Level, BoundedBy
<1> HIDE DEF P
<1>2. \E p \in P : \A q \in P \ {p} : Better(buy, p, q)
  <2>1. CASE buy
    <3>1. PICK p \in P : \A q \in P : q <= p
      BY <1>1, GreatestNatural
    <3>2. \A q \in P \ {p} : q < p
      BY <1>1, <3>1
    <3> QED BY <2>1, <3>2 DEF Better
  <2>2. CASE ~buy
    <3>1. PICK p \in P : \A q \in P : p <= q
      BY <1>1, LeastNatural
    <3>2. \A q \in P \ {p} : p < q
      BY <1>1, <3>1
    <3> QED BY <2>2, <3>2 DEF Better
  <2> QED BY <2>1, <2>2
<1>3. PICK b \in E : \A q \in P \ {b.price} : Better(buy, b.price, q)
  BY <1>2 DEF P
<1>4. \A e \in E \ {b} : Better(buy, b.price, e.price)
  BY <1>3 DEF P
<1>5. \A e \in E \ {b} : ~Better(buy, e.price, b.price)
  BY <1>4 DEF Better, Level
<1>6. BestExcess(E, buy) = {b}
  BY <1>4, <1>5 DEF BestExcess
<1> QED BY <1>4, <1>6

(* Order is a matter of the prices. *)
LEMMA OrderedByPrices ==
  ASSUME NEW buy \in BOOLEAN, NEW L \in Array, NEW E \in SUBSET Level, Ordered(L, E, buy),
         NEW M \in Array, \A i \in 1..SIZE : M[i].price = L[i].price
  PROVE  Ordered(M, E, buy)
BY DEF Ordered

(* A level of the excess is changed in place. *)
LEMMA OrderedExcessPut ==
  ASSUME NEW buy \in BOOLEAN, NEW L \in Array, NEW E \in SUBSET Level, Ordered(L, E, buy),
         NEW e \in E, NEW f \in Level, f.price = e.price
  PROVE  Ordered(L, (E \ {e}) \cup {f}, buy)
BY DEF Ordered

(* A new excess level. *)
LEMMA OrderedExcessAdd ==
  ASSUME NEW buy \in BOOLEAN, NEW L \in Array, NEW E \in SUBSET Level, Ordered(L, E, buy),
         NEW f \in Level, \A e \in E : e.price # f.price,
         \A i \in 1..SIZE : L[i].price # INVALID_LEVEL_PRICE /\ Better(buy, L[i].price, f.price)
  PROVE  Ordered(L, E \cup {f}, buy)
BY DEF Ordered

(* `at` is where a new level for the price belongs: the levels before it   *)
(* are better, and those from it on are blank or worse.                    *)
Place(L, buy, at, price) ==
  /\ \A i \in 1..SIZE : i < at => Better(buy, L[i].price, price) /\ L[i].price # 0
  /\ L[at].price = INVALID_LEVEL_PRICE \/ Better(buy, price, L[at].price)

(* A blank level is filled. *)
LEMMA OrderedFill ==
  ASSUME NEW buy \in BOOLEAN, NEW L \in Array, NEW E \in SUBSET Level, Ordered(L, E, buy),
         NEW at, at \in 1..SIZE, L[at].price = INVALID_LEVEL_PRICE,
         NEW price, price \in Nat \ {0}, Place(L, buy, at, price),
         NEW M \in Array, M[at].price = price,
         \A i \in 1..SIZE : i # at => M[i] = L[i]
  PROVE  Ordered(M, E, buy)
<1>1. E = {}
  BY DEF Ordered
<1>2. \A i \in 1..SIZE : i > at => L[i].price = 0
  BY DEF Ordered, INVALID_LEVEL_PRICE
<1> QED BY <1>1, <1>2 DEF Ordered, Place, INVALID_LEVEL_PRICE

(* insert_level_before(): the levels from `at` on move down by one. *)
Inserted(L, at, price) ==
  [i \in 1..SIZE |-> CASE i < at -> L[i]
                       [] i = at -> Fresh(price)
                       [] i > at -> L[i - 1]]

Pushed(L, E) ==
  IF L[SIZE].price = INVALID_LEVEL_PRICE THEN E ELSE InsertExcess(E, L[SIZE])

LEMMA FreshIsLevel ==
  ASSUME NEW price \in Nat
  PROVE  Fresh(price) \in Level /\ Fresh(price).price = price
<1>1. 0 \in Quantity
  BY DepthAssumption DEF DepthAssumption, Quantity
<1> QED BY <1>1 DEF Fresh, Level

LEMMA OrderedInsert ==
  ASSUME NEW buy \in BOOLEAN, NEW L \in Array, NEW E \in SUBSET Level, Ordered(L, E, buy),
         NEW at, at \in 1..SIZE, NEW price, price \in Nat \ {0},
         L[at].price # INVALID_LEVEL_PRICE, Place(L, buy, at, price),
         NEW M, M = Inserted(L, at, price),
         NEW F, F = Pushed(L, E)
  PROVE  M \in Array /\ F \in SUBSET Level /\ Ordered(M, F, buy)
<1>0. SIZE \in Nat \ {0} /\ SIZE \in 1..SIZE
  BY DepthAssumption DEF DepthAssumption
<1>a. /\ \A i \in 1..SIZE : i < at => M[i] = L[i]
      /\ M[at] = Fresh(price)
      /\ \A i \in 1..SIZE : i > at => M[i] = L[i - 1]
  BY <1>0 DEF Inserted
<1>b. M \in Array
  <2>1. \A i \in 1..SIZE : M[i] \in Level
    <3> SUFFICES ASSUME NEW i \in 1..SIZE
                 PROVE  M[i] \in Level
      OBVIOUS
    <3>1. CASE i < at
      BY <1>a, <3>1 DEF Array
    <3>2. CASE i = at
      BY <1>a, <3>2, FreshIsLevel
    <3>3. CASE i > at
      <4>1. i - 1 \in 1..SIZE
        BY <1>0, <3>3
      <4> QED BY <1>a, <3>3, <4>1 DEF Array
    <3> QED BY <1>0, <3>1, <3>2, <3>3
  <2>2. M = [i \in 1..SIZE |-> M[i]]
    BY DEF Inserted
  <2> QED BY <2>1, <2>2 DEF Array
<1>c. F \in SUBSET Level
  BY <1>0 DEF Pushed, InsertExcess, Array
<1>d. /\ Better(buy, price, L[at].price)
      /\ \A i \in 1..SIZE : i < at => Better(buy, L[i].price, price) /\ L[i].price # 0
      /\ \A i \in 1..SIZE : i < at => M[i].price = L[i].price
      /\ M[at].price = price
      /\ \A i \in 1..SIZE : i > at => M[i].price = L[i - 1].price
  BY <1>a, FreshIsLevel DEF Place
<1>1. \A i \in 1..SIZE : L[i].price \in Nat /\ M[i].price \in Nat
  BY <1>b DEF Array, Level
<1>2. ASSUME NEW i \in 1..SIZE, NEW j \in 1..SIZE, i < j, M[j].price # 0
      PROVE  M[i].price # 0 /\ Better(buy, M[i].price, M[j].price)
  <2>1. CASE j <= at
    <3>1. i < at
      BY <1>2, <2>1
    <3>2. CASE j = at
      BY <1>d, <3>1, <3>2
    <3>3. CASE j < at
      BY <1>d, <1>2, <3>1, <3>3 DEF Ordered, INVALID_LEVEL_PRICE
    <3> QED BY <2>1, <3>2, <3>3
  <2>2. CASE j > at /\ i # at
    <3>1. \E k \in 1..SIZE : k < j - 1 /\ M[i].price = L[k].price
      <4>1. CASE i < at
        BY <1>d, <4>1, <2>2, <1>2
      <4>2. CASE i > at
        <5>1. i - 1 \in 1..SIZE /\ i - 1 < j - 1
          BY <1>0, <1>2, <4>2
        <5> QED BY <1>d, <4>2, <5>1
      <4> QED BY <2>2, <4>1, <4>2
    <3>2. j - 1 \in 1..SIZE /\ M[j].price = L[j - 1].price
      BY <1>d, <2>2, <1>0
    <3> QED BY <1>2, <3>1, <3>2 DEF Ordered, INVALID_LEVEL_PRICE
  <2>3. CASE j > at /\ i = at
    <3>1. j - 1 \in 1..SIZE /\ M[j].price = L[j - 1].price
      BY <1>d, <2>3, <1>0
    <3>2. j - 1 = at \/ Better(buy, L[at].price, L[j - 1].price)
      BY <1>2, <2>3, <3>1 DEF Ordered, INVALID_LEVEL_PRICE
    <3> QED BY <1>1, <1>d, <2>3, <3>1, <3>2 DEF Better
  <2> QED BY <2>1, <2>2, <2>3
<1>3. CASE L[SIZE].price = INVALID_LEVEL_PRICE
  <2>1. F = E /\ E = {}
    BY <1>0, <1>3 DEF Ordered, Pushed
  <2> QED BY <1>b, <1>c, <1>2, <2>1 DEF Ordered, INVALID_LEVEL_PRICE
<1>4. CASE L[SIZE].price # INVALID_LEVEL_PRICE
  <2>1. \A e \in E : e.price # L[SIZE].price
    BY <1>0, <1>1 DEF Ordered, Better, Level
  <2>2. F = E \cup {L[SIZE]}
    BY <1>4, <2>1 DEF InsertExcess, Pushed
  <2>3. \A i \in 1..SIZE : L[i].price # 0
    BY <1>0, <1>4 DEF Ordered, INVALID_LEVEL_PRICE
  <2>4. ASSUME NEW i \in 1..SIZE
        PROVE  M[i].price # 0 /\ Better(buy, M[i].price, L[SIZE].price)
    <3>1. CASE i < at
      BY <1>0, <1>d, <3>1, <2>3, <1>4 DEF Ordered
    <3>2. CASE i = at
      <4>1. at = SIZE \/ Better(buy, L[at].price, L[SIZE].price)
        BY <1>0, <1>4 DEF Ordered
      <4> QED BY <1>0, <1>1, <1>d, <3>2, <4>1 DEF Better
    <3>3. CASE i > at
      <4>1. i - 1 \in 1..SIZE /\ i - 1 < SIZE /\ M[i].price = L[i - 1].price
        BY <1>0, <1>d, <3>3
      <4> QED BY <1>0, <1>4, <2>3, <4>1 DEF Ordered
    <3> QED BY <3>1, <3>2, <3>3
  <2>5. ASSUME NEW e \in E, NEW i \in 1..SIZE
        PROVE  Better(buy, M[i].price, e.price)
    <3>1. Better(buy, L[SIZE].price, e.price)
      BY <1>0 DEF Ordered
    <3>2. e.price \in Nat /\ L[SIZE].price \in Nat /\ M[i].price \in Nat
      BY <1>0, <1>1 DEF Level
    <3> QED BY <2>4, <3>1, <3>2 DEF Better
  <2> QED BY <1>b, <1>c, <1>2, <2>1, <2>2, <2>4, <2>5 DEF Ordered, INVALID_LEVEL_PRICE
<1> QED BY <1>b, <1>c, <1>3, <1>4

(* The array M is L after erase_level(): the levels behind `at` are moved   *)
(* up by one, and the best excess level is in the last place.              *)
Erased(L, M, E, buy, at) ==
  /\ \A i \in 1..SIZE : i < at => M[i].price = L[i].price
  /\ \A i \in 1..SIZE : at <= i /\ i < SIZE => M[i].price = L[i + 1].price
  /\ E = {} => M[SIZE].price = INVALID_LEVEL_PRICE
  /\ E # {} => \E b \in BestExcess(E, buy) : M[SIZE].price = b.price

LEMMA OrderedErase ==
  ASSUME NEW buy \in BOOLEAN, NEW L \in Array, NEW E \in SUBSET Level, Ordered(L, E, buy),
         NEW n, n \in Nat, BoundedBy(E, n),
         NEW at, at \in 1..SIZE, NEW M \in Array, Erased(L, M, E, buy, at)
  PROVE  Ordered(M, E \ BestExcess(E, buy), buy)
<1>0. SIZE \in Nat \ {0} /\ SIZE \in 1..SIZE
  BY DepthAssumption DEF DepthAssumption
<1>1. \A i \in 1..SIZE : L[i].price \in Nat /\ M[i].price \in Nat
  BY DEF Array, Level
<1> DEFINE old(i) == IF i < at THEN i ELSE i + 1
<1>2. \A i \in 1..SIZE : i < SIZE => old(i) \in 1..SIZE /\ M[i].price = L[old(i)].price
  BY <1>0 DEF Erased
<1>3. \A i, j \in 1..SIZE : i < j => old(i) < old(j)
  BY <1>0
<1> HIDE DEF old
<1>4. ASSUME NEW i \in 1..SIZE, NEW j \in 1..SIZE, i < j, j < SIZE, M[j].price # 0
      PROVE  M[i].price # 0 /\ Better(buy, M[i].price, M[j].price)
  BY <1>0, <1>2, <1>3, <1>4 DEF Ordered, INVALID_LEVEL_PRICE
<1>5. CASE E = {}
  BY <1>0, <1>4, <1>5 DEF Ordered, Erased, INVALID_LEVEL_PRICE
<1>6. CASE E # {}
  <2>1. PICK b \in E : /\ BestExcess(E, buy) = {b}
                       /\ \A e \in E \ {b} : Better(buy, b.price, e.price)
    <3>1. \A e, f \in E : e.price = f.price => e = f
      BY DEF Ordered
    <3> QED BY <1>6, <3>1, BestIsOne
  <2>2. M[SIZE].price = b.price
    BY <1>6, <2>1 DEF Erased
  <2>3. \A i \in 1..SIZE, e \in E : L[i].price # 0 /\ Better(buy, L[i].price, e.price)
    BY DEF Ordered, INVALID_LEVEL_PRICE
  <2>4. b.price # 0
    BY DEF BoundedBy
  <2>5. \A i \in 1..SIZE : i < SIZE => Better(buy, M[i].price, M[SIZE].price)
    BY <1>2, <2>2, <2>3
  <2>6. \A i \in 1..SIZE : M[i].price # 0
    BY <1>0, <1>2, <2>2, <2>3, <2>4
  <2>7. ASSUME NEW e \in E \ {b}, NEW i \in 1..SIZE
        PROVE  Better(buy, M[i].price, e.price)
    <3>1. CASE i = SIZE
      BY <2>1, <2>2, <3>1
    <3>2. CASE i # SIZE
      BY <1>0, <1>2, <2>3, <3>2
    <3> QED BY <3>1, <3>2
  <2>8. \A i, j \in 1..SIZE : i < j => Better(buy, M[i].price, M[j].price)
    <3> SUFFICES ASSUME NEW i \in 1..SIZE, NEW j \in 1..SIZE, i < j
                 PROVE  Better(buy, M[i].price, M[j].price)
      OBVIOUS
    <3>1. CASE j = SIZE
      BY <2>5, <3>1
    <3>2. CASE j # SIZE
      BY <1>0, <1>4, <2>6, <3>2
    <3> QED BY <3>1, <3>2
  <2> QED BY <2>1, <2>6, <2>7, <2>8 DEF Ordered, INVALID_LEVEL_PRICE
<1> QED BY <1>5, <1>6

-----------------------------------------------------------------------------
(* The object *)

(* The levels without a price are blank. *)
Blanked(L) == \A i \in 1..SIZE : L[i].price = INVALID_LEVEL_PRICE => L[i] = Blank

(* The object is well-formed on both sides. *)
Structure(d) ==
  /\ d \in DepthObject
  /\ \A buy \in BOOLEAN : Ordered(d.level[buy], d.excess[buy], buy)
  /\ \A buy \in BOOLEAN : \E n \in Nat : BoundedBy(d.excess[buy], n)
  /\ d.failed \/ \A buy \in BOOLEAN : Blanked(d.level[buy])

(* No stamp is ahead of the change number. *)
Numbered(d) ==
  /\ d.lastPublished <= d.lastChange
  /\ \A buy \in BOOLEAN, i \in 1..SIZE : d.stamp[buy][i] <= d.lastChange

(* The level at i is the same in d and n, with its stamp. *)
Same(d, n, buy, i) ==
  n.level[buy][i] = d.level[buy][i] /\ n.stamp[buy][i] = d.stamp[buy][i]

(* What changes from d to n takes a later number, unless a call fails. *)
Advances(d, n) ==
  /\ n.lastPublished = d.lastPublished
  /\ n.lastChange >= d.lastChange
  /\ d.failed => n.failed
  /\ \A buy \in BOOLEAN, i \in 1..SIZE :
       n.failed \/ Same(d, n, buy, i) \/ n.stamp[buy][i] > d.lastChange

(* A pointer to a level that is there. *)
ValidLoc(d, loc) ==
  /\ loc = Loc(loc.buy, loc.at, loc.price) /\ loc.buy \in BOOLEAN /\ loc.at \in 0..SIZE
  /\ loc.at = 0 => ExcessHas(d, loc.buy, loc.price)

LEMMA ObjectFields ==
  ASSUME NEW d \in DepthObject, NEW buy \in BOOLEAN
  PROVE  /\ d.level[buy] \in Array
         /\ d.stamp[buy] \in [1..SIZE -> Nat]
         /\ d.excess[buy] \in SUBSET Level
         /\ d.lastChange \in Nat /\ d.lastPublished \in Nat
         /\ d.failed \in BOOLEAN
         /\ d.ignore[buy] \in Quantity
BY DEF DepthObject, Array

LEMMA AdvancesTwice ==
  ASSUME NEW d \in DepthObject, NEW e \in DepthObject, NEW n \in DepthObject,
         Advances(d, e), Advances(e, n)
  PROVE  Advances(d, n)
<1>1. d.lastChange \in Nat /\ e.lastChange \in Nat /\ n.lastChange \in Nat
  BY DEF DepthObject
<1>2. ASSUME NEW buy \in BOOLEAN, NEW i \in 1..SIZE
      PROVE  n.failed \/ Same(d, n, buy, i) \/ n.stamp[buy][i] > d.lastChange
  <2>1. n.stamp[buy][i] \in Nat /\ e.stamp[buy][i] \in Nat
    BY DEF DepthObject
  <2> QED BY <1>1, <2>1 DEF Advances, Same
<1> QED BY <1>1, <1>2 DEF Advances

LEMMA AtIsLevel ==
  ASSUME NEW d \in DepthObject, NEW loc, ValidLoc(d, loc)
  PROVE  /\ At(d, loc) \in Level
         /\ loc.at = 0 => At(d, loc) \in d.excess[loc.buy] /\ At(d, loc).price = loc.price
<1>1. CASE loc.at = 0
  <2>1. At(d, loc) = CHOOSE e \in d.excess[loc.buy] : e.price = loc.price
    BY <1>1 DEF At
  <2>2. \E e \in d.excess[loc.buy] : e.price = loc.price
    BY <1>1 DEF ValidLoc, ExcessHas
  <2>3. At(d, loc) \in d.excess[loc.buy] /\ At(d, loc).price = loc.price
    BY <2>1, <2>2
  <2> QED BY <2>3, ObjectFields DEF ValidLoc
<1>2. CASE loc.at # 0
  <2>1. loc.buy \in BOOLEAN /\ loc.at \in 1..SIZE /\ loc.at > 0
    BY <1>2 DEF ValidLoc
  <2>2. At(d, loc) = d.level[loc.buy][loc.at]
    BY <2>1 DEF At
  <2>3. d.level[loc.buy] \in Array
    BY <2>1, ObjectFields
  <2> QED BY <1>2, <2>1, <2>2, <2>3 DEF Array
<1> QED BY <1>1, <1>2

(* What find_level() finds. *)
LEMMA FindFinds ==
  ASSUME NEW d \in DepthObject, NEW buy \in BOOLEAN, NEW price \in Nat,
         NEW loc, loc = Find(d, buy, price)
  PROVE  /\ loc.at > SIZE \/ ValidLoc(d, loc)
         /\ loc.price = price
         /\ loc.buy = buy \/ loc.at > 0
         /\ Missing(loc, buy) \/ At(d, loc).price = price
<1>0. SIZE \in Nat \ {0}
  BY DepthAssumption DEF DepthAssumption
<1> DEFINE found == {i \in 1..SIZE : d.level[buy][i].price = price}
<1>1. CASE found # {}
  <2>1. Min(found) \in found
    BY <1>1, MinIsLeast
  <2>2. loc = Loc(buy, Min(found), price)
    BY <1>1 DEF Find
  <2> PICK k \in 1..SIZE : k = Min(found) /\ d.level[buy][k].price = price
    BY <2>1
  <2>3. loc = Loc(buy, k, price) /\ k \in 0..SIZE /\ k > 0 /\ k # 0
    BY <1>0, <2>2
  <2>4. loc.buy = buy /\ loc.at = k /\ loc.price = price
    BY <2>3 DEF Loc
  <2>5. ValidLoc(d, loc)
    BY <2>3, <2>4 DEF ValidLoc
  <2>6. At(d, loc).price = price
    BY <2>3, <2>4 DEF At
  <2> QED BY <2>4, <2>5, <2>6
<1>2. CASE found = {} /\ ExcessHas(d, buy, price)
  <2>1. loc = Loc(buy, 0, price)
    BY <1>2 DEF Find
  <2>2. ValidLoc(d, loc)
    BY <1>0, <1>2, <2>1 DEF Loc, ValidLoc
  <2> QED BY <2>1, <2>2, AtIsLevel DEF Loc
<1>3. CASE found = {} /\ ~ExcessHas(d, buy, price)
  <2>1. loc = PastEnd(buy, price)
    BY <1>3 DEF Find
  <2>2. CASE buy
    <3>1. loc = [buy |-> FALSE, at |-> 1, price |-> price]
      BY <2>1, <2>2 DEF PastEnd, Loc
    <3>2. loc.buy = FALSE /\ loc.at = 1 /\ loc.price = price
      BY <3>1
    <3>3. loc = Loc(loc.buy, loc.at, loc.price)
      BY <3>1, <3>2 DEF Loc
    <3>4. ValidLoc(d, loc)
      <4>1. loc.at \in 0..SIZE /\ loc.at # 0
        BY <1>0, <3>2
      <4>2. loc.buy \in BOOLEAN
        BY <3>2
      <4> QED BY <3>3, <4>1, <4>2, Zenon DEF ValidLoc
    <3>5. loc.at > 0
      BY <3>2
    <3>6. Missing(loc, buy)
      <4>1. buy # FALSE
        BY <2>2
      <4>2. loc.buy # buy
        BY <3>2, <4>1
      <4> QED BY <4>2 DEF Missing
    <3> QED BY <3>2, <3>4, <3>5, <3>6
  <2>3. CASE ~buy
    <3>1. loc = [buy |-> FALSE, at |-> SIZE + 1, price |-> price]
      BY <2>1, <2>3 DEF PastEnd, Loc
    <3>2. loc.at = SIZE + 1 /\ loc.price = price
      BY <3>1
    <3>3. loc.at > SIZE /\ loc.at > 0
      BY <1>0, <3>2
    <3>4. Missing(loc, buy)
      BY <3>3 DEF Missing
    <3> QED BY <3>2, <3>3, <3>4
  <2> QED BY <2>2, <2>3
<1> QED BY <1>1, <1>2, <1>3

-----------------------------------------------------------------------------
(* A level is changed in place. *)

(* Updates of one field, and what they leave of the others. *)
SetLevel(d, b, i, l) == [d EXCEPT !.level[b][i] = l]
SetExcess(d, b, X) == [d EXCEPT !.excess[b] = X]
SetStamp(d, b, i, k) == [d EXCEPT !.stamp[b][i] = k]
SetChange(d, k) == [d EXCEPT !.lastChange = k]

LEMMA LevelUpdate ==
  ASSUME NEW d \in DepthObject, NEW b \in BOOLEAN, NEW i \in 1..SIZE, NEW l \in Level,
         NEW n, n = SetLevel(d, b, i, l)
  PROVE  /\ n \in DepthObject
         /\ n.stamp = d.stamp /\ n.excess = d.excess /\ n.lastChange = d.lastChange
         /\ n.lastPublished = d.lastPublished /\ n.failed = d.failed
         /\ \A c \in BOOLEAN, j \in 1..SIZE :
              n.level[c][j] = IF c = b /\ j = i THEN l ELSE d.level[c][j]
<1> DEFINE M == [d.level EXCEPT ![b][i] = l]
<1>1. d.level \in [BOOLEAN -> [1..SIZE -> Level]]
  BY DEF DepthObject
<1>2. M \in [BOOLEAN -> [1..SIZE -> Level]]
  BY <1>1
<1>3. \A c \in BOOLEAN, j \in 1..SIZE :
        M[c][j] = IF c = b /\ j = i THEN l ELSE d.level[c][j]
  BY <1>1
<1>4. n = [d EXCEPT !.level = M]
  BY DEF SetLevel
<1> HIDE DEF M
<1> QED BY <1>2, <1>3, <1>4 DEF DepthObject

LEMMA ExcessUpdate ==
  ASSUME NEW d \in DepthObject, NEW b \in BOOLEAN, NEW X \in SUBSET Level,
         NEW n, n = SetExcess(d, b, X)
  PROVE  /\ n \in DepthObject
         /\ n.stamp = d.stamp /\ n.level = d.level /\ n.lastChange = d.lastChange
         /\ n.lastPublished = d.lastPublished /\ n.failed = d.failed
         /\ \A c \in BOOLEAN : n.excess[c] = IF c = b THEN X ELSE d.excess[c]
<1> DEFINE M == [d.excess EXCEPT ![b] = X]
<1>1. d.excess \in [BOOLEAN -> SUBSET Level]
  BY DEF DepthObject
<1>2. M \in [BOOLEAN -> SUBSET Level]
  BY <1>1
<1>3. \A c \in BOOLEAN : M[c] = IF c = b THEN X ELSE d.excess[c]
  BY <1>1
<1>4. n = [d EXCEPT !.excess = M]
  BY DEF SetExcess
<1> HIDE DEF M
<1> QED BY <1>2, <1>3, <1>4 DEF DepthObject

LEMMA NumberUpdate ==
  ASSUME NEW d \in DepthObject, NEW k \in Nat, NEW n, n = SetChange(d, k)
  PROVE  /\ n \in DepthObject
         /\ n.stamp = d.stamp /\ n.level = d.level /\ n.excess = d.excess
         /\ n.lastChange = k
         /\ n.lastPublished = d.lastPublished /\ n.failed = d.failed
BY DEF DepthObject, SetChange

LEMMA StampUpdate ==
  ASSUME NEW d \in DepthObject, NEW b \in BOOLEAN, NEW i, i \in 1..SIZE, NEW k, k \in Nat,
         NEW n, n = SetStamp(d, b, i, k)
  PROVE  /\ n \in DepthObject
         /\ n.level = d.level /\ n.excess = d.excess /\ n.lastChange = d.lastChange
         /\ n.lastPublished = d.lastPublished /\ n.failed = d.failed
         /\ \A c \in BOOLEAN, j \in 1..SIZE :
              /\ c = b /\ j = i => n.stamp[c][j] = k
              /\ c # b \/ j # i => n.stamp[c][j] = d.stamp[c][j]
<1> DEFINE M == [d.stamp EXCEPT ![b][i] = k]
<1>1. d.stamp \in [BOOLEAN -> [1..SIZE -> Nat]]
  BY DEF DepthObject
<1>2. M \in [BOOLEAN -> [1..SIZE -> Nat]]
  BY <1>1
<1>3. \A c \in BOOLEAN, j \in 1..SIZE :
        M[c][j] = IF c = b /\ j = i THEN k ELSE d.stamp[c][j]
  BY <1>1
<1>4. n = [d EXCEPT !.stamp = M]
  BY DEF SetStamp
<1> HIDE DEF M
<1> QED BY <1>2, <1>3, <1>4 DEF DepthObject

LEMMA PutKeeps ==
  ASSUME NEW d, Structure(d), NEW loc, ValidLoc(d, loc),
         NEW l \in Level, l.price = At(d, loc).price, d.failed \/ l.price # 0,
         NEW n, n = Put(d, loc, l)
  PROVE  /\ Structure(n)
         /\ ValidLoc(n, loc)
         /\ n.stamp = d.stamp /\ n.lastChange = d.lastChange
         /\ n.lastPublished = d.lastPublished /\ n.failed = d.failed
         /\ \A b \in BOOLEAN, i \in 1..SIZE :
              /\ n.level[b][i].price = d.level[b][i].price
              /\ n.level[b][i] = d.level[b][i] \/ (b = loc.buy /\ i = loc.at)
<1>0. d \in DepthObject
  BY DEF Structure
<1>1. At(d, loc) \in Level
  BY <1>0, AtIsLevel
<1>2. CASE loc.at # 0
  <2>1. loc.buy \in BOOLEAN /\ loc.at \in 1..SIZE /\ loc.at > 0
    BY <1>2 DEF ValidLoc
  <2>2. n = SetLevel(d, loc.buy, loc.at, l)
    BY <2>1 DEF Put, SetLevel
  <2>3. l.price = d.level[loc.buy][loc.at].price
    BY <2>1 DEF At
  <2>4. /\ n \in DepthObject
        /\ n.stamp = d.stamp /\ n.excess = d.excess /\ n.lastChange = d.lastChange
        /\ n.lastPublished = d.lastPublished /\ n.failed = d.failed
        /\ \A b \in BOOLEAN, i \in 1..SIZE :
             n.level[b][i] = IF b = loc.buy /\ i = loc.at THEN l ELSE d.level[b][i]
    BY <1>0, <2>1, <2>2, LevelUpdate
  <2>7. \A b \in BOOLEAN, i \in 1..SIZE : n.level[b][i].price = d.level[b][i].price
    BY <2>3, <2>4
  <2>8. ASSUME NEW b \in BOOLEAN
        PROVE  Ordered(n.level[b], n.excess[b], b)
    <3>1. Ordered(d.level[b], d.excess[b], b)
      BY DEF Structure
    <3>2. d.level[b] \in Array /\ n.level[b] \in Array /\ d.excess[b] \in SUBSET Level
      BY <1>0, <2>4, ObjectFields
    <3> QED BY <2>4, <2>7, <3>1, <3>2, OrderedByPrices
  <2>9. Structure(n)
    <3>1. n.failed \/ \A b \in BOOLEAN : Blanked(n.level[b])
      BY <2>3, <2>4 DEF Structure, Blanked, INVALID_LEVEL_PRICE
    <3> QED BY <2>4, <2>8, <3>1 DEF Structure
  <2>10. ValidLoc(n, loc)
    BY <1>2 DEF ValidLoc
  <2> QED BY <2>4, <2>7, <2>9, <2>10
<1>3. CASE loc.at = 0
  <2> DEFINE e == At(d, loc)
             X == (d.excess[loc.buy] \ {e}) \cup {l}
  <2>1. loc.buy \in BOOLEAN /\ e \in d.excess[loc.buy] /\ e.price = loc.price
    BY <1>0, <1>3, AtIsLevel DEF ValidLoc
  <2>2. n = SetExcess(d, loc.buy, X)
    BY <1>3 DEF Put, SetExcess
  <2>3. l.price = e.price
    OBVIOUS
  <2> HIDE DEF e
  <2>4. X \in SUBSET Level
    BY <1>0, <2>1, ObjectFields
  <2>5. X = (d.excess[loc.buy] \ {e}) \cup {l}
    OBVIOUS
  <2> HIDE DEF X
  <2>6. /\ n \in DepthObject
        /\ n.stamp = d.stamp /\ n.level = d.level /\ n.lastChange = d.lastChange
        /\ n.lastPublished = d.lastPublished /\ n.failed = d.failed
        /\ \A b \in BOOLEAN : n.excess[b] = IF b = loc.buy THEN X ELSE d.excess[b]
    BY <1>0, <2>1, <2>2, <2>4, ExcessUpdate
  <2>7. ASSUME NEW b \in BOOLEAN
        PROVE  /\ Ordered(n.level[b], n.excess[b], b)
               /\ \E k \in Nat : BoundedBy(n.excess[b], k)
    <3>1. Ordered(d.level[b], d.excess[b], b)
      BY DEF Structure
    <3>2. d.level[b] \in Array /\ d.excess[b] \in SUBSET Level
      BY <1>0, ObjectFields
    <3>3. PICK k \in Nat : BoundedBy(d.excess[b], k)
      BY DEF Structure
    <3>4. CASE b = loc.buy
      <4>1. n.excess[b] = (d.excess[b] \ {e}) \cup {l} /\ e \in d.excess[b]
        BY <2>1, <2>5, <2>6, <3>4
      <4>2. Ordered(n.level[b], n.excess[b], b)
        BY <2>3, <2>6, <3>1, <3>2, <4>1, OrderedExcessPut
      <4>3. BoundedBy(n.excess[b], k)
        BY <2>3, <3>3, <4>1 DEF BoundedBy
      <4> QED BY <4>2, <4>3
    <3>5. CASE b # loc.buy
      BY <2>6, <3>1, <3>3, <3>5
    <3> QED BY <3>4, <3>5
  <2>8. Structure(n)
    BY <2>6, <2>7 DEF Structure
  <2>9. ValidLoc(n, loc)
    <3>1. l \in n.excess[loc.buy] /\ l.price = loc.price
      BY <2>1, <2>3, <2>5, <2>6
    <3> QED BY <3>1 DEF ValidLoc, ExcessHas
  <2> QED BY <2>6, <2>8, <2>9
<1> QED BY <1>2, <1>3

(* The next number is taken, and stamped on the level if it has a stamp. *)
LEMMA NumberAndStamp ==
  ASSUME NEW d \in DepthObject, NEW b \in BOOLEAN, NEW i, i \in 0..SIZE, NEW k, k \in Nat,
         NEW n, n = IF i > 0 THEN SetStamp(SetChange(d, k), b, i, k) ELSE SetChange(d, k)
  PROVE  /\ n \in DepthObject
         /\ n.level = d.level /\ n.excess = d.excess /\ n.lastChange = k
         /\ n.lastPublished = d.lastPublished /\ n.failed = d.failed
         /\ \A c \in BOOLEAN, j \in 1..SIZE :
              /\ c = b /\ j = i => n.stamp[c][j] = k
              /\ c # b \/ j # i => n.stamp[c][j] = d.stamp[c][j]
<1> DEFINE f == SetChange(d, k)
<1>1. /\ f \in DepthObject
      /\ f.stamp = d.stamp /\ f.level = d.level /\ f.excess = d.excess
      /\ f.lastChange = k
      /\ f.lastPublished = d.lastPublished /\ f.failed = d.failed
  BY NumberUpdate
<1>2. n = IF i > 0 THEN SetStamp(f, b, i, k) ELSE f
  OBVIOUS
<1> HIDE DEF f
<1>3. CASE i > 0
  <2>1. i \in 1..SIZE /\ n = SetStamp(f, b, i, k)
    BY <1>2, <1>3
  <2>2. /\ n \in DepthObject
        /\ n.level = f.level /\ n.excess = f.excess /\ n.lastChange = f.lastChange
        /\ n.lastPublished = f.lastPublished /\ n.failed = f.failed
        /\ \A c \in BOOLEAN, j \in 1..SIZE :
             /\ c = b /\ j = i => n.stamp[c][j] = k
             /\ c # b \/ j # i => n.stamp[c][j] = f.stamp[c][j]
    BY <1>1, <2>1, StampUpdate
  <2> QED BY <1>1, <2>2
<1>4. CASE i = 0
  BY <1>1, <1>2, <1>4
<1> QED BY <1>3, <1>4

(* The level is changed and stamped. *)
LEMMA TouchKeeps ==
  ASSUME NEW d, Structure(d), Numbered(d), NEW e, Structure(e), NEW loc, ValidLoc(e, loc),
         e.stamp = d.stamp, e.lastChange = d.lastChange,
         e.lastPublished = d.lastPublished, d.failed => e.failed,
         \A b \in BOOLEAN, i \in 1..SIZE :
           e.level[b][i] = d.level[b][i] \/ (b = loc.buy /\ i = loc.at),
         NEW n, n = Touch(e, loc)
  PROVE  Structure(n) /\ Numbered(n) /\ Advances(d, n)
<1>1. d \in DepthObject /\ e \in DepthObject
  BY DEF Structure
<1>2. d.lastChange \in Nat /\ d.lastPublished \in Nat
  BY <1>1 DEF DepthObject
<1>3. PICK now \in Nat : now = d.lastChange + 1
  BY <1>2
<1>4. PICK b \in BOOLEAN, i \in 0..SIZE : b = loc.buy /\ i = loc.at
  BY DEF ValidLoc
<1>5. n = IF i > 0 THEN SetStamp(SetChange(e, now), b, i, now) ELSE SetChange(e, now)
  BY <1>1, <1>3, <1>4 DEF Touch, SetChange, SetStamp, DepthObject
<1>6. /\ n \in DepthObject
      /\ n.level = e.level /\ n.excess = e.excess /\ n.lastChange = now
      /\ n.lastPublished = e.lastPublished /\ n.failed = e.failed
      /\ \A c \in BOOLEAN, j \in 1..SIZE :
           /\ c = b /\ j = i => n.stamp[c][j] = now
           /\ c # b \/ j # i => n.stamp[c][j] = e.stamp[c][j]
  BY <1>1, <1>5, NumberAndStamp
<1>7. Structure(n)
  BY <1>6 DEF Structure
<1>8. \A c \in BOOLEAN, j \in 1..SIZE : d.stamp[c][j] \in Nat
  BY <1>1 DEF DepthObject
<1>9. Numbered(n)
  BY <1>2, <1>3, <1>6, <1>8 DEF Numbered
<1>10. Advances(d, n)
  BY <1>2, <1>3, <1>4, <1>6 DEF Advances, Same
<1> QED BY <1>7, <1>9, <1>10

-----------------------------------------------------------------------------
(* A side is changed. *)

SetSide(d, b, L, K, E, k) ==
  [d EXCEPT !.lastChange = k, !.level[b] = L, !.stamp[b] = K, !.excess[b] = E]

LEMMA SideUpdate ==
  ASSUME NEW d \in DepthObject, NEW b \in BOOLEAN, NEW L \in Array,
         NEW K \in Stamps, NEW E \in SUBSET Level, NEW k, k \in Nat,
         NEW n, n = SetSide(d, b, L, K, E, k)
  PROVE  /\ n \in DepthObject
         /\ n.level[b] = L /\ n.stamp[b] = K /\ n.excess[b] = E /\ n.lastChange = k
         /\ n.lastPublished = d.lastPublished /\ n.failed = d.failed
         /\ \A c \in BOOLEAN : c # b => /\ n.level[c] = d.level[c]
                                        /\ n.stamp[c] = d.stamp[c]
                                        /\ n.excess[c] = d.excess[c]
<1> DEFINE A == [d.level EXCEPT ![b] = L]
           B == [d.stamp EXCEPT ![b] = K]
           C == [d.excess EXCEPT ![b] = E]
<1>1. /\ A \in [BOOLEAN -> [1..SIZE -> Level]] /\ A[b] = L
      /\ \A c \in BOOLEAN : c # b => A[c] = d.level[c]
  BY DEF DepthObject, Array
<1>2. /\ B \in [BOOLEAN -> [1..SIZE -> Nat]] /\ B[b] = K
      /\ \A c \in BOOLEAN : c # b => B[c] = d.stamp[c]
  BY DEF DepthObject, Stamps
<1>3. /\ C \in [BOOLEAN -> SUBSET Level] /\ C[b] = E
      /\ \A c \in BOOLEAN : c # b => C[c] = d.excess[c]
  BY DEF DepthObject
<1>4. n = [d EXCEPT !.lastChange = k, !.level = A, !.stamp = B, !.excess = C]
  BY DEF SetSide, DepthObject
<1> HIDE DEF A, B, C
<1>5. /\ n.level = A /\ n.stamp = B /\ n.excess = C /\ n.lastChange = k
      /\ n.lastPublished = d.lastPublished /\ n.failed = d.failed
  BY <1>4 DEF DepthObject
<1>6. n \in DepthObject
  BY <1>1, <1>2, <1>3, <1>4 DEF DepthObject
<1> QED BY <1>1, <1>2, <1>3, <1>5, <1>6

(* The parts of erase_level() on its side: the levels that move up, the    *)
(* level that comes after them, the array, and what is left in the excess. *)
Moved(old, at, moved) ==
  /\ moved \subseteq at..(SIZE - 1)
  /\ \A i \in at..(SIZE - 1) : i \notin moved => i # at /\ old[i].price = 0

LastOf(E, buy) ==
  LET best == BestExcess(E, buy)
  IN  IF best = {} THEN Blank ELSE CHOOSE e \in best : TRUE

Shifted(old, moved, refill, last) ==
  [i \in 1..SIZE |-> CASE i \in moved -> old[i + 1]
                       [] i = SIZE /\ refill -> last
                       [] OTHER -> old[i]]

Remaining(E, buy, refill) == IF refill THEN E \ BestExcess(E, buy) ELSE E

LEMMA EraseSide ==
  ASSUME NEW buy \in BOOLEAN, NEW old \in Array, NEW E \in SUBSET Level,
         Ordered(old, E, buy), NEW m, m \in Nat, BoundedBy(E, m),
         NEW at, at \in 1..SIZE, NEW moved, Moved(old, at, moved),
         NEW refill \in BOOLEAN, ~refill => old[SIZE].price = 0,
         NEW last, last = LastOf(E, buy),
         NEW L, L = Shifted(old, moved, refill, last),
         NEW F, F = Remaining(E, buy, refill)
  PROVE  /\ L \in Array /\ F \in SUBSET Level /\ Ordered(L, F, buy) /\ BoundedBy(F, m)
         /\ Blanked(old) => Blanked(L)
<1>0. SIZE \in Nat \ {0} /\ SIZE \in 1..SIZE
  BY DepthAssumption DEF DepthAssumption
<1>1. BestExcess(E, buy) \subseteq E
  BY DEF BestExcess
<1>2. Blank \in Level /\ Blank.price = 0
  <2>1. 0 \in Quantity
    BY DepthAssumption DEF DepthAssumption, Quantity
  <2> QED BY <2>1 DEF Blank, Fresh, Level, INVALID_LEVEL_PRICE
<1>3. last \in Level
  BY <1>1, <1>2 DEF LastOf
<1>4. SIZE \notin moved /\ \A i \in moved : i \in 1..SIZE /\ i + 1 \in 1..SIZE
  BY <1>0 DEF Moved
<1>5. \A i \in 1..SIZE : L[i] = CASE i \in moved -> old[i + 1]
                                  [] i = SIZE /\ refill -> last
                                  [] OTHER -> old[i]
  BY DEF Shifted
<1>6. \A i \in moved : L[i] = old[i + 1]
  BY <1>4, <1>5
<1>7. \A i \in 1..SIZE : i \notin moved /\ (i # SIZE \/ ~refill) => L[i] = old[i]
  BY <1>5
<1>8. refill => L[SIZE] = last
  BY <1>0, <1>4, <1>5
<1>9. L \in Array
  <2>1. \A i \in 1..SIZE : L[i] \in Level
    <3> SUFFICES ASSUME NEW i \in 1..SIZE
                 PROVE  L[i] \in Level
      OBVIOUS
    <3>1. CASE i \in moved
      BY <1>4, <1>6, <3>1 DEF Array
    <3>2. CASE i \notin moved /\ (i # SIZE \/ ~refill)
      BY <1>7, <3>2 DEF Array
    <3>3. CASE i = SIZE /\ refill
      BY <1>3, <1>8, <3>3
    <3> QED BY <3>1, <3>2, <3>3
  <2>2. L = [i \in 1..SIZE |-> L[i]]
    BY DEF Shifted
  <2> QED BY <2>1, <2>2 DEF Array
<1>10. F \in SUBSET Level /\ BoundedBy(F, m)
  BY DEF BoundedBy, Remaining
<1>11. ~refill => E = {}
  BY <1>0 DEF Ordered, INVALID_LEVEL_PRICE
<1>12. F = E \ BestExcess(E, buy)
  BY <1>11 DEF Remaining
<1>13. E = {} => L[SIZE].price = 0
  BY <1>0, <1>1, <1>2, <1>4, <1>7, <1>8 DEF LastOf
<1>14. E # {} => \E b \in BestExcess(E, buy) : L[SIZE].price = b.price
  <2> SUFFICES ASSUME E # {}
               PROVE  \E b \in BestExcess(E, buy) : L[SIZE].price = b.price
    OBVIOUS
  <2>1. \A e, f \in E : e.price = f.price => e = f
    BY DEF Ordered
  <2>2. BestExcess(E, buy) # {}
    BY <2>1, BestIsOne
  <2>3. last \in BestExcess(E, buy)
    BY <2>2 DEF LastOf
  <2> QED BY <1>8, <1>11, <2>3
<1>15. \A i \in 1..SIZE : i < at => L[i].price = old[i].price
  <2> SUFFICES ASSUME NEW i \in 1..SIZE, i < at
               PROVE  L[i] = old[i]
    OBVIOUS
  <2>1. i \notin moved /\ i # SIZE
    BY <1>0 DEF Moved
  <2> QED BY <1>7, <2>1
<1>16. ASSUME NEW i \in 1..SIZE, at <= i, i < SIZE
       PROVE  L[i].price = old[i + 1].price
  <2>1. CASE i \in moved
    BY <1>6, <2>1
  <2>2. CASE i \notin moved
    <3>1. i \in at..(SIZE - 1)
      BY <1>0, <1>16
    <3>2. old[i].price = 0 /\ L[i] = old[i]
      BY <1>7, <1>16, <2>2, <3>1 DEF Moved
    <3>3. i + 1 \in 1..SIZE /\ i < i + 1
      BY <1>0, <1>16
    <3>4. old[i + 1].price = 0
      BY <3>2, <3>3 DEF Ordered, INVALID_LEVEL_PRICE
    <3> QED BY <3>2, <3>4
  <2> QED BY <2>1, <2>2
<1>17. Erased(old, L, E, buy, at)
  BY <1>13, <1>14, <1>15, <1>16 DEF Erased, INVALID_LEVEL_PRICE
<1>18. Ordered(L, E \ BestExcess(E, buy), buy)
  BY <1>9, <1>17, OrderedErase
<1>19. ASSUME Blanked(old), NEW i \in 1..SIZE, L[i].price = INVALID_LEVEL_PRICE
       PROVE  L[i] = Blank
  <2>1. CASE i \in moved
    BY <1>4, <1>6, <1>19, <2>1 DEF Blanked
  <2>2. CASE i \notin moved /\ (i # SIZE \/ ~refill)
    BY <1>7, <1>19, <2>2 DEF Blanked
  <2>3. CASE i = SIZE /\ refill
    <3>1. BestExcess(E, buy) = {}
      <4>1. SUFFICES ASSUME BestExcess(E, buy) # {}
                     PROVE  FALSE
        OBVIOUS
      <4>2. last \in BestExcess(E, buy)
        BY <4>1 DEF LastOf
      <4>3. 0 < last.price /\ last.price \in Nat
        BY <1>1, <1>3, <4>2 DEF BoundedBy, Level
      <4>4. last.price = 0
        BY <1>8, <1>19, <2>3 DEF INVALID_LEVEL_PRICE
      <4> QED BY <4>3, <4>4
    <3> QED BY <1>8, <2>3, <3>1 DEF LastOf
  <2> QED BY <2>1, <2>2, <2>3
<1> QED BY <1>9, <1>10, <1>12, <1>18, <1>19 DEF Blanked

(* erase_level(): every level that is not the same has the new number, and *)
(* so has the place of the erased one.                                     *)
LEMMA EraseKeeps ==
  ASSUME NEW d, Structure(d), Numbered(d), NEW buy \in BOOLEAN,
         NEW loc, ValidLoc(d, loc), loc.buy = buy \/ loc.at > 0,
         NEW n, n = Erase(d, buy, loc)
  PROVE  /\ Structure(n) /\ Numbered(n) /\ Advances(d, n)
         /\ n.failed = d.failed
         /\ loc.buy = buy /\ loc.at > 0 => n.stamp[buy][loc.at] > d.lastChange
<1>0. SIZE \in Nat \ {0} /\ SIZE \in 1..SIZE
  BY DepthAssumption DEF DepthAssumption
<1>1. d \in DepthObject
  BY DEF Structure
<1>2. d.lastChange \in Nat /\ d.lastPublished \in Nat
  BY <1>1 DEF DepthObject
<1>3. \A b \in BOOLEAN, i \in 1..SIZE : d.stamp[b][i] \in Nat
  BY <1>1 DEF DepthObject
<1>4. PICK m \in Nat : BoundedBy(d.excess[buy], m)
  BY DEF Structure
<1>5. Ordered(d.level[buy], d.excess[buy], buy)
  BY DEF Structure
<1>6. /\ d.level[buy] \in Array /\ d.excess[buy] \in SUBSET Level
      /\ d.stamp[buy] \in [1..SIZE -> Nat]
  BY <1>1, ObjectFields
<1>7. CASE loc.at = 0
  <2> DEFINE X == {e \in d.excess[buy] : e.price # loc.price}
  <2>1. n = SetExcess(d, buy, X)
    BY <1>7 DEF Erase, SetExcess
  <2>2. X \in SUBSET Level /\ X \subseteq d.excess[buy]
    BY <1>6
  <2> HIDE DEF X
  <2>3. /\ n \in DepthObject
        /\ n.stamp = d.stamp /\ n.level = d.level /\ n.lastChange = d.lastChange
        /\ n.lastPublished = d.lastPublished /\ n.failed = d.failed
        /\ \A c \in BOOLEAN : n.excess[c] = IF c = buy THEN X ELSE d.excess[c]
    BY <1>1, <2>1, <2>2, ExcessUpdate
  <2>4. Ordered(d.level[buy], X, buy) /\ BoundedBy(X, m)
    BY <1>4, <1>5, <2>2 DEF Ordered, BoundedBy
  <2>5. Structure(n)
    BY <2>3, <2>4 DEF Structure
  <2>6. Numbered(n) /\ Advances(d, n)
    BY <1>2, <2>3 DEF Numbered, Advances, Same
  <2> QED BY <1>7, <2>3, <2>5, <2>6
<1>8. CASE loc.at > 0
  <2> DEFINE old == d.level[buy]
             moved == IF loc.buy = buy THEN {i \in loc.at..(SIZE - 1) :
                           i = loc.at \/ old[i].price # INVALID_LEVEL_PRICE}
                      ELSE {}
             refill == (loc.buy = buy /\ loc.at = SIZE) \/ old[SIZE].price # INVALID_LEVEL_PRICE
             last == LastOf(d.excess[buy], buy)
             now == d.lastChange + 1
             L == Shifted(old, moved, refill, last)
             K == [i \in 1..SIZE |->
                     IF i \in moved \/ (i = SIZE /\ refill) THEN now ELSE d.stamp[buy][i]]
             F == Remaining(d.excess[buy], buy, refill)
             at == IF loc.buy = buy THEN loc.at ELSE SIZE
  <2>1. n = SetSide(d, buy, L, K, F, now)
    BY <1>1, <1>8 DEF Erase, SetSide, DepthObject, Shifted, Remaining, LastOf
  <2>2. at \in 1..SIZE
    BY <1>0, <1>8 DEF ValidLoc
  <2>3. Moved(old, at, moved)
    BY <1>0 DEF Moved, INVALID_LEVEL_PRICE
  <2>4. refill \in BOOLEAN /\ (~refill => old[SIZE].price = 0)
    BY DEF INVALID_LEVEL_PRICE
  <2>5. now \in Nat /\ now = d.lastChange + 1
    BY <1>2
  <2>6. K \in Stamps
    BY <1>6, <2>5 DEF Stamps
  <2>7. loc.buy = buy => loc.at \in moved \/ (loc.at = SIZE /\ refill)
    BY <1>0, <1>8 DEF ValidLoc
  <2>8. \A i \in 1..SIZE : K[i] = now \/ (L[i] = old[i] /\ K[i] = d.stamp[buy][i])
    <3> HIDE DEF moved, refill, now, last
    <3> SUFFICES ASSUME NEW i \in 1..SIZE
                 PROVE  K[i] = now \/ (L[i] = old[i] /\ K[i] = d.stamp[buy][i])
      OBVIOUS
    <3>1. CASE i \in moved \/ (i = SIZE /\ refill)
      BY <3>1
    <3>2. CASE ~(i \in moved \/ (i = SIZE /\ refill))
      BY <3>2 DEF Shifted
    <3> QED BY <3>1, <3>2
  <2>9. loc.buy = buy => K[loc.at] = now
    BY <1>0, <1>8, <2>7 DEF ValidLoc
  <2>10. /\ L \in Array /\ F \in SUBSET Level /\ Ordered(L, F, buy) /\ BoundedBy(F, m)
         /\ Blanked(old) => Blanked(L)
    <3>1. old \in Array /\ d.excess[buy] \in SUBSET Level /\ Ordered(old, d.excess[buy], buy)
      BY <1>5, <1>6
    <3> HIDE DEF old, moved, refill, at
    <3> QED BY <1>4, <2>2, <2>3, <2>4, <3>1, EraseSide
  <2> HIDE DEF old, moved, refill, last, now, L, K, F, at
  <2>11. /\ n \in DepthObject
         /\ n.level[buy] = L /\ n.stamp[buy] = K /\ n.excess[buy] = F /\ n.lastChange = now
         /\ n.lastPublished = d.lastPublished /\ n.failed = d.failed
         /\ \A c \in BOOLEAN : c # buy => /\ n.level[c] = d.level[c]
                                          /\ n.stamp[c] = d.stamp[c]
                                          /\ n.excess[c] = d.excess[c]
    <3>1. PICK k : k = now
      OBVIOUS
    <3>2. k \in Nat /\ n = SetSide(d, buy, L, K, F, k)
      BY <2>1, <2>5, <3>1
    <3>3. /\ n \in DepthObject
          /\ n.level[buy] = L /\ n.stamp[buy] = K /\ n.excess[buy] = F /\ n.lastChange = k
          /\ n.lastPublished = d.lastPublished /\ n.failed = d.failed
          /\ \A c \in BOOLEAN : c # buy => /\ n.level[c] = d.level[c]
                                           /\ n.stamp[c] = d.stamp[c]
                                           /\ n.excess[c] = d.excess[c]
      BY <1>1, <2>6, <2>10, <3>2, SideUpdate
    <3> QED BY <3>1, <3>3
  <2>12. Structure(n)
    <3>1. ASSUME NEW c \in BOOLEAN
          PROVE  Ordered(n.level[c], n.excess[c], c) /\ \E k \in Nat : BoundedBy(n.excess[c], k)
      <4>1. CASE c = buy
        BY <2>10, <2>11, <4>1
      <4>2. CASE c # buy
        BY <2>11, <4>2 DEF Structure
      <4> QED BY <4>1, <4>2
    <3>2. n.failed \/ \A c \in BOOLEAN : Blanked(n.level[c])
      <4> SUFFICES ASSUME ~n.failed, NEW c \in BOOLEAN
                   PROVE  Blanked(n.level[c])
        OBVIOUS
      <4>1. Blanked(d.level[c])
        BY <2>11 DEF Structure
      <4>2. CASE c = buy
        BY <2>10, <2>11, <4>1, <4>2 DEF old
      <4>3. CASE c # buy
        BY <2>11, <4>1, <4>3
      <4> QED BY <4>2, <4>3
    <3> QED BY <2>11, <3>1, <3>2 DEF Structure
  <2>13. ASSUME NEW c \in BOOLEAN, NEW i \in 1..SIZE
         PROVE  Same(d, n, c, i) \/ n.stamp[c][i] = now
    <3>1. CASE c = buy
      BY <2>8, <2>11, <3>1 DEF Same, old
    <3>2. CASE c # buy
      BY <2>11, <3>2 DEF Same
    <3> QED BY <3>1, <3>2
  <2>14. Numbered(n) /\ Advances(d, n)
    BY <1>2, <1>3, <2>5, <2>11, <2>13 DEF Numbered, Advances, Same
  <2>15. loc.buy = buy => n.stamp[buy][loc.at] > d.lastChange
    BY <1>2, <2>5, <2>9, <2>11
  <2> QED BY <2>11, <2>12, <2>14, <2>15
<1> QED BY <1>7, <1>8 DEF ValidLoc

-----------------------------------------------------------------------------
(* A price gets a level. *)

(* What find_level() with should_create makes of d: only the level that it *)
(* finds is new without having the new number.                             *)
Prepared(d, n, buy, price) ==
  /\ n.failed = d.failed /\ n.lastPublished = d.lastPublished
  /\ n.lastChange \in {d.lastChange, d.lastChange + 1}
  /\ \A b \in BOOLEAN, i \in 1..SIZE :
       \/ n.failed \/ Same(d, n, b, i)
       \/ n.stamp[b][i] = d.lastChange + 1
       \/ b = buy /\ n.level[b][i].price = price
  /\ \A b \in BOOLEAN, i \in 1..SIZE : n.stamp[b][i] \in {d.stamp[b][i], n.lastChange}
  /\ \/ \E i \in 1..SIZE : n.level[buy][i].price = price
     \/ /\ ExcessHas(n, buy, price)
        /\ n.level = d.level /\ n.stamp = d.stamp /\ n.lastChange = d.lastChange

LEMMA InsertKeeps ==
  ASSUME NEW d, Structure(d), Numbered(d), NEW buy \in BOOLEAN,
         NEW price, price \in Nat \ {0}, NEW at, at \in 1..SIZE,
         Place(d.level[buy], buy, at, price), d.level[buy][at].price # INVALID_LEVEL_PRICE,
         NEW n, n = InsertBefore(d, buy, at, price)
  PROVE  Structure(n) /\ Prepared(d, n, buy, price)
<1>0. SIZE \in Nat \ {0} /\ SIZE \in 1..SIZE
  BY DepthAssumption DEF DepthAssumption
<1>1. d \in DepthObject
  BY DEF Structure
<1>2. d.lastChange \in Nat
  BY <1>1 DEF DepthObject
<1> DEFINE old == d.level[buy]
           E == d.excess[buy]
           now == d.lastChange + 1
           L == Inserted(old, at, price)
           K == [i \in 1..SIZE |->
                   IF i > at /\ old[i - 1].price # INVALID_LEVEL_PRICE THEN now
                   ELSE d.stamp[buy][i]]
           F == Pushed(old, E)
<1>3. n = SetSide(d, buy, L, K, F, now)
  BY <1>1 DEF InsertBefore, SetSide, DepthObject, Inserted, Pushed
<1>4. now \in Nat /\ now = d.lastChange + 1
  BY <1>2
<1>5. K \in Stamps
  BY <1>1, <1>4 DEF DepthObject, Stamps
<1>6. /\ old \in Array /\ E \in SUBSET Level /\ Ordered(old, E, buy)
      /\ \E m \in Nat : BoundedBy(E, m)
  BY <1>1, ObjectFields DEF Structure
<1>7. Place(old, buy, at, price) /\ old[at].price # INVALID_LEVEL_PRICE
  OBVIOUS
<1>8. \A i \in 1..SIZE : /\ i < at => L[i] = old[i] /\ K[i] = d.stamp[buy][i]
                         /\ i = at => L[i] = Fresh(price) /\ K[i] = d.stamp[buy][i]
                         /\ i > at => \/ K[i] = now
                                      \/ L[i] = old[i - 1] /\ old[i - 1].price = 0
                                         /\ K[i] = d.stamp[buy][i]
  BY DEF Inserted, INVALID_LEVEL_PRICE
<1> HIDE DEF old, E, now, L, K, F
<1>9. L \in Array /\ F \in SUBSET Level /\ Ordered(L, F, buy)
  BY <1>6, <1>7, OrderedInsert DEF L, F
<1>10. /\ n \in DepthObject
       /\ n.level[buy] = L /\ n.stamp[buy] = K /\ n.excess[buy] = F /\ n.lastChange = now
       /\ n.lastPublished = d.lastPublished /\ n.failed = d.failed
       /\ \A c \in BOOLEAN : c # buy => /\ n.level[c] = d.level[c]
                                        /\ n.stamp[c] = d.stamp[c]
                                        /\ n.excess[c] = d.excess[c]
  BY <1>1, <1>3, <1>4, <1>5, <1>9, SideUpdate
<1>11. \E m \in Nat : BoundedBy(F, m)
  <2>1. PICK m \in Nat : BoundedBy(E, m)
    BY <1>6
  <2>2. old[SIZE].price \in Nat
    BY <1>0, <1>6 DEF Array, Level
  <2>3. BoundedBy(F, m + old[SIZE].price)
    BY <1>6, <2>1, <2>2 DEF F, Pushed, InsertExcess, BoundedBy, INVALID_LEVEL_PRICE, Level
  <2> QED BY <2>1, <2>2, <2>3
<1>12. ASSUME ~n.failed
       PROVE  \A c \in BOOLEAN : Blanked(n.level[c])
  <2>1. \A c \in BOOLEAN : Blanked(d.level[c])
    BY <1>10, <1>12 DEF Structure
  <2>2. ASSUME NEW i \in 1..SIZE, L[i].price = 0
        PROVE  L[i] = Blank
    <3>1. CASE i < at
      BY <1>8, <2>1, <2>2, <3>1 DEF Blanked, old, INVALID_LEVEL_PRICE
    <3>2. CASE i = at
      BY <1>8, <2>2, <3>2, FreshIsLevel
    <3>3. CASE i > at
      <4>1. i - 1 \in 1..SIZE /\ L[i] = old[i - 1]
        BY <1>0, <3>3 DEF L, Inserted
      <4> QED BY <2>1, <2>2, <4>1 DEF Blanked, old, INVALID_LEVEL_PRICE
    <3> QED BY <1>0, <3>1, <3>2, <3>3
  <2> QED BY <1>10, <2>1, <2>2 DEF Blanked, INVALID_LEVEL_PRICE
<1>13. Structure(n)
  <2>1. ASSUME NEW c \in BOOLEAN
        PROVE  Ordered(n.level[c], n.excess[c], c) /\ \E k \in Nat : BoundedBy(n.excess[c], k)
    <3>1. CASE c = buy
      BY <1>9, <1>10, <1>11, <3>1
    <3>2. CASE c # buy
      BY <1>10, <3>2 DEF Structure
    <3> QED BY <3>1, <3>2
  <2> QED BY <1>10, <1>12, <2>1 DEF Structure
<1>14. ASSUME NEW b \in BOOLEAN, NEW i \in 1..SIZE
       PROVE  \/ n.failed \/ Same(d, n, b, i)
              \/ n.stamp[b][i] = d.lastChange + 1
              \/ b = buy /\ n.level[b][i].price = price
  <2>1. CASE b # buy
    BY <1>10, <2>1 DEF Same
  <2>2. CASE b = buy /\ i < at
    BY <1>8, <1>10, <2>2 DEF Same, old
  <2>3. CASE b = buy /\ i = at
    BY <1>8, <1>10, <2>3, FreshIsLevel
  <2>4. CASE b = buy /\ i > at /\ ~n.failed /\ K[i] # now
    <3>1. L[i] = old[i - 1] /\ old[i - 1].price = 0 /\ K[i] = d.stamp[buy][i]
      BY <1>8, <2>4
    <3>2. i - 1 \in 1..SIZE /\ i - 1 < i
      BY <1>0, <2>4
    <3>3. old[i].price = 0
      BY <1>6, <3>1, <3>2 DEF Ordered, INVALID_LEVEL_PRICE
    <3>4. Blanked(old)
      BY <1>10, <2>4 DEF Structure, old
    <3>5. old[i - 1] = Blank /\ old[i] = Blank
      BY <3>1, <3>2, <3>3, <3>4 DEF Blanked, INVALID_LEVEL_PRICE
    <3>6. n.level[b][i] = d.level[b][i] /\ n.stamp[b][i] = d.stamp[b][i]
      BY <1>10, <2>4, <3>1, <3>5 DEF old
    <3> QED BY <3>6 DEF Same
  <2> QED BY <1>0, <1>4, <1>10, <2>1, <2>2, <2>3, <2>4
<1>15. n.level[buy][at].price = price
  BY <1>8, <1>10, FreshIsLevel
<1>16. ASSUME NEW b \in BOOLEAN, NEW i \in 1..SIZE
       PROVE  n.stamp[b][i] \in {d.stamp[b][i], n.lastChange}
  <2>1. CASE b = buy
    <3>1. K[i] \in {d.stamp[buy][i], now}
      BY DEF K
    <3> QED BY <1>10, <2>1, <3>1
  <2>2. CASE b # buy
    BY <1>10, <2>2
  <2> QED BY <2>1, <2>2
<1>17. Prepared(d, n, buy, price)
  BY <1>4, <1>10, <1>14, <1>15, <1>16 DEF Prepared
<1> QED BY <1>13, <1>17

(* The ways in which find_level() with should_create ends. *)
LEMMA WithLevelCases ==
  ASSUME NEW d, Structure(d), NEW buy \in BOOLEAN,
         NEW price, price \in Nat \ {0},
         NEW n, n = WithLevel(d, buy, price)
  PROVE  \/ /\ n = d
            /\ ExcessHas(d, buy, price) \/ \E i \in 1..SIZE : d.level[buy][i].price = price
         \/ /\ n = SetExcess(d, buy, d.excess[buy] \cup {Fresh(price)})
            /\ ~ExcessHas(d, buy, price)
            /\ \A i \in 1..SIZE : /\ Better(buy, d.level[buy][i].price, price)
                                  /\ d.level[buy][i].price # INVALID_LEVEL_PRICE
         \/ \E a \in 1..SIZE : /\ Place(d.level[buy], buy, a, price)
                               /\ d.level[buy][a].price = INVALID_LEVEL_PRICE
                               /\ n = SetLevel(d, buy, a, Fresh(price))
         \/ \E a \in 1..SIZE : /\ Place(d.level[buy], buy, a, price)
                               /\ d.level[buy][a].price # INVALID_LEVEL_PRICE
                               /\ n = InsertBefore(d, buy, a, price)
<1>0. SIZE \in Nat \ {0} /\ SIZE \in 1..SIZE
  BY DepthAssumption DEF DepthAssumption
<1>1. d \in DepthObject
  BY DEF Structure
<1> DEFINE old == d.level[buy]
           E == d.excess[buy]
           slots == {i \in 1..SIZE : LET p == d.level[buy][i].price
                                     IN  p \in {price, INVALID_LEVEL_PRICE} \/ Better(buy, price, p)}
           at == Min(slots)
<1>3. /\ old \in Array /\ E \in SUBSET Level /\ Ordered(old, E, buy)
      /\ \E m \in Nat : BoundedBy(E, m)
  BY <1>1, ObjectFields DEF Structure
<1>4. \A i \in 1..SIZE : old[i].price \in Nat
  BY <1>3 DEF Array, Level
<1>5. \A i \in 1..SIZE : i \notin slots => Better(buy, old[i].price, price) /\ old[i].price # 0
  BY <1>4 DEF Better, INVALID_LEVEL_PRICE
<1>6. slots # {} => /\ at \in 1..SIZE
                    /\ \A i \in 1..SIZE : i < at => Better(buy, old[i].price, price) /\ old[i].price # 0
                    /\ \/ old[at].price \in {price, INVALID_LEVEL_PRICE}
                       \/ Better(buy, price, old[at].price)
  <2>0. slots \in SUBSET (1..SIZE)
    OBVIOUS
  <2>1. slots # {} => at \in slots /\ \A i \in slots : at <= i
    <3>1. slots \in SUBSET Nat
      BY <1>0, <2>0
    <3> HIDE DEF slots
    <3> QED BY <3>1, MinIsLeast
  <2>2. slots # {} => \A i \in 1..SIZE : i < at => i \notin slots
    <3> HIDE DEF slots, at
    <3>1. slots # {} => at \in 1..SIZE
      BY <2>0, <2>1
    <3> QED BY <1>0, <2>1, <3>1
  <2>3. at \in slots => /\ at \in 1..SIZE
                        /\ \/ old[at].price \in {price, INVALID_LEVEL_PRICE}
                           \/ Better(buy, price, old[at].price)
    OBVIOUS
  <2> HIDE DEF slots, at, old
  <2> QED BY <1>5, <2>1, <2>2, <2>3
<1>7. n = CASE slots = {} /\ ExcessHas(d, buy, price) -> d
            [] slots = {} /\ ~ExcessHas(d, buy, price) ->
                 [d EXCEPT !.excess[buy] = @ \cup {Fresh(price)}]
            [] slots # {} /\ old[at].price = price -> d
            [] slots # {} /\ old[at].price # price /\ old[at].price = INVALID_LEVEL_PRICE ->
                 [d EXCEPT !.level[buy][at] = Fresh(price)]
            [] OTHER -> InsertBefore(d, buy, at, price)
  BY DEF WithLevel
<1>a. slots = {} => \A i \in 1..SIZE : Better(buy, old[i].price, price) /\ old[i].price # 0
  BY <1>5
<1> HIDE DEF slots, at, old
<1>9. CASE slots = {} /\ ExcessHas(d, buy, price)
  BY <1>7, <1>9
<1>10. CASE slots = {} /\ ~ExcessHas(d, buy, price)
  <2>1. n = SetExcess(d, buy, d.excess[buy] \cup {Fresh(price)})
    BY <1>7, <1>10 DEF SetExcess
  <2> QED BY <1>a, <1>10, <2>1 DEF old, INVALID_LEVEL_PRICE
<1>11. CASE slots # {} /\ old[at].price = price
  <2>1. n = d
    BY <1>7, <1>11 DEF INVALID_LEVEL_PRICE
  <2> QED BY <1>6, <1>11, <2>1 DEF old
<1>12. CASE slots # {} /\ old[at].price = INVALID_LEVEL_PRICE
  <2>1. at \in 1..SIZE /\ Place(old, buy, at, price)
    BY <1>6, <1>12 DEF Place
  <2>2. n = SetLevel(d, buy, at, Fresh(price))
    BY <1>7, <1>12 DEF SetLevel, INVALID_LEVEL_PRICE
  <2> QED BY <1>12, <2>1, <2>2 DEF old
<1>13. CASE slots # {} /\ old[at].price \notin {price, INVALID_LEVEL_PRICE}
  <2>1. at \in 1..SIZE /\ Place(old, buy, at, price)
    BY <1>6, <1>13 DEF Place
  <2>2. n = InsertBefore(d, buy, at, price)
    BY <1>7, <1>13
  <2> QED BY <1>13, <2>1, <2>2 DEF old
<1> QED BY <1>9, <1>10, <1>11, <1>12, <1>13

LEMMA WithLevelKeeps ==
  ASSUME NEW d, Structure(d), Numbered(d), NEW buy \in BOOLEAN,
         NEW price, price \in Nat \ {0},
         NEW n, n = WithLevel(d, buy, price)
  PROVE  Structure(n) /\ Prepared(d, n, buy, price)
<1>0. SIZE \in Nat \ {0} /\ SIZE \in 1..SIZE
  BY DepthAssumption DEF DepthAssumption
<1>1. d \in DepthObject
  BY DEF Structure
<1>2. d.lastChange \in Nat
  BY <1>1 DEF DepthObject
<1> DEFINE old == d.level[buy]
           E == d.excess[buy]
           There == ExcessHas(d, buy, price) \/ \E i \in 1..SIZE : d.level[buy][i].price = price
           Outside == /\ n = SetExcess(d, buy, E \cup {Fresh(price)})
                      /\ ~ExcessHas(d, buy, price)
                      /\ \A i \in 1..SIZE : /\ Better(buy, old[i].price, price)
                                            /\ old[i].price # INVALID_LEVEL_PRICE
           InBlank(a) == /\ Place(old, buy, a, price)
                         /\ old[a].price = INVALID_LEVEL_PRICE
                         /\ n = SetLevel(d, buy, a, Fresh(price))
           Before(a) == /\ Place(old, buy, a, price)
                        /\ old[a].price # INVALID_LEVEL_PRICE
                        /\ n = InsertBefore(d, buy, a, price)
<1>3. /\ old \in Array /\ E \in SUBSET Level /\ Ordered(old, E, buy)
      /\ \E m \in Nat : BoundedBy(E, m)
  BY <1>1, ObjectFields DEF Structure
<1>4. \/ n = d /\ There
      \/ Outside
      \/ \E a \in 1..SIZE : InBlank(a)
      \/ \E a \in 1..SIZE : Before(a)
  <2>1. PICK w : w = price
    OBVIOUS
  <2>2. Structure(d) /\ w \in Nat \ {0} /\ n = WithLevel(d, buy, w)
    BY <2>1
  <2> HIDE DEF There, Outside, InBlank, Before
  <2> QED BY ONLY <2>1, <2>2, buy \in BOOLEAN, WithLevelCases DEF There, Outside, InBlank, Before
<1> HIDE DEF old, E
<1>8. \A b \in BOOLEAN, i \in 1..SIZE : Same(d, d, b, i)
  BY DEF Same
<1>9. CASE n = d /\ There
  BY <1>8, <1>9 DEF Prepared
<1>10. CASE Outside
  <2> DEFINE X == E \cup {Fresh(price)}
  <2>1. n = SetExcess(d, buy, X)
    BY <1>10 DEF E
  <2>2. Fresh(price) \in Level /\ Fresh(price).price = price
    BY FreshIsLevel
  <2>3. X \in SUBSET Level /\ Fresh(price) \in X
    BY <1>3, <2>2
  <2>4. \A e \in E : e.price # price
    BY <1>10 DEF ExcessHas, E
  <2>5. Ordered(old, X, buy)
    BY <1>3, <1>10, <2>2, <2>4, OrderedExcessAdd DEF old
  <2>6. \E m \in Nat : BoundedBy(X, m)
    <3>1. PICK m \in Nat : BoundedBy(E, m)
      BY <1>3
    <3>2. BoundedBy(X, m + price)
      BY <1>3, <2>2, <3>1 DEF BoundedBy, Level
    <3> QED BY <3>1, <3>2
  <2> HIDE DEF X
  <2>7. /\ n \in DepthObject
        /\ n.stamp = d.stamp /\ n.level = d.level /\ n.lastChange = d.lastChange
        /\ n.lastPublished = d.lastPublished /\ n.failed = d.failed
        /\ \A c \in BOOLEAN : n.excess[c] = IF c = buy THEN X ELSE d.excess[c]
    BY <1>1, <2>1, <2>3, ExcessUpdate
  <2>8. Structure(n)
    BY <2>5, <2>6, <2>7 DEF Structure, old
  <2>9. ExcessHas(n, buy, price)
    BY <2>2, <2>3, <2>7 DEF ExcessHas
  <2>10. \A b \in BOOLEAN, i \in 1..SIZE : Same(d, n, b, i)
    BY <2>7 DEF Same
  <2> QED BY <2>7, <2>8, <2>9, <2>10 DEF Prepared
<1>12. CASE \E a \in 1..SIZE : InBlank(a)
  <2>2. PICK a \in 1..SIZE : InBlank(a)
    BY <1>12
  <2>3. Fresh(price) \in Level /\ Fresh(price).price = price
    BY FreshIsLevel
  <2>4. n = SetLevel(d, buy, a, Fresh(price))
    BY <2>2
  <2>5. /\ n \in DepthObject
        /\ n.stamp = d.stamp /\ n.excess = d.excess /\ n.lastChange = d.lastChange
        /\ n.lastPublished = d.lastPublished /\ n.failed = d.failed
        /\ \A c \in BOOLEAN, j \in 1..SIZE :
             n.level[c][j] = IF c = buy /\ j = a THEN Fresh(price) ELSE d.level[c][j]
    BY <1>1, <2>2, <2>3, <2>4, LevelUpdate
  <2>6. \A c \in BOOLEAN : n.level[c] \in Array /\ d.level[c] \in Array
    BY <1>1, <2>5, ObjectFields
  <2>7. ASSUME NEW c \in BOOLEAN
        PROVE  Ordered(n.level[c], n.excess[c], c)
    <3>1. CASE c = buy
      <4>1. /\ n.level[buy] \in Array /\ n.level[buy][a].price = price
            /\ \A i \in 1..SIZE : i # a => n.level[buy][i] = old[i]
            /\ n.excess[buy] = E
        BY <2>2, <2>3, <2>5, <2>6 DEF old, E
      <4>2. Ordered(n.level[buy], E, buy)
        BY <1>3, <2>2, <4>1, OrderedFill
      <4> QED BY <3>1, <4>1, <4>2
    <3>2. CASE c # buy
      <4>1. Ordered(d.level[c], d.excess[c], c)
        BY DEF Structure
      <4>2. \A i \in 1..SIZE : n.level[c][i].price = d.level[c][i].price
        BY <2>5, <3>2
      <4>3. d.excess[c] \in SUBSET Level /\ n.excess[c] = d.excess[c]
        BY <1>1, <2>5, ObjectFields
      <4>4. Ordered(n.level[c], d.excess[c], c)
        BY <2>6, <4>1, <4>2, <4>3, OrderedByPrices
      <4> QED BY <4>3, <4>4
    <3> QED BY <3>1, <3>2
  <2>8. n.failed \/ \A c \in BOOLEAN : Blanked(n.level[c])
    BY <2>3, <2>5 DEF Structure, Blanked, INVALID_LEVEL_PRICE
  <2>9. Structure(n)
    BY <2>5, <2>7, <2>8 DEF Structure
  <2>10. \A b \in BOOLEAN, i \in 1..SIZE :
           \/ Same(d, n, b, i)
           \/ b = buy /\ n.level[b][i].price = price
    BY <2>3, <2>5 DEF Same
  <2>11. \E i \in 1..SIZE : n.level[buy][i].price = price
    BY <2>2, <2>3, <2>5
  <2> QED BY <2>5, <2>9, <2>10, <2>11 DEF Prepared
<1>13. CASE \E a \in 1..SIZE : Before(a)
  <2>1. PICK a \in 1..SIZE : Before(a)
    BY <1>13
  <2> QED BY <2>1, InsertKeeps DEF old
<1> QED BY <1>4, <1>9, <1>10, <1>12, <1>13

-----------------------------------------------------------------------------
(* The public member functions *)

(* After find_level() with should_create the level is there, once.         *)
LEMMA PreparedIsFound ==
  ASSUME NEW d, NEW n, Structure(n), NEW buy \in BOOLEAN,
         NEW price, price \in Nat \ {0}, Prepared(d, n, buy, price),
         NEW loc, loc = Find(n, buy, price)
  PROVE  /\ ValidLoc(n, loc) /\ loc.buy = buy
         /\ At(n, loc).price = price
         /\ \A i \in 1..SIZE : n.level[buy][i].price = price => i = loc.at
         /\ loc.at = 0 =>
              n.level = d.level /\ n.stamp = d.stamp /\ n.lastChange = d.lastChange
<1>0. SIZE \in Nat \ {0}
  BY DepthAssumption DEF DepthAssumption
<1>1. n \in DepthObject
  BY DEF Structure
<1>2. \A i \in 1..SIZE : n.level[buy][i].price \in Nat
  BY <1>1 DEF DepthObject, Level
<1> DEFINE found == {i \in 1..SIZE : n.level[buy][i].price = price}
<1>3. CASE found # {}
  <2>1. PICK i \in 1..SIZE : i = Min(found) /\ n.level[buy][i].price = price
    BY <1>3, MinIsLeast
  <2>2. loc = Loc(buy, i, price)
    BY <1>3, <2>1 DEF Find
  <2>3. loc.buy = buy /\ loc.at = i /\ loc.price = price /\ i # 0
    BY <1>0, <2>2 DEF Loc
  <2>4. ValidLoc(n, loc)
    BY <1>0, <2>2, <2>3 DEF ValidLoc
  <2>5. At(n, loc) = n.level[buy][i]
    BY <1>0, <2>3 DEF At
  <2>6. ASSUME NEW j \in 1..SIZE, n.level[buy][j].price = price
        PROVE  j = i
    <3>1. Ordered(n.level[buy], n.excess[buy], buy)
      BY DEF Structure
    <3>2. ~Better(buy, price, price)
      BY DEF Better
    <3>3. ~(i < j) /\ ~(j < i)
      BY <2>1, <2>6, <3>1, <3>2 DEF Ordered, INVALID_LEVEL_PRICE
    <3> QED BY <1>0, <3>3
  <2> QED BY <2>1, <2>3, <2>4, <2>5, <2>6
<1>4. CASE found = {}
  <2>1. ExcessHas(n, buy, price) /\ n.level = d.level /\ n.stamp = d.stamp /\ n.lastChange = d.lastChange
    BY <1>4 DEF Prepared
  <2>2. loc = Loc(buy, 0, price)
    BY <1>4, <2>1 DEF Find
  <2>3. loc.buy = buy /\ loc.at = 0 /\ loc.price = price
    BY <2>2 DEF Loc
  <2>4. ValidLoc(n, loc)
    BY <1>0, <2>1, <2>2, <2>3 DEF ValidLoc
  <2>5. At(n, loc).price = price
    BY <1>1, <2>3, <2>4, AtIsLevel
  <2>6. \A i \in 1..SIZE : n.level[buy][i].price # price
    BY <1>4
  <2> QED BY <2>1, <2>3, <2>4, <2>5, <2>6
<1> QED BY <1>3, <1>4

LEMMA AddOrderKeeps ==
  ASSUME NEW d, Structure(d), Numbered(d), NEW buy \in BOOLEAN,
         NEW price, price \in Nat \ {0}, NEW qty, qty \in Nat,
         NEW r, r = AddOrder(d, buy, price, qty)
  PROVE  Structure(r) /\ Numbered(r) /\ Advances(d, r)
<1>0. SIZE \in Nat \ {0}
  BY DepthAssumption DEF DepthAssumption
<1> DEFINE n == WithLevel(d, buy, price)
           loc == Find(n, buy, price)
           l == At(n, loc)
           more == [l EXCEPT !.count = @ + 1, !.qty = (@ + qty) % Word]
           added == Put(n, loc, more)
           now == d.lastChange + 1
<1>1. r = IF loc.at = 0 THEN added
          ELSE [added EXCEPT !.lastChange = now, !.stamp[buy][loc.at] = now]
  BY DEF AddOrder
<1>2. Structure(n) /\ Prepared(d, n, buy, price)
  BY WithLevelKeeps
<1> HIDE DEF n
<1>14. loc = Find(n, buy, price)
  OBVIOUS
<1> HIDE DEF loc
<1>3. /\ ValidLoc(n, loc) /\ loc.buy = buy
      /\ At(n, loc).price = price
      /\ \A i \in 1..SIZE : n.level[buy][i].price = price => i = loc.at
      /\ loc.at = 0 => n.level = d.level /\ n.stamp = d.stamp /\ n.lastChange = d.lastChange
  BY <1>2, <1>14, PreparedIsFound
<1>4. d \in DepthObject /\ n \in DepthObject
  BY <1>2 DEF Structure
<1>5. l \in Level /\ l.price = price
  BY <1>3, <1>4, AtIsLevel
<1> HIDE DEF l
<1>6. more \in Level /\ more.price = price
  <2>1. l.count + 1 \in Nat /\ (l.qty + qty) % Word \in Quantity
    <3>1. l.count \in Nat /\ l.qty + qty \in Int
      BY <1>5 DEF Level, Quantity
    <3> QED BY <3>1, ModuloIsQuantity
  <2> QED BY <1>5, <2>1 DEF Level
<1>7. more.price = At(n, loc).price /\ more.price # 0
  BY <1>3, <1>6
<1> HIDE DEF more
<1>8. /\ Structure(added)
      /\ added.stamp = n.stamp /\ added.lastChange = n.lastChange
      /\ added.lastPublished = n.lastPublished /\ added.failed = n.failed
      /\ \A b \in BOOLEAN, i \in 1..SIZE :
           added.level[b][i] = n.level[b][i] \/ (b = loc.buy /\ i = loc.at)
  BY <1>2, <1>3, <1>6, <1>7, PutKeeps
<1>9. r = IF loc.at = 0 THEN added ELSE SetStamp(SetChange(added, now), buy, loc.at, now)
  BY <1>1, <1>4, <1>8 DEF SetStamp, SetChange, Structure, DepthObject
<1> HIDE DEF added
<1>10. d.lastChange \in Nat /\ d.lastPublished \in Nat
  BY <1>4 DEF DepthObject
<1>11. \A b \in BOOLEAN, i \in 1..SIZE : d.stamp[b][i] \in Nat
  BY <1>4 DEF DepthObject
<1>12. CASE loc.at = 0
  <2>1. \A b \in BOOLEAN, i \in 1..SIZE : Same(d, r, b, i)
    BY <1>3, <1>8, <1>9, <1>12 DEF Same
  <2>2. /\ Structure(r) /\ r.lastChange = d.lastChange
        /\ r.lastPublished = d.lastPublished /\ r.failed = d.failed
    BY <1>2, <1>3, <1>8, <1>9, <1>12 DEF Prepared
  <2> QED BY <1>10, <2>1, <2>2 DEF Numbered, Advances, Same
<1>13. CASE loc.at # 0
  <2>1. PICK k : k = now
    OBVIOUS
  <2>2. k \in Nat /\ k = d.lastChange + 1
    BY <1>10, <2>1
  <2>3. PICK at : at = loc.at
    OBVIOUS
  <2>4. at \in 0..SIZE /\ at > 0
    BY <1>0, <1>3, <1>13, <2>3 DEF ValidLoc
  <2>5. r = IF at > 0 THEN SetStamp(SetChange(added, k), buy, at, k) ELSE SetChange(added, k)
    BY <1>9, <1>13, <2>1, <2>3, <2>4
  <2>6. added \in DepthObject
    BY <1>8 DEF Structure
  <2>7. /\ r \in DepthObject
        /\ r.level = added.level /\ r.excess = added.excess /\ r.lastChange = k
        /\ r.lastPublished = added.lastPublished /\ r.failed = added.failed
        /\ \A c \in BOOLEAN, j \in 1..SIZE :
             /\ c = buy /\ j = at => r.stamp[c][j] = k
             /\ c # buy \/ j # at => r.stamp[c][j] = added.stamp[c][j]
    <3>1. k \in Nat /\ at \in 0..SIZE /\ added \in DepthObject
      BY <2>2, <2>4, <2>6
    <3> QED BY <2>5, <3>1, NumberAndStamp, SMTT(60)
  <2>8. Structure(r)
    BY <1>8, <2>7 DEF Structure
  <2>9. r.lastPublished = d.lastPublished /\ r.failed = d.failed
    BY <1>2, <1>8, <2>7 DEF Prepared
  <2>10. n.lastChange \in Nat /\ n.lastChange <= k
    BY <1>2, <1>10, <2>2 DEF Prepared
  <2>11. ASSUME NEW b \in BOOLEAN, NEW i \in 1..SIZE
         PROVE  r.stamp[b][i] <= k
    <3>1. r.stamp[b][i] \in {k, n.stamp[b][i]}
      BY <1>8, <2>7
    <3>2. n.stamp[b][i] \in {d.stamp[b][i], n.lastChange}
      BY <1>2 DEF Prepared
    <3>3. d.stamp[b][i] <= d.lastChange /\ d.stamp[b][i] \in Nat
      BY <1>11 DEF Numbered
    <3> QED BY <1>10, <2>2, <2>10, <3>1, <3>2, <3>3
  <2>12. Numbered(r)
    BY <1>10, <2>2, <2>7, <2>9, <2>11 DEF Numbered
  <2>13. ASSUME NEW b \in BOOLEAN, NEW i \in 1..SIZE
         PROVE  r.failed \/ Same(d, r, b, i) \/ r.stamp[b][i] > d.lastChange
    <3>1. CASE b = buy /\ i = at
      BY <1>10, <2>2, <2>7, <3>1
    <3>2. CASE ~(b = buy /\ i = at)
      <4>1. r.level[b][i] = n.level[b][i] /\ r.stamp[b][i] = n.stamp[b][i]
        BY <1>3, <1>8, <2>3, <2>7, <3>2
      <4>2. n.failed \/ Same(d, n, b, i) \/ n.stamp[b][i] = d.lastChange + 1
        BY <1>2, <1>3, <2>3, <3>2 DEF Prepared
      <4>3. n.failed => r.failed
        BY <1>8, <2>7
      <4>4. d.lastChange + 1 > d.lastChange
        BY <1>10
      <4> QED BY <4>1, <4>2, <4>3, <4>4 DEF Same
    <3> QED BY <3>1, <3>2
  <2>14. Advances(d, r)
    BY <1>10, <2>2, <2>7, <2>9, <2>13 DEF Advances
  <2> QED BY <2>8, <2>12, <2>14
<1> QED BY <1>12, <1>13

LEMMA FailedKeeps ==
  ASSUME NEW d, Structure(d), NEW n, n = Failed(d)
  PROVE  /\ Structure(n) /\ n.failed
         /\ n.level = d.level /\ n.stamp = d.stamp /\ n.excess = d.excess
         /\ n.lastChange = d.lastChange /\ n.lastPublished = d.lastPublished
<1>1. d \in DepthObject
  BY DEF Structure
<1>2. /\ n \in DepthObject /\ n.failed
      /\ n.level = d.level /\ n.stamp = d.stamp /\ n.excess = d.excess
      /\ n.lastChange = d.lastChange /\ n.lastPublished = d.lastPublished
  BY <1>1 DEF Failed, DepthObject
<1> QED BY <1>2 DEF Structure

(* A call that fails may leave the levels as it likes. *)
LEMMA FailureAdvances ==
  ASSUME NEW d, Structure(d), Numbered(d), NEW e, Structure(e),
         e.stamp = d.stamp, e.lastChange = d.lastChange, e.lastPublished = d.lastPublished,
         NEW n, n = Failed(e)
  PROVE  Structure(n) /\ Numbered(n) /\ Advances(d, n)
<1>1. /\ Structure(n) /\ n.failed
      /\ n.stamp = e.stamp /\ n.lastChange = e.lastChange /\ n.lastPublished = e.lastPublished
  BY FailedKeeps
<1>2. d.lastChange \in Nat
  BY DEF Structure, DepthObject
<1> QED BY <1>1, <1>2 DEF Numbered, Advances

(* The level that a call finds is changed in place. *)
LEMMA PutChecked ==
  ASSUME NEW d, Structure(d), NEW buy \in BOOLEAN, NEW price, price \in Nat \ {0},
         NEW loc, loc = Find(d, buy, price), ~(loc.at > SIZE),
         NEW l \in Level, l.price = At(d, loc).price,
         NEW n, n = Checked(d, loc, buy), NEW e, e = Put(n, loc, l)
  PROVE  /\ Structure(e) /\ ValidLoc(e, loc)
         /\ e.stamp = d.stamp /\ e.lastChange = d.lastChange
         /\ e.lastPublished = d.lastPublished
         /\ d.failed => e.failed
         /\ e.failed \/ loc.buy = buy
         /\ \A b \in BOOLEAN, i \in 1..SIZE :
              e.level[b][i] = d.level[b][i] \/ (b = loc.buy /\ i = loc.at)
<1>1. d \in DepthObject
  BY DEF Structure
<1>2. /\ ValidLoc(d, loc)
      /\ Missing(loc, buy) \/ At(d, loc).price = price
  BY <1>1, FindFinds
<1>3. /\ Structure(n)
      /\ n.level = d.level /\ n.stamp = d.stamp /\ n.excess = d.excess
      /\ n.lastChange = d.lastChange /\ n.lastPublished = d.lastPublished
      /\ d.failed => n.failed
      /\ Missing(loc, buy) => n.failed
  <2>1. CASE Missing(loc, buy)
    <3>1. n = Failed(d)
      BY <2>1 DEF Checked
    <3> QED BY <2>1, <3>1, FailedKeeps
  <2>2. CASE ~Missing(loc, buy)
    BY <2>2 DEF Checked
  <2> QED BY <2>1, <2>2
<1>4. ValidLoc(n, loc) /\ At(n, loc) = At(d, loc)
  BY <1>2, <1>3 DEF ValidLoc, ExcessHas, At
<1>5. n.failed \/ l.price # 0
  BY <1>2, <1>3
<1>6. /\ Structure(e) /\ ValidLoc(e, loc)
      /\ e.stamp = n.stamp /\ e.lastChange = n.lastChange
      /\ e.lastPublished = n.lastPublished /\ e.failed = n.failed
      /\ \A b \in BOOLEAN, i \in 1..SIZE :
           e.level[b][i] = n.level[b][i] \/ (b = loc.buy /\ i = loc.at)
  BY <1>3, <1>4, <1>5, PutKeeps
<1>7. e.failed \/ loc.buy = buy
  BY <1>3, <1>6 DEF Missing
<1> QED BY <1>3, <1>6, <1>7

LEMMA CloseOrderKeeps ==
  ASSUME NEW d, Structure(d), Numbered(d), NEW buy \in BOOLEAN,
         NEW price, price \in Nat \ {0}, NEW qty, qty \in Nat,
         NEW r, r = CloseOrder(d, buy, price, qty)
  PROVE  Structure(r) /\ Numbered(r) /\ Advances(d, r)
<1> DEFINE loc == Find(d, buy, price)
           l == At(d, loc)
           n == Checked(d, loc, buy)
<1>1. d \in DepthObject
  BY DEF Structure
<1>2. d.lastChange \in Nat
  BY <1>1 DEF DepthObject
<1>3. /\ loc.at > SIZE \/ ValidLoc(d, loc)
      /\ loc.buy = buy \/ loc.at > 0
  BY <1>1, FindFinds
<1>4. r = IF loc.at > SIZE \/ l.count = 0 THEN Failed(d)
          ELSE CASE l.count = 1 -> Erase(Put(n, loc, Fresh(l.price)), buy, loc)
                 [] l.count > 1 /\ l.qty >= qty ->
                      Touch(Put(n, loc, [l EXCEPT !.count = @ - 1, !.qty = @ - qty]), loc)
                 [] OTHER -> Failed(Put(n, loc, [l EXCEPT !.count = @ - 1]))
  BY DEF CloseOrder
<1>5. CASE loc.at > SIZE \/ l.count = 0
  <2>1. r = Failed(d)
    BY <1>4, <1>5
  <2> QED BY <2>1, FailureAdvances
<1>6. CASE ~(loc.at > SIZE) /\ l.count # 0
  <2>1. l \in Level
    BY <1>1, <1>3, <1>6, AtIsLevel
  <2>2. l.price \in Nat /\ l.count \in Nat \ {0} /\ l.qty \in Nat /\ l.qty \in Quantity
    BY <1>6, <2>1 DEF Level, Quantity
  <2>3. PICK now : now = loc
    OBVIOUS
  <2>4. CASE l.count = 1
    <3> DEFINE m == Fresh(l.price)
               e == Put(n, loc, m)
    <3>1. r = Erase(e, buy, loc)
      BY <1>4, <1>6, <2>4
    <3>2. m \in Level /\ m.price = l.price
      BY <2>2, FreshIsLevel
    <3> HIDE DEF m
    <3>3. /\ Structure(e) /\ ValidLoc(e, loc)
          /\ e.stamp = d.stamp /\ e.lastChange = d.lastChange
          /\ e.lastPublished = d.lastPublished
          /\ d.failed => e.failed
          /\ e.failed \/ loc.buy = buy
          /\ \A b \in BOOLEAN, i \in 1..SIZE :
               e.level[b][i] = d.level[b][i] \/ (b = loc.buy /\ i = loc.at)
      BY <1>6, <3>2, PutChecked
    <3> HIDE DEF e, loc
    <3>4. Numbered(e)
      BY <3>3 DEF Numbered
    <3>5. /\ Structure(r) /\ Numbered(r) /\ Advances(e, r)
          /\ r.failed = e.failed
          /\ loc.buy = buy /\ loc.at > 0 => r.stamp[buy][loc.at] > e.lastChange
      BY <1>3, <3>1, <3>3, <3>4, EraseKeeps
    <3>6. ASSUME NEW b \in BOOLEAN, NEW i \in 1..SIZE
          PROVE  r.failed \/ Same(d, r, b, i) \/ r.stamp[b][i] > d.lastChange
      <4>1. CASE e.failed
        BY <3>5, <4>1
      <4>2. CASE ~e.failed /\ b = loc.buy /\ i = loc.at
        BY <3>3, <3>5, <4>2
      <4>3. CASE ~(b = loc.buy /\ i = loc.at)
        BY <3>3, <3>5, <4>3 DEF Advances, Same
      <4> QED BY <4>1, <4>2, <4>3
    <3> QED BY <3>3, <3>5, <3>6 DEF Advances
  <2>5. CASE l.count > 1 /\ l.qty >= qty
    <3> DEFINE m == [l EXCEPT !.count = @ - 1, !.qty = @ - qty]
               e == Put(n, loc, m)
    <3>1. r = Touch(e, loc)
      BY <1>4, <1>6, <2>5
    <3>2. m \in Level /\ m.price = l.price
      <4>1. l.count - 1 \in Nat
        BY <2>2
      <4>2. l.qty - qty \in Quantity
        BY <2>2, <2>5, DepthAssumption DEF Quantity, DepthAssumption
      <4> QED BY <2>1, <4>1, <4>2 DEF Level
    <3> HIDE DEF m
    <3>3. /\ Structure(e) /\ ValidLoc(e, loc)
          /\ e.stamp = d.stamp /\ e.lastChange = d.lastChange
          /\ e.lastPublished = d.lastPublished
          /\ d.failed => e.failed
          /\ \A b \in BOOLEAN, i \in 1..SIZE :
               e.level[b][i] = d.level[b][i] \/ (b = loc.buy /\ i = loc.at)
      BY <1>6, <3>2, PutChecked
    <3> HIDE DEF e, loc
    <3> QED BY <3>1, <3>3, TouchKeeps
  <2>6. CASE l.count # 1 /\ ~(l.count > 1 /\ l.qty >= qty)
    <3> DEFINE m == [l EXCEPT !.count = @ - 1]
               e == Put(n, loc, m)
    <3>1. r = Failed(e)
      BY <1>4, <1>6, <2>6
    <3>2. m \in Level /\ m.price = l.price
      <4>1. l.count - 1 \in Nat
        BY <2>2
      <4> QED BY <2>1, <4>1 DEF Level
    <3> HIDE DEF m
    <3>3. /\ Structure(e)
          /\ e.stamp = d.stamp /\ e.lastChange = d.lastChange
          /\ e.lastPublished = d.lastPublished
      BY <1>6, <3>2, PutChecked
    <3> HIDE DEF e
    <3> QED BY <3>1, <3>3, FailureAdvances
  <2> QED BY <2>4, <2>5, <2>6
<1> QED BY <1>5, <1>6

LEMMA ChangeQtyOrderKeeps ==
  ASSUME NEW d, Structure(d), Numbered(d), NEW buy \in BOOLEAN,
         NEW price, price \in Nat \ {0}, NEW delta, delta \in Int,
         NEW r, r = ChangeQtyOrder(d, buy, price, delta)
  PROVE  Structure(r) /\ Numbered(r) /\ Advances(d, r)
<1> DEFINE loc == Find(d, buy, price)
           l == At(d, loc)
           m == [l EXCEPT !.qty = (@ + delta) % Word]
           e == Put(Checked(d, loc, buy), loc, m)
<1>1. d \in DepthObject
  BY DEF Structure
<1>2. loc.at > SIZE \/ ValidLoc(d, loc)
  BY <1>1, FindFinds
<1>3. r = CASE delta = 0 -> d
            [] delta # 0 /\ loc.at > SIZE -> Failed(d)
            [] OTHER -> Touch(e, loc)
  BY DEF ChangeQtyOrder
<1>4. CASE delta = 0
  <2>1. r = d
    BY <1>3, <1>4
  <2>2. d.lastChange \in Nat
    BY <1>1 DEF DepthObject
  <2> QED BY <2>1, <2>2 DEF Advances, Same
<1>5. CASE delta # 0 /\ loc.at > SIZE
  <2>1. r = Failed(d)
    BY <1>3, <1>5
  <2> QED BY <2>1, FailureAdvances
<1>6. CASE delta # 0 /\ ~(loc.at > SIZE)
  <2>1. r = Touch(e, loc)
    BY <1>3, <1>6
  <2>2. l \in Level
    BY <1>1, <1>2, <1>6, AtIsLevel
  <2>3. m \in Level /\ m.price = l.price
    <3>1. (l.qty + delta) % Word \in Quantity
      <4>1. l.qty + delta \in Int
        BY <2>2 DEF Level, Quantity
      <4> QED BY <4>1, ModuloIsQuantity
    <3> QED BY <2>2, <3>1 DEF Level
  <2> HIDE DEF m
  <2>4. /\ Structure(e) /\ ValidLoc(e, loc)
        /\ e.stamp = d.stamp /\ e.lastChange = d.lastChange
        /\ e.lastPublished = d.lastPublished
        /\ d.failed => e.failed
        /\ \A b \in BOOLEAN, i \in 1..SIZE :
             e.level[b][i] = d.level[b][i] \/ (b = loc.buy /\ i = loc.at)
    BY <1>6, <2>3, PutChecked
  <2> HIDE DEF e, loc
  <2> QED BY <2>1, <2>4, TouchKeeps
<1> QED BY <1>4, <1>5, <1>6

LEMMA ReplaceOrderKeeps ==
  ASSUME NEW d, Structure(d), Numbered(d), NEW buy \in BOOLEAN,
         NEW price, price \in Nat \ {0}, NEW newPrice, newPrice \in Nat \ {0},
         NEW qty, qty \in Nat, NEW newQty, newQty \in Nat,
         NEW r, r = ReplaceOrder(d, buy, price, newPrice, qty, newQty)
  PROVE  Structure(r) /\ Numbered(r) /\ Advances(d, r)
<1>1. CASE price = newPrice
  <2>1. PICK delta \in Int : delta = newQty - qty
    OBVIOUS
  <2>2. r = ChangeQtyOrder(d, buy, price, delta)
    BY <1>1, <2>1 DEF ReplaceOrder
  <2> QED BY <2>2, ChangeQtyOrderKeeps
<1>2. CASE price # newPrice
  <2> DEFINE e == AddOrder(d, buy, newPrice, newQty)
  <2>1. r = CloseOrder(e, buy, price, qty)
    BY <1>2 DEF ReplaceOrder
  <2>2. Structure(e) /\ Numbered(e) /\ Advances(d, e)
    BY AddOrderKeeps
  <2> HIDE DEF e
  <2>3. Structure(r) /\ Numbered(r) /\ Advances(e, r)
    BY <2>1, <2>2, CloseOrderKeeps
  <2>4. d \in DepthObject /\ e \in DepthObject /\ r \in DepthObject
    BY <2>2, <2>3 DEF Structure
  <2> QED BY <2>2, <2>3, <2>4, AdvancesTwice
<1> QED BY <1>1, <1>2

LEMMA IgnoreUpdate ==
  ASSUME NEW d, Structure(d), Numbered(d), NEW I \in [BOOLEAN -> Quantity],
         NEW n, n = [d EXCEPT !.ignore = I]
  PROVE  Structure(n) /\ Numbered(n) /\ Advances(d, n)
<1>1. d \in DepthObject
  BY DEF Structure
<1>2. /\ n \in DepthObject
      /\ n.level = d.level /\ n.stamp = d.stamp /\ n.excess = d.excess /\ n.failed = d.failed
      /\ n.lastChange = d.lastChange /\ n.lastPublished = d.lastPublished
  BY <1>1 DEF DepthObject
<1>3. d.lastChange \in Nat
  BY <1>1 DEF DepthObject
<1> QED BY <1>2, <1>3 DEF Structure, Numbered, Advances, Same

LEMMA FillOrderKeeps ==
  ASSUME NEW d, Structure(d), Numbered(d), NEW buy \in BOOLEAN,
         NEW price, price \in Nat, price # 0 \/ d.ignore[buy] # 0,
         NEW qty, qty \in Nat, NEW filled \in BOOLEAN,
         NEW r, r = FillOrder(d, buy, price, qty, filled)
  PROVE  Structure(r) /\ Numbered(r) /\ Advances(d, r)
<1>1. d \in DepthObject
  BY DEF Structure
<1>2. CASE d.ignore[buy] # 0
  <2> DEFINE left == (d.ignore[buy] - qty) % Word
             I == [d.ignore EXCEPT ![buy] = left]
  <2>1. left \in Quantity
    <3>1. d.ignore[buy] - qty \in Int
      BY <1>1 DEF DepthObject, Quantity
    <3> QED BY <3>1, ModuloIsQuantity
  <2> HIDE DEF left
  <2>2. I \in [BOOLEAN -> Quantity]
    BY <1>1, <2>1 DEF DepthObject
  <2>3. r = [d EXCEPT !.ignore = I]
    BY <1>1, <1>2 DEF FillOrder, DepthObject, left
  <2> HIDE DEF I
  <2> QED BY <1>1, <2>2, <2>3, IgnoreUpdate
<1>3. CASE d.ignore[buy] = 0 /\ filled
  <2>1. r = CloseOrder(d, buy, price, qty)
    BY <1>3 DEF FillOrder
  <2> QED BY <1>3, <2>1, CloseOrderKeeps
<1>4. CASE d.ignore[buy] = 0 /\ ~filled
  <2>1. PICK delta \in Int : delta = -qty
    OBVIOUS
  <2>2. r = ChangeQtyOrder(d, buy, price, delta)
    BY <1>4, <2>1 DEF FillOrder
  <2> QED BY <1>4, <2>2, ChangeQtyOrderKeeps
<1> QED BY <1>2, <1>3, <1>4

LEMMA IgnoreFillQtyKeeps ==
  ASSUME NEW d, Structure(d), Numbered(d), NEW buy \in BOOLEAN, NEW qty \in Quantity,
         NEW r, r = IgnoreFillQty(d, buy, qty)
  PROVE  Structure(r) /\ Numbered(r) /\ Advances(d, r)
<1>1. d \in DepthObject
  BY DEF Structure
<1>2. CASE d.ignore[buy] # 0
  <2>1. r = Failed(d)
    BY <1>2 DEF IgnoreFillQty
  <2> QED BY <2>1, FailureAdvances
<1>3. CASE d.ignore[buy] = 0
  <2> DEFINE I == [d.ignore EXCEPT ![buy] = qty]
  <2>1. I \in [BOOLEAN -> Quantity]
    BY <1>1 DEF DepthObject
  <2>2. r = [d EXCEPT !.ignore = I]
    BY <1>1, <1>3 DEF IgnoreFillQty, DepthObject
  <2> HIDE DEF I
  <2> QED BY <1>1, <2>1, <2>2, IgnoreUpdate
<1> QED BY <1>2, <1>3

LEMMA PublishedKeeps ==
  ASSUME NEW d, Structure(d), Numbered(d), NEW n, n = Published(d)
  PROVE  /\ Structure(n) /\ Numbered(n)
         /\ n.level = d.level /\ n.stamp = d.stamp /\ n.failed = d.failed
         /\ n.lastChange = d.lastChange
<1>1. d \in DepthObject
  BY DEF Structure
<1>2. /\ n \in DepthObject
      /\ n.level = d.level /\ n.stamp = d.stamp /\ n.excess = d.excess /\ n.failed = d.failed
      /\ n.lastChange = d.lastChange /\ n.lastPublished = d.lastChange
  BY <1>1 DEF Published, DepthObject
<1>3. d.lastChange \in Nat
  BY <1>1 DEF DepthObject
<1> QED BY <1>2, <1>3 DEF Structure, Numbered

-----------------------------------------------------------------------------
(* The client *)

(* The inductive invariant: what the levels need, the orders that the      *)
(* client passes on, and the stamps against what was last published.       *)
DInv ==
  /\ Structure(depth) /\ Numbered(depth)
  /\ order \in [Orders -> ClientOrder]
  /\ \A o \in Orders : IsOpen(o) => order[o].price # 0
  /\ shown \in [BOOLEAN -> [1..SIZE -> Level]]
  /\ ChangesAreStamped

(* A step of the client that calls one member function. *)
LEMMA CallKeeps ==
  ASSUME DInv, Structure(depth'), Numbered(depth'), Advances(depth, depth'),
         UNCHANGED shown,
         order' \in [Orders -> ClientOrder],
         \A o \in Orders : IsOpen(o)' => order'[o].price # 0
  PROVE  DInv'
<1>1. depth \in DepthObject /\ depth' \in DepthObject
  BY DEF DInv, Structure
<1>2. depth.lastChange \in Nat /\ depth.lastPublished \in Nat /\ depth.lastPublished <= depth.lastChange
  BY <1>1 DEF DepthObject, DInv, Numbered
<1>3. ASSUME ~depth'.failed, NEW buy \in BOOLEAN, NEW i \in 1..SIZE
      PROVE  /\ depth'.stamp[buy][i] <= depth'.lastChange
             /\ depth'.level[buy][i] # shown'[buy][i] =>
                  depth'.stamp[buy][i] > depth'.lastPublished
  <2>1. depth'.stamp[buy][i] <= depth'.lastChange
    BY DEF Numbered
  <2>2. /\ depth'.lastPublished = depth.lastPublished
        /\ ~depth.failed
        /\ Same(depth, depth', buy, i) \/ depth'.stamp[buy][i] > depth.lastChange
    BY <1>3 DEF Advances
  <2>3. depth.level[buy][i] # shown[buy][i] => depth.stamp[buy][i] > depth.lastPublished
    BY <2>2 DEF DInv, ChangesAreStamped
  <2>4. depth'.stamp[buy][i] \in Nat
    BY <1>1 DEF DepthObject
  <2>5. CASE Same(depth, depth', buy, i)
    BY <2>1, <2>2, <2>3, <2>5 DEF Same
  <2>6. CASE depth'.stamp[buy][i] > depth.lastChange
    BY <1>2, <2>1, <2>2, <2>4, <2>6
  <2> QED BY <2>2, <2>5, <2>6
<1>4. ChangesAreStamped'
  BY <1>3 DEF ChangesAreStamped
<1> QED BY <1>4 DEF DInv

(* A new object. *)
LEMMA NewIsSound ==
  ASSUME NEW d, d = NewDepth
  PROVE  Structure(d) /\ Numbered(d)
<1>0. SIZE \in Nat \ {0} /\ 0 \in Quantity
  BY DepthAssumption DEF DepthAssumption, Quantity
<1>1. Blank \in Level /\ Blank.price = 0
  BY FreshIsLevel DEF Blank, INVALID_LEVEL_PRICE
<1>2. /\ d.level = [buy \in BOOLEAN |-> [i \in 1..SIZE |-> Blank]]
      /\ d.stamp = [buy \in BOOLEAN |-> [i \in 1..SIZE |-> 0]]
      /\ d.excess = [buy \in BOOLEAN |-> {}]
      /\ d.lastChange = 0 /\ d.lastPublished = 0
  BY DEF NewDepth
<1>3. d \in DepthObject
  BY <1>0, <1>1 DEF NewDepth, DepthObject
<1>4. \A buy \in BOOLEAN, i \in 1..SIZE : d.level[buy][i] = Blank /\ d.stamp[buy][i] = 0
  BY <1>2
<1>5. \A buy \in BOOLEAN : /\ Ordered(d.level[buy], d.excess[buy], buy)
                           /\ BoundedBy(d.excess[buy], 0)
                           /\ Blanked(d.level[buy])
  BY <1>1, <1>2, <1>4 DEF Ordered, BoundedBy, Blanked, INVALID_LEVEL_PRICE
<1>6. Structure(d)
  BY <1>3, <1>5 DEF Structure
<1>7. Numbered(d)
  BY <1>2, <1>4 DEF Numbered
<1> QED
  BY <1>6, <1>7

LEMMA InitDInv == Init => DInv
<1> SUFFICES ASSUME Init PROVE DInv
  OBVIOUS
<1>1. depth = NewDepth
  BY DEF Init
<1>2. Structure(depth) /\ Numbered(depth)
  BY <1>1, NewIsSound
<1>3. order \in [Orders -> ClientOrder] /\ \A o \in Orders : ~IsOpen(o)
  BY DepthAssumption DEF DepthAssumption, Init, ClientOrder, NoOrder, IsOpen, Quantity
<1>4. shown = depth.level /\ shown \in [BOOLEAN -> [1..SIZE -> Level]]
  BY <1>1, <1>2 DEF Init, Structure, DepthObject
<1>5. ChangesAreStamped
  BY <1>2, <1>4 DEF ChangesAreStamped, Numbered
<1> QED
  BY <1>2, <1>3, <1>4, <1>5 DEF DInv

LEMMA NextDInv == DInv /\ [Next]_vars => DInv'
<1> SUFFICES ASSUME DInv, [Next]_vars PROVE DInv'
  OBVIOUS
<1>1. /\ Structure(depth) /\ Numbered(depth) /\ depth \in DepthObject
      /\ order \in [Orders -> ClientOrder]
      /\ \A o \in Orders : IsOpen(o) => order[o].price # 0
  BY DEF DInv, Structure
<1>2. \A p \in Prices : p \in Nat \ {0}
  BY DepthAssumption DEF DepthAssumption
<1>3. \A q \in Quantities : q \in Quantity /\ q \in Nat
  BY DepthAssumption DEF DepthAssumption, Quantity
<1>4. \A o \in Orders : /\ order[o].buy \in BOOLEAN /\ order[o].price \in Nat
                        /\ order[o].qty \in Quantity /\ order[o].qty \in Nat
  BY <1>1 DEF ClientOrder, Quantity
<1>5. \A o \in Orders : order[o].qty > 0 => IsOpen(o)
  BY DEF IsOpen, NoOrder
<1>6. NoOrder \in ClientOrder
  BY DepthAssumption DEF NoOrder, ClientOrder, Quantity, DepthAssumption
(* One order of the client is changed. *)
<1>7. ASSUME NEW o \in Orders, NEW c, c \in ClientOrder, c # NoOrder => c.price # 0,
             order' = [order EXCEPT ![o] = c]
      PROVE  /\ order' \in [Orders -> ClientOrder]
             /\ \A x \in Orders : IsOpen(x)' => order'[x].price # 0
  BY <1>1, <1>7 DEF IsOpen
<1>8. ASSUME UNCHANGED order
      PROVE  /\ order' \in [Orders -> ClientOrder]
             /\ \A x \in Orders : IsOpen(x)' => order'[x].price # 0
  BY <1>1, <1>8 DEF IsOpen
<1>9. ASSUME UNCHANGED shown, NEW o \in Orders, Add(o)
      PROVE  DInv'
  <2>1. PICK buy \in BOOLEAN, price \in Prices, qty \in Quantities :
          /\ depth' = AddOrder(depth, buy, price, qty)
          /\ order' = [order EXCEPT ![o] = [buy |-> buy, price |-> price, qty |-> qty]]
    BY <1>9 DEF Add
  <2>2. Structure(depth') /\ Numbered(depth') /\ Advances(depth, depth')
    BY <1>1, <1>2, <1>3, <2>1, AddOrderKeeps
  <2> DEFINE c == [buy |-> buy, price |-> price, qty |-> qty]
  <2>3. c \in ClientOrder /\ c.price # 0
    BY <1>2, <1>3 DEF ClientOrder
  <2>4. order' = [order EXCEPT ![o] = c]
    BY <2>1
  <2> HIDE DEF c
  <2> QED BY <1>7, <1>9, <2>2, <2>3, <2>4, CallKeeps
<1>10. ASSUME UNCHANGED shown, NEW o \in Orders, Fill(o)
       PROVE  DInv'
  <2>1. PICK qty \in 1..order[o].qty :
          /\ depth' = FillOrder(depth, order[o].buy, order[o].price, qty, qty = order[o].qty)
          /\ order' = [order EXCEPT ![o] = IF qty = order[o].qty THEN NoOrder
                                           ELSE [order[o] EXCEPT !.qty = @ - qty]]
    BY <1>10 DEF Fill
  <2>2. qty \in Nat /\ order[o].qty > 0 /\ order[o].price # 0
    BY <1>1, <1>4, <1>5
  <2>3. PICK filled \in BOOLEAN : filled = (qty = order[o].qty)
    OBVIOUS
  <2>4. Structure(depth') /\ Numbered(depth') /\ Advances(depth, depth')
    BY <1>1, <1>4, <2>1, <2>2, <2>3, FillOrderKeeps
  <2> DEFINE c == IF qty = order[o].qty THEN NoOrder ELSE [order[o] EXCEPT !.qty = @ - qty]
  <2>5. c \in ClientOrder /\ (c # NoOrder => c.price # 0)
    <3>1. order[o].qty - qty \in Quantity
      <4>1. PICK q \in Quantity : q = order[o].qty
        BY <1>4
      <4>2. q - qty \in Quantity
        BY <2>2, <4>1, DepthAssumption DEF DepthAssumption, Quantity
      <4> QED BY <4>1, <4>2
    <3> QED BY <1>1, <1>6, <2>2, <3>1 DEF ClientOrder
  <2>6. order' = [order EXCEPT ![o] = c]
    BY <2>1
  <2> HIDE DEF c
  <2> QED BY <1>7, <1>10, <2>4, <2>5, <2>6, CallKeeps
<1>11. ASSUME UNCHANGED shown, NEW o \in Orders, Close(o)
       PROVE  DInv'
  <2>1. /\ depth' = CloseOrder(depth, order[o].buy, order[o].price, order[o].qty)
        /\ order' = [order EXCEPT ![o] = NoOrder]
        /\ IsOpen(o)
    BY <1>11 DEF Close
  <2>2. order[o].price # 0
    BY <1>1, <2>1
  <2>3. Structure(depth') /\ Numbered(depth') /\ Advances(depth, depth')
    BY <1>1, <1>4, <2>1, <2>2, CloseOrderKeeps
  <2> QED BY <1>6, <1>7, <1>11, <2>1, <2>3, CallKeeps
<1>12. ASSUME UNCHANGED shown, NEW o \in Orders, Replace(o)
       PROVE  DInv'
  <2>1. PICK price \in Prices, qty \in Quantities \cup {0} :
          /\ order[o].qty > 0
          /\ depth' = ReplaceOrder(depth, order[o].buy, order[o].price, price, order[o].qty, qty)
          /\ order' = [order EXCEPT ![o] = [order[o] EXCEPT !.price = price, !.qty = qty]]
    BY <1>12 DEF Replace
  <2>2. order[o].price # 0 /\ qty \in Nat /\ qty \in Quantity
    BY <1>1, <1>3, <1>5, <2>1, DepthAssumption DEF DepthAssumption, Quantity
  <2>3. Structure(depth') /\ Numbered(depth') /\ Advances(depth, depth')
    BY <1>1, <1>2, <1>4, <2>1, <2>2, ReplaceOrderKeeps
  <2> DEFINE c == [order[o] EXCEPT !.price = price, !.qty = qty]
  <2>4. c \in ClientOrder /\ c.price # 0
    BY <1>1, <1>2, <2>2 DEF ClientOrder
  <2>5. order' = [order EXCEPT ![o] = c]
    BY <2>1
  <2> HIDE DEF c
  <2> QED BY <1>7, <1>12, <2>3, <2>4, <2>5, CallKeeps
<1>13. ASSUME UNCHANGED shown, Ignore
       PROVE  DInv'
  <2>1. PICK buy \in BOOLEAN, qty \in Quantities : depth' = IgnoreFillQty(depth, buy, qty)
    BY <1>13 DEF Ignore
  <2>2. Structure(depth') /\ Numbered(depth') /\ Advances(depth, depth')
    BY <1>1, <1>3, <2>1, IgnoreFillQtyKeeps
  <2>3. UNCHANGED order
    BY <1>13 DEF Ignore
  <2> QED BY <1>8, <1>13, <2>2, <2>3, CallKeeps
<1>14. ASSUME UNCHANGED shown, FillIgnored
       PROVE  DInv'
  <2>1. PICK buy \in BOOLEAN : \E qty \in 1..depth.ignore[buy], price \in Prices :
          depth' = FillOrder(depth, buy, price, qty, qty = depth.ignore[buy])
    BY <1>14 DEF FillIgnored
  <2>2. PICK qty \in 1..depth.ignore[buy], price \in Prices :
          depth' = FillOrder(depth, buy, price, qty, qty = depth.ignore[buy])
    BY <2>1
  <2>3. qty \in Nat /\ price \in Nat /\ price # 0
    <3>1. depth.ignore[buy] \in Nat
      BY <1>1 DEF DepthObject, Quantity
    <3> QED BY <1>2, <3>1
  <2>4. PICK filled \in BOOLEAN : filled = (qty = depth.ignore[buy])
    OBVIOUS
  <2>5. Structure(depth') /\ Numbered(depth') /\ Advances(depth, depth')
    BY <1>1, <2>2, <2>3, <2>4, FillOrderKeeps
  <2>6. UNCHANGED order
    BY <1>14 DEF FillIgnored
  <2> QED BY <1>8, <1>14, <2>5, <2>6, CallKeeps
<1>15. CASE Publish
  <2>1. depth' = Published(depth) /\ shown' = depth.level /\ UNCHANGED order
    BY <1>15 DEF Publish
  <2>2. /\ Structure(depth') /\ Numbered(depth')
        /\ depth'.level = depth.level /\ depth'.stamp = depth.stamp
        /\ depth'.failed = depth.failed /\ depth'.lastChange = depth.lastChange
    BY <1>1, <2>1, PublishedKeeps
  <2>3. shown' \in [BOOLEAN -> [1..SIZE -> Level]]
    BY <1>1, <2>1 DEF DepthObject
  <2>4. ChangesAreStamped'
    BY <2>1, <2>2 DEF ChangesAreStamped, Numbered
  <2> QED BY <1>8, <2>1, <2>2, <2>3, <2>4 DEF DInv
<1>16. CASE UNCHANGED vars
  BY <1>8, <1>16 DEF DInv, vars, ChangesAreStamped
<1> QED BY <1>9, <1>10, <1>11, <1>12, <1>13, <1>14, <1>15, <1>16 DEF Next

-----------------------------------------------------------------------------
(* Theorems *)

LEMMA SpecDInv == Spec => []DInv
BY InitDInv, NextDInv, PTL DEF Spec

(* Every field of the object, every order of the client and every level    *)
(* shown is of its type: no quantity leaves its word, no count is negative *)
(* and no level is read beyond the array.                                  *)
THEOREM DepthIsTyped == Spec => []TypeOK
<1>1. DInv => TypeOK
  BY DEF DInv, TypeOK, Structure
<1> QED BY <1>1, SpecDInv, PTL

(* The levels of both sides are in order after every call, whatever the    *)
(* number of levels and of orders, also after a call that failed.          *)
THEOREM LevelsStayInOrder == Spec => []WellFormed
<1>1. DInv => WellFormed
  BY DEF DInv, WellFormed, Structure
<1> QED BY <1>1, SpecDInv, PTL

(* Whatever is called between two publications, a level that is not as it  *)
(* was shown has a stamp later than the last publication, so that a feed   *)
(* which sends the levels that changed since sends them all.               *)
THEOREM NoChangeEscapes == Spec => []ChangesAreStamped
<1>1. DInv => ChangesAreStamped
  BY DEF DInv
<1> QED BY <1>1, SpecDInv, PTL

-----------------------------------------------------------------------------
(* The levels that are held                                                *)
(*                                                                         *)
(* The array and the map are one set of levels from here on, which the     *)
(* member functions change one level at a time wherever that level is.     *)

(* A level that is in the array L or in the excess map E. *)
In(L, E, l) ==
  /\ l.price # INVALID_LEVEL_PRICE
  /\ (\E i \in 1..SIZE : L[i] = l) \/ l \in E

(* A side holds a level. *)
Holds(d, b, l) == In(d.level[b], d.excess[b], l)

(* What is held is a level with a price. *)
LEMMA HeldIsLevel ==
  ASSUME NEW d, Structure(d), NEW b \in BOOLEAN, NEW l, Holds(d, b, l)
  PROVE  l \in Level /\ l.price \in Nat \ {0} /\ l.count \in Nat /\ l.qty \in Quantity
<1>1. d.level[b] \in [1..SIZE -> Level] /\ d.excess[b] \in SUBSET Level
  BY ObjectFields DEF Structure, Array
<1>2. l \in Level
  BY <1>1 DEF Holds, In
<1> QED
  BY <1>2 DEF Level, Holds, In, INVALID_LEVEL_PRICE

(* The levels of the excess map have a price. *)
LEMMA ExcessIsHeld ==
  ASSUME NEW d, Structure(d), NEW b \in BOOLEAN, NEW l \in d.excess[b]
  PROVE  Holds(d, b, l)
<1>1. PICK n \in Nat : BoundedBy(d.excess[b], n)
  BY DEF Structure
<1>2. 0 < l.price /\ l \in Level
  BY <1>1, ObjectFields DEF BoundedBy, Structure
<1> QED
  BY <1>2 DEF Holds, In, Level, INVALID_LEVEL_PRICE

(* A side holds one level for a price at most. *)
LEMMA OneAtAPrice ==
  ASSUME NEW d, Structure(d), NEW b \in BOOLEAN, NEW x, NEW y,
         Holds(d, b, x), Holds(d, b, y), x.price = y.price
  PROVE  x = y
<1>1. Ordered(d.level[b], d.excess[b], b)
  BY DEF Structure
<1>2. x.price \in Nat /\ x.price # INVALID_LEVEL_PRICE
  BY HeldIsLevel DEF Holds, In
<1>3. ~Better(b, x.price, x.price)
  BY <1>2 DEF Better
<1>4. CASE x \in d.excess[b] /\ y \in d.excess[b]
  BY <1>1, <1>4 DEF Ordered
<1>5. CASE x \in d.excess[b] /\ y \notin d.excess[b]
  <2>1. PICK i \in 1..SIZE : d.level[b][i] = y
    BY <1>5 DEF Holds, In
  <2> QED
    BY <1>1, <1>3, <1>5, <2>1 DEF Ordered
<1>6. CASE x \notin d.excess[b] /\ y \in d.excess[b]
  <2>1. PICK i \in 1..SIZE : d.level[b][i] = x
    BY <1>6 DEF Holds, In
  <2> QED
    BY <1>1, <1>3, <1>6, <2>1 DEF Ordered
<1>7. CASE x \notin d.excess[b] /\ y \notin d.excess[b]
  <2>1. PICK i \in 1..SIZE, j \in 1..SIZE : d.level[b][i] = x /\ d.level[b][j] = y
    BY <1>7 DEF Holds, In
  <2>2. ~(i < j) /\ ~(j < i)
    BY <1>1, <1>2, <1>3, <2>1 DEF Ordered
  <2>3. i = j
    BY <2>2, DepthAssumption DEF DepthAssumption
  <2> QED
    BY <2>1, <2>3
<1> QED
  BY <1>4, <1>5, <1>6, <1>7

(* find_level() finds the level of a price that has one. *)
LEMMA FoundWhereHeld ==
  ASSUME NEW d, Structure(d), NEW b \in BOOLEAN, NEW l, Holds(d, b, l),
         NEW loc, loc = Find(d, b, l.price)
  PROVE  /\ ValidLoc(d, loc) /\ At(d, loc) = l
         /\ loc.buy = b /\ loc.price = l.price /\ loc.at \in 0..SIZE
         /\ ~(loc.at > SIZE) /\ ~Missing(loc, b) /\ loc # PastEnd(b, l.price)
<1>0. SIZE \in Nat \ {0}
  BY DepthAssumption DEF DepthAssumption
<1>1. d \in DepthObject /\ l.price \in Nat
  BY HeldIsLevel DEF Structure
<1> DEFINE found == {i \in 1..SIZE : d.level[b][i].price = l.price}
<1>2. CASE found # {}
  <2>1. Min(found) \in found
    <3>1. PICK S : S = found
      OBVIOUS
    <3>2. S \in SUBSET (1..SIZE) /\ S # {}
      BY <1>2, <3>1
    <3>3. Min(S) \in S
      BY ONLY <1>0, <3>2, MinIsLeast
    <3> QED
      BY <3>1, <3>3
  <2>2. PICK i \in 1..SIZE : i = Min(found) /\ d.level[b][i].price = l.price
    BY <2>1
  <2>3. loc = Loc(b, i, l.price)
    BY <1>2, <2>2 DEF Find
  <2>4. loc.buy = b /\ loc.at = i /\ loc.price = l.price
    BY <2>3 DEF Loc
  <2>5. Holds(d, b, d.level[b][i])
    BY <2>2 DEF Holds, In
  <2>6. d.level[b][i] = l
    BY <2>2, <2>5, OneAtAPrice
  <2>7. i > 0 /\ i \in 0..SIZE /\ ~(i > SIZE)
    BY <1>0
  <2>8. At(d, loc) = l
    BY <2>4, <2>6, <2>7 DEF At
  <2>9. ValidLoc(d, loc)
    BY <2>3, <2>4, <2>7 DEF ValidLoc
  <2>10. loc # PastEnd(b, l.price)
    <3>0. PICK e : e = PastEnd(b, l.price)
      OBVIOUS
    <3>1. e.buy = FALSE /\ e.at = IF b THEN 1 ELSE SIZE + 1
      BY <3>0 DEF PastEnd, Loc
    <3>2. CASE b
      BY <2>4, <3>0, <3>1, <3>2
    <3>3. CASE ~b
      BY <1>0, <2>4, <2>7, <3>0, <3>1, <3>3
    <3> QED
      BY <3>2, <3>3
  <2> QED
    BY <2>4, <2>7, <2>8, <2>9, <2>10 DEF Missing
<1>3. CASE found = {}
  <2>1. l \in d.excess[b]
    BY <1>3 DEF Holds, In
  <2>2. ExcessHas(d, b, l.price)
    BY <2>1 DEF ExcessHas
  <2>3. loc = Loc(b, 0, l.price)
    BY <1>3, <2>2 DEF Find
  <2>4. loc.buy = b /\ loc.at = 0 /\ loc.price = l.price
    BY <2>3 DEF Loc
  <2>5. ValidLoc(d, loc)
    BY <1>0, <2>2, <2>3, <2>4 DEF ValidLoc
  <2>6. At(d, loc) \in d.excess[b] /\ At(d, loc).price = l.price
    BY <1>1, <2>4, <2>5, AtIsLevel
  <2>7. At(d, loc) = l
    BY <2>6, ExcessIsHeld, OneAtAPrice
  <2>8. loc # PastEnd(b, l.price)
    <3>1. PastEnd(b, l.price).at # 0
      BY <1>0 DEF PastEnd, Loc
    <3> QED
      BY <2>4, <3>1
  <2> QED
    BY <1>0, <2>4, <2>5, <2>7, <2>8 DEF Missing
<1> QED
  BY <1>2, <1>3

Sums(l) == [count |-> l.count, qty |-> l.qty]
None == [count |-> 0, qty |-> 0]

(* The total at a price is that of the level held for it. *)
LEMMA TotalIsHeld ==
  ASSUME NEW d, Structure(d), NEW b \in BOOLEAN, NEW l, Holds(d, b, l)
  PROVE  LevelTotal(d, b, l.price) = Sums(l)
<1>1. PICK loc : loc = Find(d, b, l.price)
  OBVIOUS
<1>2. At(d, loc) = l /\ loc # PastEnd(b, l.price)
  BY <1>1, FoundWhereHeld
<1> QED
  BY <1>1, <1>2 DEF LevelTotal, Sums

(* Where no level is held the total is nothing. *)
LEMMA TotalIsNone ==
  ASSUME NEW d, NEW b \in BOOLEAN, NEW p \in Nat \ {0}, \A l : Holds(d, b, l) => l.price # p
  PROVE  LevelTotal(d, b, p) = None
<1>1. {i \in 1..SIZE : d.level[b][i].price = p} = {}
  BY DEF Holds, In, INVALID_LEVEL_PRICE
<1>2. ~ExcessHas(d, b, p)
  BY DEF Holds, In, ExcessHas, INVALID_LEVEL_PRICE
<1>3. Find(d, b, p) = PastEnd(b, p)
  BY <1>1, <1>2 DEF Find
<1> QED
  BY <1>3 DEF LevelTotal, None

-----------------------------------------------------------------------------
(* What the member functions do to the levels that are held *)

(* The sides of n hold what those of d hold, but for the level of a price  *)
(* on one side, which is now x, or gone if there is no x.                  *)
Swapped(d, n, b, price, x) ==
  \A c \in BOOLEAN : \A l :
    Holds(n, c, l) <=> IF c = b /\ l.price = price THEN l = x ELSE Holds(d, c, l)

Gone(d, n, b, price) ==
  \A c \in BOOLEAN : \A l : Holds(n, c, l) <=> Holds(d, c, l) /\ (c = b => l.price # price)

(* No two levels of a side have the same price. *)
LEMMA PricesApart ==
  ASSUME NEW b \in BOOLEAN, NEW L \in Array, NEW E \in SUBSET Level, Ordered(L, E, b)
  PROVE  /\ \A i, j \in 1..SIZE :
              i # j /\ L[i].price # INVALID_LEVEL_PRICE => L[i].price # L[j].price
         /\ \A i \in 1..SIZE, e \in E : L[i].price # e.price
<1>0. SIZE \in Nat \ {0}
  BY DepthAssumption DEF DepthAssumption
<1>1. /\ \A i \in 1..SIZE : L[i].price \in Nat
      /\ \A e \in E : e.price \in Nat
  BY DEF Array, Level
<1>2. \A p \in Nat : ~Better(b, p, p)
  BY DEF Better
<1>3. ASSUME NEW i \in 1..SIZE, NEW j \in 1..SIZE, i # j,
             L[i].price # INVALID_LEVEL_PRICE, L[i].price = L[j].price
      PROVE  FALSE
  <2>1. i < j \/ j < i
    BY <1>0, <1>3
  <2>2. Better(b, L[i].price, L[j].price) \/ Better(b, L[j].price, L[i].price)
    BY <1>3, <2>1 DEF Ordered
  <2> QED
    BY <1>1, <1>2, <1>3, <2>2
<1>4. ASSUME NEW i \in 1..SIZE, NEW e \in E, L[i].price = e.price
      PROVE  FALSE
  BY <1>1, <1>2, <1>4 DEF Ordered
<1> QED
  BY <1>3, <1>4

(* One level of the array is replaced. *)
LEMMA InChanged ==
  ASSUME NEW b \in BOOLEAN, NEW L \in Array, NEW E \in SUBSET Level, Ordered(L, E, b),
         NEW i \in 1..SIZE, NEW M, M[i].price # INVALID_LEVEL_PRICE,
         L[i].price \in {INVALID_LEVEL_PRICE, M[i].price},
         \A j \in 1..SIZE : j # i => M[j] = L[j],
         NEW l
  PROVE  In(M, E, l) <=> l = M[i] \/ (In(L, E, l) /\ l # L[i])
<1>1. In(M, E, l) => l = M[i] \/ (In(L, E, l) /\ l # L[i])
  <2> SUFFICES ASSUME In(M, E, l), l # M[i]
               PROVE  In(L, E, l) /\ l # L[i]
    OBVIOUS
  <2>1. CASE l \in E
    BY <2>1, PricesApart DEF In
  <2>2. CASE l \notin E
    <3>1. PICK j \in 1..SIZE : M[j] = l
      BY <2>2 DEF In
    <3>2. j # i /\ L[j] = l /\ l.price # INVALID_LEVEL_PRICE
      BY <3>1 DEF In
    <3>3. l # L[i]
      BY <3>2, PricesApart
    <3> QED
      BY <3>2, <3>3 DEF In
  <2> QED
    BY <2>1, <2>2
<1>2. In(L, E, l) /\ l # L[i] => In(M, E, l)
  BY DEF In
<1>3. l = M[i] => In(M, E, l)
  BY DEF In
<1> QED
  BY <1>1, <1>2, <1>3

(* A level is changed in place. *)
LEMMA PutSwaps ==
  ASSUME NEW d, Structure(d), NEW loc, ValidLoc(d, loc), NEW y, y = At(d, loc),
         Holds(d, loc.buy, y),
         NEW x \in Level, x.price = y.price, NEW n, n = Put(d, loc, x)
  PROVE  Swapped(d, n, loc.buy, y.price, x)
<1>0. d \in DepthObject /\ loc.buy \in BOOLEAN /\ loc.at \in 0..SIZE
  BY DEF Structure, ValidLoc
<1>1. PICK b \in BOOLEAN : b = loc.buy
  BY <1>0
<1>2. y.price # INVALID_LEVEL_PRICE
  BY DEF Holds, In
<1> DEFINE L == d.level[b]
           E == d.excess[b]
<1>3. L \in Array /\ E \in SUBSET Level /\ Ordered(L, E, b)
  BY <1>0, ObjectFields DEF Structure
<1>4. \A l : Holds(d, b, l) /\ l.price = y.price => l = y
  BY <1>1, OneAtAPrice
<1>5. CASE loc.at = 0
  <2>1. n = SetExcess(d, b, (E \ {y}) \cup {x})
    BY <1>1, <1>5 DEF Put, SetExcess
  <2>2. (E \ {y}) \cup {x} \in SUBSET Level
    BY <1>3
  <2>3. /\ n.level = d.level
        /\ \A c \in BOOLEAN : n.excess[c] = IF c = b THEN (E \ {y}) \cup {x} ELSE d.excess[c]
    BY <1>0, <2>1, <2>2, ExcessUpdate
  <2>4. y \in E
    BY <1>0, <1>1, <1>5, AtIsLevel
  <2>5. \A i \in 1..SIZE : L[i].price # y.price
    BY <1>3, <2>4, PricesApart
  <2>6. ASSUME NEW l
        PROVE  Holds(n, b, l) <=> IF l.price = y.price THEN l = x ELSE Holds(d, b, l)
    <3>1. Holds(n, b, l) <=> In(L, (E \ {y}) \cup {x}, l)
      BY <2>3 DEF Holds
    <3>2. Holds(d, b, l) <=> In(L, E, l)
      BY DEF Holds
    <3>3. CASE l.price = y.price
      BY <1>2, <1>4, <2>5, <3>1, <3>2, <3>3 DEF In
    <3>4. CASE l.price # y.price
      BY <3>1, <3>2, <3>4 DEF In
    <3> QED
      BY <3>3, <3>4
  <2>7. ASSUME NEW c \in BOOLEAN, NEW l, c # b
        PROVE  Holds(n, c, l) <=> Holds(d, c, l)
    BY <2>3, <2>7 DEF Holds
  <2> QED
    BY <1>1, <2>6, <2>7 DEF Swapped
<1>6. CASE loc.at # 0
  <2>1. PICK i \in 1..SIZE : i = loc.at /\ i > 0
    BY <1>0, <1>6, DepthAssumption DEF DepthAssumption
  <2>2. n = SetLevel(d, b, i, x) /\ y = L[i]
    BY <1>1, <2>1 DEF Put, SetLevel, At
  <2>3. /\ n.excess = d.excess
        /\ \A c \in BOOLEAN, j \in 1..SIZE :
             n.level[c][j] = IF c = b /\ j = i THEN x ELSE d.level[c][j]
    BY <1>0, <2>2, LevelUpdate
  <2>4. ASSUME NEW l
        PROVE  Holds(n, b, l) <=> IF l.price = y.price THEN l = x ELSE Holds(d, b, l)
    <3>1. PICK M : M = n.level[b]
      OBVIOUS
    <3>2. M[i] = x /\ \A j \in 1..SIZE : j # i => M[j] = L[j]
      BY <2>3, <3>1
    <3>3. In(M, E, l) <=> l = x \/ (In(L, E, l) /\ l # y)
      BY <1>2, <1>3, <2>2, <3>2, InChanged
    <3>4. (Holds(n, b, l) <=> In(M, E, l)) /\ (Holds(d, b, l) <=> In(L, E, l))
      BY <2>3, <3>1 DEF Holds
    <3> QED
      BY <1>4, <3>3, <3>4
  <2>5. ASSUME NEW c \in BOOLEAN, NEW l, c # b
        PROVE  Holds(n, c, l) <=> Holds(d, c, l)
    BY <2>3, <2>5 DEF Holds, In
  <2> QED
    BY <1>1, <2>4, <2>5 DEF Swapped
<1> QED
  BY <1>5, <1>6

(* A level that is not blank moves up when the one at `at` is erased, and  *)
(* the best excess level comes into the array; nothing else goes.          *)
LEMMA InErased ==
  ASSUME NEW b \in BOOLEAN, NEW old \in Array, NEW E \in SUBSET Level, Ordered(old, E, b),
         NEW m, m \in Nat, BoundedBy(E, m),
         NEW at, at \in 1..SIZE, old[at].price # INVALID_LEVEL_PRICE,
         NEW moved, Moved(old, at, moved),
         NEW refill \in BOOLEAN, refill <=> at = SIZE \/ old[SIZE].price # INVALID_LEVEL_PRICE,
         NEW last, last = LastOf(E, b),
         NEW L, L = Shifted(old, moved, refill, last),
         NEW F, F = Remaining(E, b, refill), NEW l
  PROVE  In(L, F, l) <=> In(old, E, l) /\ l.price # old[at].price
<1>0. SIZE \in Nat \ {0} /\ SIZE \in 1..SIZE
  BY DepthAssumption DEF DepthAssumption
<1>1. SIZE \notin moved /\ \A i \in moved : i \in 1..SIZE /\ i >= at /\ i + 1 \in 1..SIZE /\ i + 1 # at
  BY <1>0 DEF Moved
<1>2. \A i \in 1..SIZE : L[i] = CASE i \in moved -> old[i + 1]
                                  [] i = SIZE /\ refill -> last
                                  [] OTHER -> old[i]
  BY DEF Shifted
<1>3. \A i \in moved : L[i] = old[i + 1]
  BY <1>1, <1>2
<1>4. \A i \in 1..SIZE : i \notin moved /\ (i # SIZE \/ ~refill) => L[i] = old[i]
  BY <1>2
<1>5. refill => L[SIZE] = last
  BY <1>0, <1>1, <1>2
<1>6. at \in moved \/ (at = SIZE /\ refill)
  BY <1>0 DEF Moved
<1>7. \A i \in 1..SIZE : i # at => old[i].price # old[at].price
  BY PricesApart
<1>8. \A e \in E : e.price # old[at].price
  BY PricesApart
<1>9. BestExcess(E, b) \subseteq E /\ F \subseteq E
  BY DEF BestExcess, Remaining
<1>10. BestExcess(E, b) = {} \/ BestExcess(E, b) = {last}
  <2>1. CASE E = {}
    BY <1>9, <2>1
  <2>2. CASE E # {}
    <3>1. \A e, f \in E : e.price = f.price => e = f
      BY DEF Ordered
    <3>2. PICK w \in E : BestExcess(E, b) = {w}
      BY <2>2, <3>1, BestIsOne
    <3>3. last = w
      BY <3>2 DEF LastOf
    <3> QED
      BY <3>2, <3>3
  <2> QED
    BY <2>1, <2>2
<1>11. BestExcess(E, b) = {} => last = Blank
  BY DEF LastOf
<1>12. Blank.price = INVALID_LEVEL_PRICE
  BY DEF Blank, Fresh
<1>13. ASSUME In(L, F, l)
       PROVE  In(old, E, l) /\ l.price # old[at].price
  <2>0. l.price # INVALID_LEVEL_PRICE
    BY <1>13 DEF In
  <2>1. CASE l \in F
    BY <1>8, <1>9, <2>0, <2>1 DEF In
  <2>2. CASE l \notin F
    <3>1. PICK i \in 1..SIZE : L[i] = l
      BY <1>13, <2>2 DEF In
    <3>2. CASE i \in moved
      BY <1>1, <1>3, <1>7, <2>0, <3>1, <3>2 DEF In
    <3>3. CASE i = SIZE /\ refill
      <4>1. l = last
        BY <1>5, <3>1, <3>3
      <4>2. last \in E
        BY <1>9, <1>10, <1>11, <1>12, <2>0, <4>1
      <4> QED
        BY <1>8, <2>0, <4>1, <4>2 DEF In
    <3>4. CASE i \notin moved /\ (i # SIZE \/ ~refill)
      <4>1. L[i] = old[i] /\ i # at
        BY <1>4, <1>6, <3>4
      <4> QED
        BY <1>7, <2>0, <3>1, <4>1 DEF In
    <3> QED
      BY <3>2, <3>3, <3>4
  <2> QED
    BY <2>1, <2>2
<1>14. ASSUME In(old, E, l), l.price # old[at].price
       PROVE  In(L, F, l)
  <2>0. l.price # INVALID_LEVEL_PRICE
    BY <1>14 DEF In
  <2>1. CASE l \in E
    <3>1. CASE l \in F
      BY <2>0, <3>1 DEF In
    <3>2. CASE l \notin F
      <4>1. refill /\ l \in BestExcess(E, b)
        BY <2>1, <3>2 DEF Remaining
      <4>2. L[SIZE] = l
        BY <1>5, <1>10, <4>1
      <4> QED
        BY <1>0, <2>0, <4>2 DEF In
    <3> QED
      BY <3>1, <3>2
  <2>2. CASE l \notin E
    <3>1. PICK j \in 1..SIZE : old[j] = l
      BY <1>14, <2>2 DEF In
    <3>2. CASE j < at
      <4>1. j \notin moved /\ j # SIZE
        BY <1>0, <1>1, <3>2
      <4> QED
        BY <1>4, <2>0, <3>1, <4>1 DEF In
    <3>3. CASE j > at
      <4>1. j - 1 \in at..(SIZE - 1) /\ j - 1 \in 1..SIZE /\ (j - 1) + 1 = j /\ j - 1 < j
        BY <1>0, <3>3
      <4>2. CASE j - 1 \in moved
        <5>1. L[j - 1] = l
          BY <1>3, <3>1, <4>1, <4>2
        <5> QED
          BY <2>0, <4>1, <5>1 DEF In
      <4>3. CASE j - 1 \notin moved
        <5>1. old[j - 1].price = 0
          BY <4>1, <4>3 DEF Moved
        <5>2. old[j - 1].price # INVALID_LEVEL_PRICE
          BY <2>0, <3>1, <4>1 DEF Ordered
        <5> QED
          BY <5>1, <5>2 DEF INVALID_LEVEL_PRICE
      <4> QED
        BY <4>2, <4>3
    <3>4. j # at
      BY <1>14, <3>1
    <3> QED
      BY <1>0, <3>2, <3>3, <3>4
  <2> QED
    BY <2>1, <2>2
<1> QED
  BY <1>13, <1>14

(* erase_level(). *)
LEMMA EraseRemoves ==
  ASSUME NEW d, Structure(d), NEW b \in BOOLEAN,
         NEW loc, ValidLoc(d, loc), loc.buy = b, NEW y, y = At(d, loc), Holds(d, b, y),
         loc.price = y.price, NEW n, n = Erase(d, b, loc)
  PROVE  Gone(d, n, b, y.price)
<1>0. SIZE \in Nat \ {0} /\ SIZE \in 1..SIZE
  BY DepthAssumption DEF DepthAssumption
<1>1. d \in DepthObject /\ loc.at \in 0..SIZE /\ y.price # INVALID_LEVEL_PRICE
  BY DEF Structure, ValidLoc, Holds, In
<1> DEFINE old == d.level[b]
           E == d.excess[b]
<1>2. old \in Array /\ E \in SUBSET Level /\ Ordered(old, E, b) /\ d.stamp[b] \in [1..SIZE -> Nat]
  BY <1>1, ObjectFields DEF Structure
<1>3. PICK m \in Nat : BoundedBy(E, m)
  BY DEF Structure
<1>4. CASE loc.at = 0
  <2> DEFINE X == {e \in E : e.price # y.price}
  <2>1. n = SetExcess(d, b, X)
    BY <1>4 DEF Erase, SetExcess
  <2>2. X \in SUBSET Level
    BY <1>2
  <2> HIDE DEF X
  <2>3. /\ n.level = d.level
        /\ \A c \in BOOLEAN : n.excess[c] = IF c = b THEN X ELSE d.excess[c]
    BY <1>1, <2>1, <2>2, ExcessUpdate
  <2>4. y \in E
    BY <1>1, <1>4, AtIsLevel
  <2>5. \A i \in 1..SIZE : old[i].price # y.price
    BY <1>2, <2>4, PricesApart
  <2>6. ASSUME NEW l
        PROVE  Holds(n, b, l) <=> Holds(d, b, l) /\ l.price # y.price
    <3>1. (Holds(n, b, l) <=> In(old, X, l)) /\ (Holds(d, b, l) <=> In(old, E, l))
      BY <2>3 DEF Holds
    <3>2. In(old, X, l) <=> In(old, E, l) /\ l.price # y.price
      BY <2>5 DEF In, X
    <3> QED
      BY <3>1, <3>2
  <2>7. ASSUME NEW c \in BOOLEAN, c # b, NEW l
        PROVE  Holds(n, c, l) <=> Holds(d, c, l)
    BY <2>3, <2>7 DEF Holds
  <2> QED
    BY <2>6, <2>7 DEF Gone
<1>5. CASE loc.at # 0
  <2> DEFINE moved == {i \in loc.at..(SIZE - 1) : i = loc.at \/ old[i].price # INVALID_LEVEL_PRICE}
             refill == loc.at = SIZE \/ old[SIZE].price # INVALID_LEVEL_PRICE
             last == LastOf(E, b)
             now == d.lastChange + 1
             L == Shifted(old, moved, refill, last)
             K == [i \in 1..SIZE |->
                     IF i \in moved \/ (i = SIZE /\ refill) THEN now ELSE d.stamp[b][i]]
             F == Remaining(E, b, refill)
  <2>1. n = SetSide(d, b, L, K, F, now)
    BY <1>1, <1>5 DEF Erase, SetSide, DepthObject, Shifted, Remaining, LastOf
  <2>2. loc.at \in 1..SIZE
    BY <1>0, <1>1, <1>5
  <2>3. Moved(old, loc.at, moved)
    BY <1>0 DEF Moved, INVALID_LEVEL_PRICE
  <2>4. refill \in BOOLEAN
    OBVIOUS
  <2>5. now \in Nat
    BY <1>1 DEF DepthObject
  <2>6. K \in Stamps
    BY <1>2, <2>5 DEF Stamps
  <2>7. y = old[loc.at]
    BY <2>2 DEF At
  <2> HIDE DEF moved, last, now
  <2>8. ASSUME NEW l
        PROVE  In(L, F, l) <=> In(old, E, l) /\ l.price # y.price
    <3>1. PICK at : at = loc.at
      OBVIOUS
    <3>2. at \in 1..SIZE /\ Moved(old, at, moved) /\ old[at].price # INVALID_LEVEL_PRICE
      BY <1>1, <2>2, <2>3, <2>7, <3>1
    <3>3. refill <=> at = SIZE \/ old[SIZE].price # INVALID_LEVEL_PRICE
      BY <3>1
    <3> HIDE DEF old, E, refill
    <3>4. In(L, F, l) <=> In(old, E, l) /\ l.price # old[at].price
      BY <1>2, <1>3, <2>4, <3>2, <3>3, InErased DEF last
    <3> QED
      BY <2>7, <3>1, <3>4
  <2>9. L \in Array /\ F \in SUBSET Level
    <3>1. ~refill => old[SIZE].price = 0
      BY DEF INVALID_LEVEL_PRICE
    <3> HIDE DEF old, E, refill
    <3> QED
      BY <1>2, <1>3, <2>2, <2>3, <2>4, <3>1, EraseSide DEF last
  <2> HIDE DEF L, K, F
  <2>10. /\ n.level[b] = L /\ n.excess[b] = F
         /\ \A c \in BOOLEAN : c # b => n.level[c] = d.level[c] /\ n.excess[c] = d.excess[c]
    BY <1>1, <2>1, <2>5, <2>6, <2>9, SideUpdate
  <2>11. ASSUME NEW c \in BOOLEAN, c # b, NEW l
         PROVE  Holds(n, c, l) <=> Holds(d, c, l)
    BY <2>10, <2>11 DEF Holds
  <2>12. ASSUME NEW l
         PROVE  Holds(n, b, l) <=> Holds(d, b, l) /\ l.price # y.price
    BY <2>8, <2>10 DEF Holds
  <2> QED
    BY <2>11, <2>12 DEF Gone
<1> QED
  BY <1>4, <1>5

(* A price that belongs at `at` has no level yet. *)
LEMMA PlaceIsFree ==
  ASSUME NEW b \in BOOLEAN, NEW L \in Array, NEW E \in SUBSET Level, Ordered(L, E, b),
         NEW at, at \in 1..SIZE, NEW price, price \in Nat \ {0}, Place(L, b, at, price),
         NEW l, In(L, E, l)
  PROVE  l.price # price
<1>0. SIZE \in Nat \ {0}
  BY DepthAssumption DEF DepthAssumption
<1>1. /\ \A i \in 1..SIZE : L[i].price \in Nat
      /\ \A e \in E : e.price \in Nat
      /\ price \in Nat /\ price # 0
  BY DEF Array, Level
<1>2. \A p, q, r \in Nat : Better(b, p, q) /\ (Better(b, q, r) \/ q = r) => p # r
  BY DEF Better
<1>3. ASSUME NEW i \in 1..SIZE, l = L[i]
      PROVE  l.price # price
  <2>0. l.price # INVALID_LEVEL_PRICE
    BY DEF In
  <2>1. CASE i < at
    BY <1>1, <1>2, <1>3, <2>1 DEF Place
  <2>2. CASE i = at
    BY <1>1, <1>2, <1>3, <2>0, <2>2 DEF Place
  <2>3. CASE at < i
    <3>1. L[at].price # INVALID_LEVEL_PRICE /\ Better(b, L[at].price, L[i].price)
      BY <1>3, <2>0, <2>3 DEF Ordered
    <3>2. Better(b, price, L[at].price)
      BY <3>1 DEF Place
    <3> QED
      BY <1>1, <1>2, <1>3, <3>1, <3>2
  <2> QED
    BY <1>0, <2>1, <2>2, <2>3
<1>4. ASSUME l \in E
      PROVE  l.price # price
  <2>1. L[at].price # INVALID_LEVEL_PRICE /\ Better(b, L[at].price, l.price)
    BY <1>4 DEF Ordered
  <2>2. Better(b, price, L[at].price)
    BY <2>1 DEF Place
  <2> QED
    BY <1>1, <1>2, <1>4, <2>1, <2>2
<1> QED
  BY <1>3, <1>4 DEF In

(* insert_level_before(): the levels behind `at` move down, the last one   *)
(* into the excess map.                                                    *)
LEMMA InInserted ==
  ASSUME NEW b \in BOOLEAN, NEW old \in Array, NEW E \in SUBSET Level, Ordered(old, E, b),
         NEW at, at \in 1..SIZE, NEW price, price \in Nat \ {0},
         NEW L, L = Inserted(old, at, price), NEW F, F = Pushed(old, E), NEW l
  PROVE  In(L, F, l) <=> In(old, E, l) \/ l = Fresh(price)
<1>0. SIZE \in Nat \ {0} /\ SIZE \in 1..SIZE
  BY DepthAssumption DEF DepthAssumption
<1>1. /\ \A i \in 1..SIZE : i < at => L[i] = old[i]
      /\ L[at] = Fresh(price)
      /\ \A i \in 1..SIZE : i > at => L[i] = old[i - 1]
  BY <1>0 DEF Inserted
<1>2. Fresh(price).price = price /\ price # INVALID_LEVEL_PRICE
  BY FreshIsLevel DEF INVALID_LEVEL_PRICE
<1>3. F = IF old[SIZE].price = INVALID_LEVEL_PRICE THEN E ELSE E \cup {old[SIZE]}
  <2>1. \A e \in E : e.price # old[SIZE].price
    BY <1>0, PricesApart
  <2> QED
    BY <2>1 DEF Pushed, InsertExcess
<1>4. ASSUME In(L, F, l)
      PROVE  In(old, E, l) \/ l = Fresh(price)
  <2>0. l.price # INVALID_LEVEL_PRICE
    BY <1>4 DEF In
  <2>1. CASE l \in F
    BY <1>0, <1>3, <2>0, <2>1 DEF In
  <2>2. CASE l \notin F
    <3>1. PICK i \in 1..SIZE : L[i] = l
      BY <1>4, <2>2 DEF In
    <3>2. CASE i < at
      BY <1>1, <2>0, <3>1, <3>2 DEF In
    <3>3. CASE i = at
      BY <1>1, <3>1, <3>3
    <3>4. CASE i > at
      <4>1. i - 1 \in 1..SIZE
        BY <1>0, <3>4
      <4> QED
        BY <1>1, <2>0, <3>1, <3>4, <4>1 DEF In
    <3> QED
      BY <1>0, <3>2, <3>3, <3>4
  <2> QED
    BY <2>1, <2>2
<1>5. ASSUME In(old, E, l)
      PROVE  In(L, F, l)
  <2>0. l.price # INVALID_LEVEL_PRICE
    BY <1>5 DEF In
  <2>1. CASE l \in E
    BY <1>3, <2>0, <2>1 DEF In
  <2>2. CASE l \notin E
    <3>1. PICK j \in 1..SIZE : old[j] = l
      BY <1>5, <2>2 DEF In
    <3>2. CASE j < at
      BY <1>1, <2>0, <3>1, <3>2 DEF In
    <3>3. CASE j >= at /\ j # SIZE
      <4>1. j + 1 \in 1..SIZE /\ j + 1 > at /\ (j + 1) - 1 = j
        BY <1>0, <3>3
      <4>2. L[j + 1] = l
        BY <1>1, <3>1, <4>1
      <4> QED
        BY <2>0, <4>1, <4>2 DEF In
    <3>4. CASE j = SIZE
      BY <1>3, <2>0, <3>1, <3>4 DEF In
    <3> QED
      BY <1>0, <3>2, <3>3, <3>4
  <2> QED
    BY <2>1, <2>2
<1>6. l = Fresh(price) => In(L, F, l)
  BY <1>1, <1>2 DEF In
<1> QED
  BY <1>4, <1>5, <1>6

(* find_level() with should_create: a price without a level gets a fresh   *)
(* one, and nothing else changes.                                          *)
LEMMA WithLevelAdds ==
  ASSUME NEW d, Structure(d), NEW b \in BOOLEAN, NEW price, price \in Nat \ {0},
         NEW n, n = WithLevel(d, b, price)
  PROVE  /\ (\E l : Holds(d, b, l) /\ l.price = price) => n = d
         /\ ~(\E l : Holds(d, b, l) /\ l.price = price) => Swapped(d, n, b, price, Fresh(price))
<1>1. d \in DepthObject
  BY DEF Structure
<1> DEFINE old == d.level[b]
           E == d.excess[b]
           There == \E l : Holds(d, b, l) /\ l.price = price
           new == Fresh(price)
<1>2. old \in Array /\ E \in SUBSET Level /\ Ordered(old, E, b)
  BY <1>1, ObjectFields DEF Structure
<1>3. new \in Level /\ new.price = price /\ price # INVALID_LEVEL_PRICE
  BY FreshIsLevel DEF INVALID_LEVEL_PRICE
(* The price has a level. *)
<1>4. ASSUME n = d, ExcessHas(d, b, price) \/ \E i \in 1..SIZE : old[i].price = price
      PROVE  There
  <2>1. CASE ExcessHas(d, b, price)
    <3>1. PICK e \in E : e.price = price
      BY <2>1 DEF ExcessHas
    <3> QED
      BY <3>1, ExcessIsHeld
  <2>2. CASE \E i \in 1..SIZE : old[i].price = price
    <3>1. PICK i \in 1..SIZE : old[i].price = price
      BY <2>2
    <3>2. Holds(d, b, old[i])
      BY <1>3, <3>1 DEF Holds, In
    <3> QED
      BY <3>1, <3>2
  <2> QED
    BY <1>4, <2>1, <2>2
(* What remains to be shown of a new one. *)
<1>5. ASSUME \A l : In(old, E, l) => l.price # price,
             \A c \in BOOLEAN : c # b => n.level[c] = d.level[c] /\ n.excess[c] = d.excess[c],
             \A l : Holds(n, b, l) <=> In(old, E, l) \/ l = new
      PROVE  ~There /\ Swapped(d, n, b, price, new)
  <2>1. ~There
    BY <1>5 DEF Holds
  <2>2. ASSUME NEW c \in BOOLEAN, NEW l, c # b
        PROVE  Holds(n, c, l) <=> Holds(d, c, l)
    BY <1>5, <2>2 DEF Holds
  <2>3. ASSUME NEW l
        PROVE  Holds(n, b, l) <=> IF l.price = price THEN l = new ELSE Holds(d, b, l)
    <3>1. Holds(d, b, l) <=> In(old, E, l)
      BY DEF Holds
    <3> HIDE DEF old, E, new
    <3> QED
      BY <1>3, <1>5, <3>1
  <2> QED
    BY <2>1, <2>2, <2>3 DEF Swapped
<1>6. ASSUME n = SetExcess(d, b, E \cup {new}), ~ExcessHas(d, b, price),
             \A i \in 1..SIZE : Better(b, old[i].price, price)
      PROVE  ~There /\ Swapped(d, n, b, price, new)
  <2>1. E \cup {new} \in SUBSET Level
    BY <1>2, <1>3
  <2>2. /\ n.level = d.level
        /\ \A c \in BOOLEAN : n.excess[c] = IF c = b THEN E \cup {new} ELSE d.excess[c]
    BY <1>1, <1>6, <2>1, ExcessUpdate
  <2>3. \A i \in 1..SIZE : old[i].price # price
    BY <1>6 DEF Better
  <2>4. \A e \in E : e.price # price
    BY <1>6 DEF ExcessHas
  <2>5. \A l : In(old, E, l) => l.price # price
    BY <2>3, <2>4 DEF In
  <2>6. \A l : Holds(n, b, l) <=> In(old, E \cup {new}, l)
    BY <2>2 DEF Holds
  <2>7. \A l : In(old, E \cup {new}, l) <=> In(old, E, l) \/ l = new
    BY <1>3 DEF In
  <2> QED
    BY <1>5, <2>2, <2>5, <2>6, <2>7
<1>7. ASSUME NEW a \in 1..SIZE, Place(old, b, a, price), old[a].price = INVALID_LEVEL_PRICE,
             n = SetLevel(d, b, a, new)
      PROVE  ~There /\ Swapped(d, n, b, price, new)
  <2>1. /\ n.excess = d.excess
        /\ \A c \in BOOLEAN, j \in 1..SIZE :
             n.level[c][j] = IF c = b /\ j = a THEN new ELSE d.level[c][j]
        /\ n \in DepthObject
    BY <1>1, <1>3, <1>7, LevelUpdate
  <2>2. \A l : In(old, E, l) => l.price # price
    BY <1>2, <1>7, PlaceIsFree
  <2>3. ASSUME NEW c \in BOOLEAN, c # b
        PROVE  n.level[c] = d.level[c]
    <3>1. PICK x, y : x = n.level[c] /\ y = d.level[c]
      OBVIOUS
    <3>2. x \in [1..SIZE -> Level] /\ y \in [1..SIZE -> Level]
      BY <1>1, <2>1, <3>1, ObjectFields DEF Array
    <3>3. \A j \in 1..SIZE : x[j] = y[j]
      BY <2>1, <2>3, <3>1
    <3>4. x = y
      <4>1. x = [j \in 1..SIZE |-> x[j]] /\ y = [j \in 1..SIZE |-> y[j]]
        BY ONLY <3>2
      <4>2. [j \in 1..SIZE |-> x[j]] = [j \in 1..SIZE |-> y[j]]
        BY ONLY <3>3
      <4> QED
        BY ONLY <4>1, <4>2
    <3> QED
      BY <3>1, <3>4
  <2>4. PICK M : M = n.level[b]
    OBVIOUS
  <2>5. M[a] = new /\ \A j \in 1..SIZE : j # a => M[j] = old[j]
    BY <2>1, <2>4
  <2>6. \A l : In(M, E, l) <=> l = M[a] \/ (In(old, E, l) /\ l # old[a])
    <3> TAKE l
    <3>1. M[a].price # INVALID_LEVEL_PRICE /\ old[a].price \in {INVALID_LEVEL_PRICE, M[a].price}
      BY <1>3, <1>7, <2>5
    <3> HIDE DEF old, E, new
    <3> QED
      BY <1>2, <1>7, <2>5, <3>1, InChanged
  <2>7. \A l : In(old, E, l) => l # old[a]
    BY <1>7 DEF In
  <2>8. \A l : Holds(n, b, l) <=> In(M, E, l)
    BY <2>1, <2>4 DEF Holds
  <2> QED
    BY <1>5, <2>1, <2>2, <2>3, <2>5, <2>6, <2>7, <2>8
<1>8. ASSUME NEW a \in 1..SIZE, Place(old, b, a, price), old[a].price # INVALID_LEVEL_PRICE,
             n = InsertBefore(d, b, a, price)
      PROVE  ~There /\ Swapped(d, n, b, price, new)
  <2> DEFINE now == d.lastChange + 1
             L == Inserted(old, a, price)
             K == [i \in 1..SIZE |->
                     IF i > a /\ old[i - 1].price # INVALID_LEVEL_PRICE THEN now
                     ELSE d.stamp[b][i]]
             F == Pushed(old, E)
  <2>1. n = SetSide(d, b, L, K, F, now)
    BY <1>1, <1>8 DEF InsertBefore, SetSide, DepthObject, Inserted, Pushed
  <2>2. now \in Nat
    BY <1>1 DEF DepthObject
  <2>3. K \in Stamps
    BY <1>1, <2>2 DEF DepthObject, Stamps
  <2> HIDE DEF old, E, now, K, new
  <2>4. L \in Array /\ F \in SUBSET Level
    BY <1>2, <1>8, OrderedInsert
  <2>5. \A l : In(L, F, l) <=> In(old, E, l) \/ l = Fresh(price)
    BY <1>2, InInserted
  <2>6. \A l : In(old, E, l) => l.price # price
    BY <1>2, <1>8, PlaceIsFree
  <2> HIDE DEF L, F
  <2>7. /\ n.level[b] = L /\ n.excess[b] = F
        /\ \A c \in BOOLEAN : c # b => n.level[c] = d.level[c] /\ n.excess[c] = d.excess[c]
    BY <1>1, <2>1, <2>2, <2>3, <2>4, SideUpdate
  <2>8. \A l : Holds(n, b, l) <=> In(L, F, l)
    BY <2>7 DEF Holds
  <2> QED
    BY <1>5, <2>5, <2>6, <2>7, <2>8 DEF new
<1>9. \/ n = d /\ (ExcessHas(d, b, price) \/ \E i \in 1..SIZE : old[i].price = price)
      \/ /\ n = SetExcess(d, b, E \cup {new}) /\ ~ExcessHas(d, b, price)
         /\ \A i \in 1..SIZE : Better(b, old[i].price, price)
      \/ \E a \in 1..SIZE : /\ Place(old, b, a, price) /\ old[a].price = INVALID_LEVEL_PRICE
                            /\ n = SetLevel(d, b, a, new)
      \/ \E a \in 1..SIZE : /\ Place(old, b, a, price) /\ old[a].price # INVALID_LEVEL_PRICE
                            /\ n = InsertBefore(d, b, a, price)
  <2>1. PICK w : w = price
    OBVIOUS
  <2>2. Structure(d) /\ w \in Nat \ {0} /\ n = WithLevel(d, b, w)
    BY <2>1
  <2> QED
    BY ONLY <2>1, <2>2, b \in BOOLEAN, WithLevelCases
<1> HIDE DEF There, old, E, new
<1> QED
  BY <1>4, <1>6, <1>7, <1>8, <1>9 DEF There, new

-----------------------------------------------------------------------------
(* What the public member functions do to the totals *)

(* Every level that is held counts an order. *)
Counted(d) == \A b \in BOOLEAN : \A l : Holds(d, b, l) => l.count > 0

(* The total of one price is now t, the others are the same. *)
TotalIs(d, n, b, price, t) ==
  \A c \in BOOLEAN, p \in Nat \ {0} :
    LevelTotal(n, c, p) = IF c = b /\ p = price THEN t ELSE LevelTotal(d, c, p)

(* The same levels have the same totals. *)
LEMMA TotalsAgree ==
  ASSUME NEW d, Structure(d), NEW n, Structure(n), NEW c \in BOOLEAN, NEW p \in Nat \ {0},
         \A l : l.price = p => (Holds(n, c, l) <=> Holds(d, c, l))
  PROVE  LevelTotal(n, c, p) = LevelTotal(d, c, p)
<1>1. CASE \E l : Holds(d, c, l) /\ l.price = p
  <2>1. PICK l : Holds(d, c, l) /\ l.price = p
    BY <1>1
  <2>2. Holds(n, c, l)
    BY <2>1
  <2> QED
    BY <2>1, <2>2, TotalIsHeld
<1>2. CASE ~\E l : Holds(d, c, l) /\ l.price = p
  BY <1>2, TotalIsNone
<1> QED
  BY <1>1, <1>2

(* A level takes the place of that of its price. *)
LEMMA SwapTotals ==
  ASSUME NEW d, Structure(d), NEW n, Structure(n), NEW b \in BOOLEAN,
         NEW price, price \in Nat \ {0}, NEW x, x.price = price, Swapped(d, n, b, price, x)
  PROVE  TotalIs(d, n, b, price, Sums(x))
<1>1. LevelTotal(n, b, price) = Sums(x)
  <2>1. Holds(n, b, x)
    BY DEF Swapped
  <2> QED
    BY <2>1, TotalIsHeld
<1>2. ASSUME NEW c \in BOOLEAN, NEW p \in Nat \ {0}, ~(c = b /\ p = price)
      PROVE  LevelTotal(n, c, p) = LevelTotal(d, c, p)
  <2>1. \A l : l.price = p => (Holds(n, c, l) <=> Holds(d, c, l))
    BY <1>2 DEF Swapped
  <2> QED
    BY <2>1, TotalsAgree
<1> QED
  BY <1>1, <1>2 DEF TotalIs

(* The level of a price goes. *)
LEMMA GoneTotals ==
  ASSUME NEW d, Structure(d), NEW n, Structure(n), NEW b \in BOOLEAN,
         NEW price, price \in Nat \ {0}, Gone(d, n, b, price)
  PROVE  TotalIs(d, n, b, price, None)
<1>1. LevelTotal(n, b, price) = None
  <2>1. \A l : Holds(n, b, l) => l.price # price
    BY DEF Gone
  <2> QED
    BY <2>1, TotalIsNone
<1>2. ASSUME NEW c \in BOOLEAN, NEW p \in Nat \ {0}, ~(c = b /\ p = price)
      PROVE  LevelTotal(n, c, p) = LevelTotal(d, c, p)
  <2>1. \A l : l.price = p => (Holds(n, c, l) <=> Holds(d, c, l))
    BY <1>2 DEF Gone
  <2> QED
    BY <2>1, TotalsAgree
<1> QED
  BY <1>1, <1>2 DEF TotalIs

(* A price with a count has a level, which is the one that is found. *)
LEMMA CountedIsHeld ==
  ASSUME NEW d, Structure(d), NEW b \in BOOLEAN, NEW price, price \in Nat \ {0},
         LevelTotal(d, b, price).count # 0
  PROVE  \E l : /\ Holds(d, b, l) /\ l.price = price
                /\ LevelTotal(d, b, price) = Sums(l)
<1>1. \E l : Holds(d, b, l) /\ l.price = price
  BY TotalIsNone DEF None
<1> QED
  BY <1>1, TotalIsHeld

(* A level with another count and quantity. *)
LEMMA Updated ==
  ASSUME NEW p, NEW c, NEW q, NEW y, y = [price |-> p, count |-> c, qty |-> q],
         NEW count, NEW qty
  PROVE  [y EXCEPT !.count = count, !.qty = qty] = [price |-> p, count |-> count, qty |-> qty]
<1>1. PICK z : z = [y EXCEPT !.count = count, !.qty = qty]
  OBVIOUS
<1>2. DOMAIN z = {"price", "count", "qty"} /\ z.price = p /\ z.count = count /\ z.qty = qty
  BY <1>1
<1>3. z = [i \in {"price", "count", "qty"} |-> z[i]]
  BY <1>1
<1> QED
  BY <1>1, <1>2, <1>3

(* add_order(): one order and its quantity more. *)
LEMMA AddOrderAdds ==
  ASSUME NEW d, Structure(d), Numbered(d), Counted(d), NEW b \in BOOLEAN,
         NEW price, price \in Nat \ {0}, NEW qty, qty \in Nat,
         NEW t, t = LevelTotal(d, b, price), t.qty + qty < Word,
         NEW r, r = AddOrder(d, b, price, qty)
  PROVE  /\ Counted(r) /\ r.failed = d.failed
         /\ TotalIs(d, r, b, price, [count |-> t.count + 1, qty |-> t.qty + qty])
<1> DEFINE n == WithLevel(d, b, price)
           loc == Find(n, b, price)
           l == At(n, loc)
           more == [l EXCEPT !.count = @ + 1, !.qty = (@ + qty) % Word]
           added == Put(n, loc, more)
           now == d.lastChange + 1
<1>1. r = IF loc.at = 0 THEN added
          ELSE [added EXCEPT !.lastChange = now, !.stamp[b][loc.at] = now]
  BY DEF AddOrder
<1>2. Structure(n) /\ n.failed = d.failed
  BY WithLevelKeeps DEF Prepared
<1>3. PICK y : /\ Holds(n, b, y) /\ y.price = price /\ Sums(y) = t
               /\ \A x : Swapped(n, added, b, price, x) => Swapped(d, added, b, price, x)
  <2>1. CASE \E k : Holds(d, b, k) /\ k.price = price
    <3>1. PICK k : Holds(d, b, k) /\ k.price = price
      BY <2>1
    <3>2. n = d
      BY <2>1, WithLevelAdds
    <3> QED
      BY <3>1, <3>2, TotalIsHeld
  <2>2. CASE ~\E k : Holds(d, b, k) /\ k.price = price
    <3>1. Swapped(d, n, b, price, Fresh(price))
      BY <2>2, WithLevelAdds
    <3>2. Fresh(price).price = price /\ Sums(Fresh(price)) = None
      BY DEF Fresh, Sums, None
    <3>3. t = None
      BY <2>2, TotalIsNone
    <3>4. Holds(n, b, Fresh(price))
      BY <3>1, <3>2 DEF Swapped
    <3>5. \A x : Swapped(n, added, b, price, x) => Swapped(d, added, b, price, x)
      BY <3>1 DEF Swapped
    <3> QED
      BY <3>2, <3>3, <3>4, <3>5
  <2> QED
    BY <2>1, <2>2
<1>4. PICK w : w = loc
  OBVIOUS
<1>5. ValidLoc(n, w) /\ At(n, w) = y /\ w.buy = b
  BY <1>2, <1>3, <1>4, FoundWhereHeld
<1>6. l = y /\ y \in Level /\ y.count \in Nat /\ y.qty \in Quantity
  BY <1>2, <1>3, <1>4, <1>5, HeldIsLevel
<1>7. y.count = t.count /\ y.qty = t.qty
  BY <1>3 DEF Sums
<1>8. (y.qty + qty) % Word = t.qty + qty /\ t.qty + qty \in Quantity
  <2>1. t.qty + qty \in 0..(Word - 1) /\ Word \in Nat \ {0}
    BY <1>6, <1>7, DepthAssumption DEF DepthAssumption, Quantity
  <2> QED
    BY <1>7, <2>1 DEF Quantity
<1> HIDE DEF n, loc, l, now
<1>9. /\ more \in Level /\ more.price = price
      /\ Sums(more) = [count |-> t.count + 1, qty |-> t.qty + qty]
      /\ more.count > 0
  <2>1. y = [price |-> price, count |-> t.count, qty |-> t.qty] /\ t.count \in Nat
    BY <1>3, <1>6, <1>7 DEF Level
  <2>2. more = [y EXCEPT !.count = t.count + 1, !.qty = t.qty + qty]
    <3>1. l = y
      BY <1>6
    <3>2. more = [y EXCEPT !.count = y.count + 1, !.qty = (y.qty + qty) % Word]
      BY <3>1, Zenon
    <3> QED
      BY ONLY <3>2, <1>7, <1>8
  <2> HIDE DEF more
  <2>3. more = [price |-> price, count |-> t.count + 1, qty |-> t.qty + qty]
    BY ONLY <2>1, <2>2, Updated
  <2>4. more.price = price /\ more.count = t.count + 1 /\ more.qty = t.qty + qty
    BY ONLY <2>3
  <2>5. Sums(more) = [count |-> t.count + 1, qty |-> t.qty + qty]
    BY ONLY <2>4 DEF Sums
  <2>6. t.count + 1 \in Nat /\ t.count + 1 > 0
    BY <2>1
  <2> QED
    BY <1>8, <2>3, <2>4, <2>5, <2>6 DEF Level
<1> HIDE DEF more
<1>10. Swapped(n, added, b, price, more)
  BY <1>2, <1>3, <1>4, <1>5, <1>9, PutSwaps
<1>11. Structure(added) /\ added.failed = n.failed
  <2>1. more.price # 0 /\ more.price = At(n, w).price
    BY <1>3, <1>5, <1>9
  <2> QED
    BY <1>2, <1>4, <1>5, <1>9, <2>1, PutKeeps
<1>12. Swapped(d, added, b, price, more)
  BY <1>3, <1>10
<1> HIDE DEF added
<1>13. r.level = added.level /\ r.excess = added.excess /\ r.failed = added.failed
  BY <1>1, <1>11 DEF Structure, DepthObject
<1>14. Swapped(d, r, b, price, more)
  BY <1>12, <1>13 DEF Swapped, Holds
<1>15. Counted(r)
  BY <1>9, <1>14 DEF Counted, Swapped
<1>16. Structure(r)
  BY AddOrderKeeps
<1>17. TotalIs(d, r, b, price, Sums(more))
  BY <1>9, <1>14, <1>16, SwapTotals
<1> QED
  BY <1>2, <1>9, <1>11, <1>13, <1>15, <1>17

(* What a call that changes the level of a price in place needs: the level *)
(* is there, and takes the new one.                                        *)
LEMMA ChangedInPlace ==
  ASSUME NEW d, Structure(d), Counted(d), NEW b \in BOOLEAN, NEW price, price \in Nat \ {0},
         NEW t, t = LevelTotal(d, b, price), t.count # 0,
         NEW loc, loc = Find(d, b, price), NEW y, y = At(d, loc)
  PROVE  /\ ValidLoc(d, loc) /\ loc.buy = b /\ loc.price = price
         /\ ~(loc.at > SIZE) /\ Checked(d, loc, b) = d
         /\ y \in Level /\ y.price = price /\ Holds(d, b, y)
         /\ y = [price |-> price, count |-> t.count, qty |-> t.qty]
         /\ t.count \in Nat \ {0} /\ t.qty \in Quantity /\ t.qty \in Nat
<1>1. PICK l : Holds(d, b, l) /\ l.price = price /\ t = Sums(l)
  BY CountedIsHeld
<1>2. /\ ValidLoc(d, loc) /\ y = l
      /\ loc.buy = b /\ loc.price = price /\ ~(loc.at > SIZE) /\ ~Missing(loc, b)
  BY <1>1, FoundWhereHeld
<1>3. l \in Level /\ l.count \in Nat /\ l.qty \in Quantity
  BY <1>1, HeldIsLevel
<1>4. t.count = l.count /\ t.qty = l.qty
  BY <1>1 DEF Sums
<1>5. l = [price |-> price, count |-> t.count, qty |-> t.qty]
  BY <1>1, <1>3, <1>4 DEF Level
<1> QED
  BY <1>1, <1>2, <1>3, <1>4, <1>5 DEF Checked, Quantity

(* The level of a price is replaced. *)
LEMMA PutTotals ==
  ASSUME NEW d, Structure(d), Counted(d), NEW b \in BOOLEAN, NEW price, price \in Nat \ {0},
         LevelTotal(d, b, price).count # 0,
         NEW loc, loc = Find(d, b, price), NEW x \in Level, x.price = price,
         NEW e, e = Put(d, loc, x)
  PROVE  Structure(e) /\ e.failed = d.failed /\ Swapped(d, e, b, price, x)
<1>1. PICK y, t : y = At(d, loc) /\ t = LevelTotal(d, b, price)
  OBVIOUS
<1>2. ValidLoc(d, loc) /\ loc.buy = b /\ y.price = price /\ Holds(d, b, y)
  BY <1>1, ChangedInPlace
<1>3. Swapped(d, e, b, price, x)
  BY <1>1, <1>2, PutSwaps
<1>4. x.price = At(d, loc).price /\ x.price # 0
  BY <1>1, <1>2
<1>5. Structure(e) /\ e.failed = d.failed
  BY <1>2, <1>4, PutKeeps
<1> QED
  BY <1>3, <1>5

(* A new number and stamp leave the levels. *)
LEMMA TouchHolds ==
  ASSUME NEW e, Structure(e), NEW loc, NEW r, r = Touch(e, loc)
  PROVE  r.level = e.level /\ r.excess = e.excess /\ r.failed = e.failed
<1>1. e \in DepthObject
  BY DEF Structure
<1> DEFINE n == [e EXCEPT !.lastChange = @ + 1]
<1>2. n.level = e.level /\ n.excess = e.excess /\ n.failed = e.failed
  BY <1>1 DEF DepthObject
<1>3. r = IF loc.at > 0 THEN [n EXCEPT !.stamp[loc.buy][loc.at] = n.lastChange] ELSE n
  BY DEF Touch
<1>4. n = [level |-> n.level, stamp |-> n.stamp, excess |-> n.excess, lastChange |-> n.lastChange,
           lastPublished |-> n.lastPublished, ignore |-> n.ignore, failed |-> n.failed]
  BY <1>1 DEF DepthObject
<1> HIDE DEF n
<1> QED
  BY <1>2, <1>3, <1>4

(* change_qty_order(): the quantity of a price changes. *)
LEMMA ChangeQtyOrderChanges ==
  ASSUME NEW d, Structure(d), Numbered(d), Counted(d), NEW b \in BOOLEAN,
         NEW price, price \in Nat \ {0}, NEW delta, delta \in Int,
         NEW t, t = LevelTotal(d, b, price), t.count # 0, t.qty + delta \in Quantity,
         NEW r, r = ChangeQtyOrder(d, b, price, delta)
  PROVE  /\ Counted(r) /\ r.failed = d.failed
         /\ TotalIs(d, r, b, price, [count |-> t.count, qty |-> t.qty + delta])
<1>1. PICK loc, y : loc = Find(d, b, price) /\ y = At(d, loc)
  OBVIOUS
<1>2. /\ ~(loc.at > SIZE) /\ Checked(d, loc, b) = d
      /\ y \in Level /\ y.price = price /\ Holds(d, b, y)
      /\ y = [price |-> price, count |-> t.count, qty |-> t.qty]
      /\ t.count \in Nat \ {0} /\ t.qty \in Quantity /\ t.qty \in Nat
  BY <1>1, ChangedInPlace
<1> DEFINE x == [y EXCEPT !.qty = (@ + delta) % Word]
<1>3. x = [price |-> price, count |-> t.count, qty |-> t.qty + delta]
  <2>1. (t.qty + delta) % Word = t.qty + delta
    BY DepthAssumption DEF DepthAssumption, Quantity
  <2> QED
    BY <1>2, <2>1
<1>4. x \in Level /\ x.price = price /\ x.count > 0
  BY <1>2, <1>3 DEF Level
<1>5. Sums(x) = [count |-> t.count, qty |-> t.qty + delta]
  BY <1>3 DEF Sums
<1>6. CASE delta = 0
  <2>1. r = d
    BY <1>6 DEF ChangeQtyOrder
  <2>2. t = [count |-> t.count, qty |-> t.qty + delta]
    <3>1. t = Sums(y)
      BY <1>2, TotalIsHeld
    <3> QED
      BY <1>2, <1>6, <3>1 DEF Sums
  <2> QED
    BY <2>1, <2>2 DEF TotalIs
<1>7. CASE delta # 0
  <2> DEFINE e == Put(d, loc, x)
  <2>1. r = Touch(e, loc)
    BY <1>1, <1>2, <1>7 DEF ChangeQtyOrder
  <2> HIDE DEF x
  <2>2. Structure(e) /\ e.failed = d.failed /\ Swapped(d, e, b, price, x)
    BY <1>1, <1>4, PutTotals
  <2> HIDE DEF e
  <2>3. r.level = e.level /\ r.excess = e.excess /\ r.failed = e.failed
    BY <2>1, <2>2, TouchHolds
  <2>4. Swapped(d, r, b, price, x)
    BY <2>2, <2>3 DEF Swapped, Holds
  <2>5. Counted(r)
    BY <1>4, <2>4 DEF Counted, Swapped
  <2>6. Structure(r)
    BY ChangeQtyOrderKeeps
  <2>7. TotalIs(d, r, b, price, Sums(x))
    BY <1>4, <2>4, <2>6, SwapTotals
  <2> QED
    BY <1>5, <2>2, <2>3, <2>5, <2>7
<1> QED
  BY <1>6, <1>7

(* close_order(): one order and its quantity less. *)
LEMMA CloseOrderTakes ==
  ASSUME NEW d, Structure(d), Numbered(d), Counted(d), NEW b \in BOOLEAN,
         NEW price, price \in Nat \ {0}, NEW qty, qty \in Nat,
         NEW t, t = LevelTotal(d, b, price), t.count # 0, qty <= t.qty, t.count = 1 => t.qty = qty,
         NEW r, r = CloseOrder(d, b, price, qty)
  PROVE  /\ Counted(r) /\ r.failed = d.failed
         /\ TotalIs(d, r, b, price, [count |-> t.count - 1, qty |-> t.qty - qty])
<1>1. PICK loc, y : loc = Find(d, b, price) /\ y = At(d, loc)
  OBVIOUS
<1>2. /\ ~(loc.at > SIZE) /\ Checked(d, loc, b) = d /\ ValidLoc(d, loc)
      /\ loc.buy = b /\ loc.price = price
      /\ y \in Level /\ y.price = price /\ Holds(d, b, y)
      /\ y = [price |-> price, count |-> t.count, qty |-> t.qty]
      /\ t.count \in Nat \ {0} /\ t.qty \in Quantity /\ t.qty \in Nat
  BY <1>1, ChangedInPlace
<1>3. y.count = t.count /\ y.qty = t.qty /\ ~(loc.at > SIZE \/ y.count = 0)
  BY <1>2
<1>4. CASE t.count = 1
  <2> DEFINE x == Fresh(price)
             e == Put(d, loc, x)
  <2>1. r = Erase(e, b, loc)
    BY <1>1, <1>2, <1>3, <1>4 DEF CloseOrder
  <2>2. x \in Level /\ x.price = price
    BY FreshIsLevel
  <2>3. Structure(e) /\ e.failed = d.failed /\ Swapped(d, e, b, price, x)
    BY <1>1, <2>2, PutTotals
  <2>4. /\ ValidLoc(e, loc) /\ e.stamp = d.stamp /\ e.lastChange = d.lastChange
        /\ e.lastPublished = d.lastPublished
        /\ \A c \in BOOLEAN, i \in 1..SIZE : e.level[c][i].price = d.level[c][i].price
    <3>1. x.price = At(d, loc).price /\ x.price # 0
      BY <1>1, <1>2, <2>2
    <3> QED
      BY <1>2, <2>2, <3>1, PutKeeps
  <2> HIDE DEF e, x
  <2>5. PICK z : z = At(e, loc)
    OBVIOUS
  <2>6. Holds(e, b, z) /\ z.price = price
    <3>1. CASE loc.at = 0
      <4>1. z \in e.excess[b] /\ z.price = price
        BY <1>2, <2>3, <2>4, <2>5, <3>1, AtIsLevel DEF Structure
      <4> QED
        BY <2>3, <4>1, ExcessIsHeld
    <3>2. CASE loc.at # 0
      <4>1. PICK i \in 1..SIZE : i = loc.at /\ i > 0
        BY <1>2, <3>2, DepthAssumption DEF ValidLoc, DepthAssumption
      <4>2. y = d.level[b][i] /\ z = e.level[b][i]
        BY <1>1, <1>2, <2>5, <4>1 DEF At
      <4>3. z.price = price
        BY <1>2, <2>4, <4>2
      <4> QED
        BY <4>2, <4>3 DEF Holds, In, INVALID_LEVEL_PRICE
    <3> QED
      BY <3>1, <3>2
  <2>7. Gone(e, r, b, price)
    BY <1>2, <2>1, <2>3, <2>4, <2>5, <2>6, EraseRemoves
  <2>8. Gone(d, r, b, price)
    BY <2>3, <2>7 DEF Gone, Swapped
  <2>9. Numbered(e)
    BY <2>4 DEF Numbered
  <2>10. Structure(r) /\ r.failed = e.failed
    BY <1>2, <2>1, <2>3, <2>4, <2>9, EraseKeeps
  <2>11. Counted(r)
    BY <2>8 DEF Counted, Gone
  <2>12. TotalIs(d, r, b, price, None)
    BY <2>8, <2>10, GoneTotals
  <2>13. None = [count |-> t.count - 1, qty |-> t.qty - qty]
    BY <1>2, <1>4 DEF None
  <2> QED
    BY <2>3, <2>10, <2>11, <2>12, <2>13
<1>5. CASE t.count # 1
  <2> DEFINE x == [y EXCEPT !.count = @ - 1, !.qty = @ - qty]
             e == Put(d, loc, x)
  <2>1. r = Touch(e, loc)
    BY <1>1, <1>2, <1>3, <1>5 DEF CloseOrder
  <2> HIDE DEF e
  <2>2. x = [price |-> price, count |-> t.count - 1, qty |-> t.qty - qty]
    <3>1. x = [y EXCEPT !.count = y.count - 1, !.qty = y.qty - qty]
      BY Zenon
    <3>2. x = [y EXCEPT !.count = t.count - 1, !.qty = t.qty - qty]
      BY ONLY <1>3, <3>1
    <3> HIDE DEF x
    <3> QED
      BY ONLY <1>2, <3>2, Updated
  <2>3. t.count - 1 \in Nat /\ t.count - 1 > 0 /\ t.qty - qty \in Quantity
    BY <1>2, <1>5, DepthAssumption DEF DepthAssumption, Quantity
  <2>4. x \in Level /\ x.price = price /\ x.count > 0
    BY <2>2, <2>3 DEF Level
  <2>5. Sums(x) = [count |-> t.count - 1, qty |-> t.qty - qty]
    BY <2>2 DEF Sums
  <2> HIDE DEF x
  <2>6. Structure(e) /\ e.failed = d.failed /\ Swapped(d, e, b, price, x)
    BY <1>1, <2>4, PutTotals DEF e
  <2>7. r.level = e.level /\ r.excess = e.excess /\ r.failed = e.failed
    BY <2>1, <2>6, TouchHolds
  <2>8. Swapped(d, r, b, price, x)
    BY <2>6, <2>7 DEF Swapped, Holds
  <2>9. Counted(r)
    BY <2>4, <2>8 DEF Counted, Swapped
  <2>10. Structure(r)
    BY CloseOrderKeeps
  <2>11. TotalIs(d, r, b, price, Sums(x))
    BY <2>4, <2>8, <2>10, SwapTotals
  <2> QED
    BY <2>5, <2>6, <2>7, <2>9, <2>11
<1> QED
  BY <1>4, <1>5

(* replace_order() that moves an order: it leaves one price and enters     *)
(* another.                                                                *)
LEMMA ReplaceOrderMoves ==
  ASSUME NEW d, Structure(d), Numbered(d), Counted(d), NEW b \in BOOLEAN,
         NEW price, price \in Nat \ {0}, NEW newPrice, newPrice \in Nat \ {0}, newPrice # price,
         NEW qty, qty \in Nat, NEW newQty, newQty \in Nat,
         NEW t, t = LevelTotal(d, b, price), t.count # 0, qty <= t.qty, t.count = 1 => t.qty = qty,
         NEW u, u = LevelTotal(d, b, newPrice), u.qty + newQty < Word,
         NEW r, r = ReplaceOrder(d, b, price, newPrice, qty, newQty)
  PROVE  /\ Counted(r) /\ r.failed = d.failed
         /\ \E e : /\ TotalIs(d, e, b, newPrice, [count |-> u.count + 1, qty |-> u.qty + newQty])
                   /\ TotalIs(e, r, b, price, [count |-> t.count - 1, qty |-> t.qty - qty])
<1>1. PICK e : e = AddOrder(d, b, newPrice, newQty)
  OBVIOUS
<1>2. r = CloseOrder(e, b, price, qty)
  BY <1>1 DEF ReplaceOrder
<1>3. Structure(e) /\ Numbered(e)
  BY <1>1, AddOrderKeeps
<1>4. /\ Counted(e) /\ e.failed = d.failed
      /\ TotalIs(d, e, b, newPrice, [count |-> u.count + 1, qty |-> u.qty + newQty])
  BY <1>1, AddOrderAdds
<1>5. LevelTotal(e, b, price) = t
  BY <1>4 DEF TotalIs
<1>6. /\ Counted(r) /\ r.failed = e.failed
      /\ TotalIs(e, r, b, price, [count |-> t.count - 1, qty |-> t.qty - qty])
  BY <1>2, <1>3, <1>4, <1>5, CloseOrderTakes
<1> QED
  BY <1>4, <1>6

-----------------------------------------------------------------------------
(* What the open orders add up to *)

Qtys(m) == [o \in Orders |-> m[o].qty]

AtPrice(m, b, p) == {o \in Orders : m[o].buy = b /\ m[o].price = p}

(* The count and the quantity of the orders at a price. *)
Book(m, b, p) == [count |-> Cardinality(AtPrice(m, b, p)), qty |-> Sum(Qtys(m), AtPrice(m, b, p))]

AllQty(m) == Sum(Qtys(m), Orders)

(* The quantities are numbers, of a finite set of orders. *)
LEMMA QtysAreNumbers ==
  ASSUME NEW m \in [Orders -> ClientOrder]
  PROVE  /\ IsFiniteSet(Orders) /\ Qtys(m) \in [Orders -> Nat] /\ Qtys(m) \in [Orders -> Int]
         /\ \A o \in Orders : Qtys(m)[o] = m[o].qty
<1>1. \A o \in Orders : m[o].qty \in Nat
  BY DepthAssumption DEF ClientOrder, Quantity, DepthAssumption
<1> QED
  BY <1>1, DepthAssumption DEF Qtys, DepthAssumption

(* The sums of Depth are these sums. *)
LEMMA OrdersAddUp ==
  ASSUME NEW m \in [Orders -> ClientOrder], NEW S \in SUBSET Orders
  PROVE  MapThenSumSet(LAMBDA o : m[o].qty, S) = Sum(Qtys(m), S)
<1> DEFINE f == [o \in S |-> m[o].qty]
           IsTable(h) == h = [s \in SUBSET S |-> IF s = {} THEN 0
                                                 ELSE m[Pick(s)].qty + h[s \ {Pick(s)}]]
           h == CHOOSE h : IsTable(h)
           k == CHOOSE g : IsSum(g, f, S)
<1>1. IsFiniteSet(Orders) /\ \A o \in Orders : m[o].qty \in Int
  BY QtysAreNumbers DEF Qtys
<1>2. IsFiniteSet(S)
  BY <1>1, FS_Subset
<1>3. MapThenSumSet(LAMBDA o : m[o].qty, S) = h[S]
  BY DEF MapThenSumSet, MapThenFoldSet, Pick
<1>4. f \in [S -> Int] /\ \A s \in SUBSET S : s # {} => f[Pick(s)] = m[Pick(s)].qty
  BY <1>1, PickIsMember
<1>5. PICK d \in [SUBSET S -> Int] : IsSum(d, f, S)
  BY <1>2, <1>4, SumExists
<1>6. Sum(f, S) = k[S]
  BY DEF Sum
<1>7. IsSum(k, f, S)
  BY <1>5
<1>8. \A g : IsSum(g, f, S) <=> IsTable(g)
  <2> TAKE g
  <2>1. [s \in SUBSET S |-> IF s = {} THEN 0 ELSE m[Pick(s)].qty + g[s \ {Pick(s)}]]
        = [s \in SUBSET S |-> IF s = {} THEN 0 ELSE f[Pick(s)] + g[s \ {Pick(s)}]]
    BY <1>4
  <2> QED
    BY <2>1 DEF IsSum
<1>9. IsTable(h)
  <2>1. IsTable(d)
    BY <1>5, <1>8
  <2> HIDE DEF IsTable
  <2> QED
    BY <2>1
<1> HIDE DEF h, k
<1>10. h[S] = k[S]
  <2>1. IsSum(h, f, S)
    BY <1>8, <1>9
  <2> QED
    BY <1>2, <1>4, <1>7, <2>1, SumsAgree
<1>11. Sum(f, S) = Sum(Qtys(m), S)
  <2>1. \A o \in S : f[o] = Qtys(m)[o]
    BY DEF Qtys
  <2> HIDE DEF f
  <2> QED
    BY <1>1, <1>2, <1>4, <2>1, QtysAreNumbers, SumOfSame
<1> QED
  BY <1>3, <1>6, <1>10, <1>11

With(m, o, c) == [m EXCEPT ![o] = c]
Without(m, o) == With(m, o, NoOrder)

(* An order that leaves takes itself and its quantity from its price. *)
LEMMA OneLess ==
  ASSUME NEW m \in [Orders -> ClientOrder], NEW o \in Orders, NEW n,
         n = Without(m, o), m[o].price # 0,
         NEW b \in BOOLEAN, NEW p \in Nat \ {0}
  PROVE  Book(n, b, p) = IF b = m[o].buy /\ p = m[o].price
                         THEN [count |-> Book(m, b, p).count - 1,
                               qty |-> Book(m, b, p).qty - m[o].qty]
                         ELSE Book(m, b, p)
<1>1. n \in [Orders -> ClientOrder]
  BY DepthAssumption DEF NoOrder, ClientOrder, Quantity, DepthAssumption, Without, With
<1>2. PICK A, B : A = AtPrice(m, b, p) /\ B = AtPrice(n, b, p)
  OBVIOUS
<1>3. A \in SUBSET Orders /\ B = A \ {o}
  BY <1>2 DEF AtPrice, NoOrder, Without, With
<1>4. IsFiniteSet(Orders) /\ IsFiniteSet(A)
  BY <1>3, DepthAssumption, FS_Subset DEF DepthAssumption
<1>5. Sum(Qtys(n), B) = Sum(Qtys(m), B)
  <2>0. PICK f, g : f = Qtys(m) /\ g = Qtys(n)
    OBVIOUS
  <2>1. \A x \in B : g[x] = f[x]
    BY <1>3, <2>0 DEF Qtys, Without, With
  <2>2. g \in [Orders -> Int] /\ f \in [Orders -> Int] /\ B \in SUBSET Orders
    BY <1>1, <1>3, <2>0, QtysAreNumbers
  <2>3. Sum(g, B) = Sum(f, B)
    BY ONLY <1>4, <2>1, <2>2, SumOfSame
  <2> QED
    BY <2>0, <2>3
<1>6. CASE b = m[o].buy /\ p = m[o].price
  <2>1. o \in A
    BY <1>2, <1>6 DEF AtPrice
  <2>2. Cardinality(B) = Cardinality(A) - 1
    BY <1>3, <1>4, <2>1, FS_RemoveElement
  <2>3. Sum(Qtys(m), A) = m[o].qty + Sum(Qtys(m), B)
    BY <1>3, <1>4, <2>1, QtysAreNumbers, SumWithout
  <2>4. m[o].qty \in Int /\ Sum(Qtys(m), B) \in Int
    BY <1>3, QtysAreNumbers, SumType
  <2>5. Sum(Qtys(m), B) = Sum(Qtys(m), A) - m[o].qty
    BY <2>3, <2>4
  <2> QED
    BY <1>2, <1>5, <1>6, <2>2, <2>5 DEF Book
<1>7. CASE ~(b = m[o].buy /\ p = m[o].price)
  <2>1. B = A
    BY <1>2, <1>3, <1>7 DEF AtPrice
  <2> QED
    BY <1>2, <1>5, <1>7, <2>1 DEF Book
<1> QED
  BY <1>6, <1>7

(* What is at a price is at least what each of its orders is. *)
LEMMA OneOfBook ==
  ASSUME NEW m \in [Orders -> ClientOrder], NEW o \in Orders, m[o].price # 0,
         NEW t, t = Book(m, m[o].buy, m[o].price)
  PROVE  /\ t.count \in Nat \ {0} /\ t.qty \in Nat /\ m[o].qty \in Nat /\ m[o].qty <= t.qty
         /\ t.count = 1 => t.qty = m[o].qty
<1>1. PICK A : A = AtPrice(m, m[o].buy, m[o].price)
  OBVIOUS
<1>2. A \in SUBSET Orders /\ o \in A
  BY <1>1 DEF AtPrice
<1>3. IsFiniteSet(Orders) /\ IsFiniteSet(A)
  BY <1>2, DepthAssumption, FS_Subset DEF DepthAssumption
<1>4. Cardinality(A) \in Nat /\ Cardinality(A \ {o}) = Cardinality(A) - 1
      /\ Cardinality(A \ {o}) \in Nat
  BY <1>2, <1>3, FS_RemoveElement, FS_CardinalityType
<1>5. Sum(Qtys(m), A) = m[o].qty + Sum(Qtys(m), A \ {o})
  BY <1>2, <1>3, QtysAreNumbers, SumWithout
<1>6. m[o].qty \in Nat /\ Sum(Qtys(m), A \ {o}) \in Nat
  BY <1>2, <1>3, QtysAreNumbers, SumBound
<1>7. Cardinality(A) = 1 => Sum(Qtys(m), A) = m[o].qty
  <2> HAVE Cardinality(A) = 1
  <2>1. A \ {o} = {}
    BY <1>3, <1>4, FS_EmptySet, FS_Subset
  <2> QED
    BY <1>5, <1>6, <2>1, SumOfNone
<1>8. t.count = Cardinality(A) /\ t.qty = Sum(Qtys(m), A)
  BY <1>1 DEF Book
<1> QED
  BY <1>4, <1>5, <1>6, <1>7, <1>8

(* What is at a price is not more than all there is. *)
LEMMA PartOfBook ==
  ASSUME NEW m \in [Orders -> ClientOrder], NEW b, NEW p
  PROVE  /\ Book(m, b, p).qty \in Nat /\ AllQty(m) \in Nat /\ Book(m, b, p).qty <= AllQty(m)
         /\ Book(m, b, p).count \in Nat
<1>1. PICK A : A = AtPrice(m, b, p)
  OBVIOUS
<1>2. A \in SUBSET Orders
  BY <1>1 DEF AtPrice
<1>3. IsFiniteSet(A)
  BY <1>2, DepthAssumption, FS_Subset DEF DepthAssumption
<1>4. Sum(Qtys(m), A) \in Nat /\ AllQty(m) \in Nat /\ Sum(Qtys(m), A) <= AllQty(m)
  BY <1>2, QtysAreNumbers, SumBound DEF AllQty
<1>5. Cardinality(A) \in Nat
  BY <1>3, FS_CardinalityType
<1> QED
  BY <1>1, <1>4, <1>5 DEF Book

(* An order that changes leaves one place and enters the other. *)
LEMMA OneChanged ==
  ASSUME NEW m \in [Orders -> ClientOrder], NEW o \in Orders, NEW c \in ClientOrder, c.price # 0,
         NEW k, k = Without(m, o), NEW n, n = With(m, o, c)
  PROVE  /\ n \in [Orders -> ClientOrder]
         /\ AllQty(n) = AllQty(m) - m[o].qty + c.qty
         /\ \A b \in BOOLEAN, p \in Nat \ {0} :
              Book(n, b, p) = IF b = c.buy /\ p = c.price
                              THEN [count |-> Book(k, b, p).count + 1,
                                    qty |-> Book(k, b, p).qty + c.qty]
                              ELSE Book(k, b, p)
<1>1. n \in [Orders -> ClientOrder] /\ n[o] = c /\ k = Without(n, o)
  BY DEF Without, With
<1>2. AllQty(n) = AllQty(m) - m[o].qty + c.qty
  <2>0. PICK f, g : f = Qtys(m) /\ g = Qtys(n)
    OBVIOUS
  <2>1. \A x \in Orders \ {o} : g[x] = f[x]
    BY <2>0 DEF Qtys, With
  <2>2. g[o] = c.qty /\ f[o] = m[o].qty
    BY <1>1, <2>0 DEF Qtys
  <2>3. f \in [Orders -> Int] /\ g \in [Orders -> Int] /\ IsFiniteSet(Orders)
    BY <1>1, <2>0, QtysAreNumbers
  <2>4. Sum(g, Orders) = Sum(f, Orders) - f[o] + g[o]
    BY ONLY <2>1, <2>3, o \in Orders, SumAfterChange
  <2> QED
    BY <2>0, <2>2, <2>4 DEF AllQty
<1>3. ASSUME NEW b \in BOOLEAN, NEW p \in Nat \ {0}
      PROVE  Book(n, b, p) = IF b = c.buy /\ p = c.price
                             THEN [count |-> Book(k, b, p).count + 1,
                                   qty |-> Book(k, b, p).qty + c.qty]
                             ELSE Book(k, b, p)
  <2>1. PICK s, t : s = Book(k, b, p) /\ t = Book(n, b, p)
    OBVIOUS
  <2>2. s = IF b = c.buy /\ p = c.price THEN [count |-> t.count - 1, qty |-> t.qty - c.qty] ELSE t
    <3>1. n[o].price # 0 /\ n[o].buy = c.buy /\ n[o].price = c.price /\ n[o].qty = c.qty
      BY <1>1
    <3>2. PICK w : w = n
      OBVIOUS
    <3>3. w \in [Orders -> ClientOrder] /\ k = Without(w, o) /\ w[o].price # 0
      BY <1>1, <3>1, <3>2
    <3>4. Book(k, b, p) = IF b = w[o].buy /\ p = w[o].price
                          THEN [count |-> Book(w, b, p).count - 1,
                                qty |-> Book(w, b, p).qty - w[o].qty]
                          ELSE Book(w, b, p)
      BY ONLY <3>3, b \in BOOLEAN, p \in Nat \ {0}, o \in Orders, OneLess
    <3> QED
      BY <2>1, <3>1, <3>2, <3>4
  <2>3. t = [count |-> t.count, qty |-> t.qty] /\ t.count \in Nat /\ t.qty \in Nat /\ c.qty \in Nat
    <3>1. c.qty \in Nat
      BY DepthAssumption DEF ClientOrder, Quantity, DepthAssumption
    <3>2. t.count \in Nat /\ t.qty \in Nat
      BY <1>1, <2>1, PartOfBook
    <3> QED
      BY <2>1, <3>1, <3>2 DEF Book
  <2>4. CASE b = c.buy /\ p = c.price
    <3>1. s.count + 1 = t.count /\ s.qty + c.qty = t.qty
      BY <2>2, <2>3, <2>4
    <3> QED
      BY <2>1, <2>3, <2>4, <3>1
  <2> QED
    BY <2>1, <2>2, <2>4
<1> QED
  BY <1>1, <1>2, <1>3

(* An order that leaves takes its quantity from all there is. *)
LEMMA AllLess ==
  ASSUME NEW m \in [Orders -> ClientOrder], NEW o \in Orders, NEW n, n = Without(m, o)
  PROVE  n \in [Orders -> ClientOrder] /\ AllQty(n) = AllQty(m) - m[o].qty
<1>1. n \in [Orders -> ClientOrder]
  BY DepthAssumption DEF NoOrder, ClientOrder, Quantity, DepthAssumption, Without, With
<1>2. PICK f, g : f = Qtys(m) /\ g = Qtys(n)
  OBVIOUS
<1>3. \A x \in Orders \ {o} : g[x] = f[x]
  BY <1>2 DEF Qtys, Without, With
<1>4. g[o] = 0 /\ f[o] = m[o].qty
  BY <1>2 DEF Qtys, NoOrder, Without, With
<1>5. f \in [Orders -> Int] /\ g \in [Orders -> Int] /\ IsFiniteSet(Orders)
  BY <1>1, <1>2, QtysAreNumbers
<1>6. Sum(g, Orders) = Sum(f, Orders) - f[o] + g[o]
  BY ONLY <1>3, <1>5, o \in Orders, SumAfterChange
<1>7. Sum(f, Orders) \in Int /\ m[o].qty \in Int
  BY <1>4, <1>5, SumType
<1> QED
  BY <1>1, <1>2, <1>4, <1>6, <1>7 DEF AllQty

-----------------------------------------------------------------------------
(* The calls of the client *)

(* The orders m of the client and the object d that it keeps in step.  No  *)
(* call has failed, no level without orders is held, and what is held at a *)
(* price is what the orders there add up to, which fits in a word.         *)
Kept(m, d) ==
  /\ Structure(d) /\ Numbered(d) /\ Counted(d) /\ ~d.failed
  /\ m \in [Orders -> ClientOrder]
  /\ \A o \in Orders : m[o] # NoOrder => m[o].price \in Prices /\ m[o].qty \in Amounts
  /\ AllQty(m) < Word
  /\ \A b \in BOOLEAN, p \in Nat \ {0} : LevelTotal(d, b, p) = Book(m, b, p)

(* The totals that Levels is about. *)
Totals(d) == [buy \in BOOLEAN |-> [p \in Prices |-> LevelTotal(d, buy, p)]]

(* From d to n the totals of one side change as Levels allows. *)
CallFrom(d, n) ==
  \E buy \in BOOLEAN : /\ Promise!Called(Totals(d)[buy], Totals(n)[buy])
                       /\ Totals(n)[~buy] = Totals(d)[~buy]

(* The prices and the amounts are numbers. *)
LEMMA ClientNumbers ==
  /\ \A p \in Prices : p \in Nat \ {0}
  /\ \A q \in Quantities : q \in Nat \ {0} /\ q \in Quantity /\ q \in Amounts
  /\ \A q \in Amounts : q \in Nat /\ q \in Quantity /\ \A r \in 0..q : r \in Amounts
<1>1. Word \in Nat \ {0} /\ Quantities \subseteq 1..(Word - 1) /\ Prices \subseteq Nat \ {0}
  BY DepthAssumption DEF DepthAssumption
<1>2. \A q \in Quantities : q \in Nat \ {0} /\ q \in Quantity /\ q \in 0..q
  BY <1>1 DEF Quantity
<1>3. ASSUME NEW q \in Amounts
      PROVE  q \in Nat /\ q \in Quantity /\ \A r \in 0..q : r \in Amounts
  <2>1. PICK k \in Quantities : q \in 0..k
    BY DEF Amounts
  <2>2. k \in 1..(Word - 1)
    BY <1>1
  <2>3. q \in Nat /\ q \in Quantity /\ \A r \in 0..q : r \in 0..k
    BY <1>1, <2>1, <2>2 DEF Quantity
  <2> QED
    BY <2>3 DEF Amounts
<1> QED
  BY <1>1, <1>2, <1>3 DEF Amounts

(* One total is another: so is one entry of the table of that side. *)
LEMMA TotalsChange ==
  ASSUME NEW d, NEW n, NEW b \in BOOLEAN, NEW p \in Prices, NEW t, TotalIs(d, n, b, p, t)
  PROVE  /\ Totals(n)[b] = With(Totals(d)[b], p, t)
         /\ Totals(n)[~b] = Totals(d)[~b]
<1>1. \A x \in Prices : x \in Nat \ {0}
  BY ClientNumbers
<1>2. \A c \in BOOLEAN : Totals(n)[c] = [x \in Prices |-> LevelTotal(n, c, x)]
                         /\ Totals(d)[c] = [x \in Prices |-> LevelTotal(d, c, x)]
  BY DEF Totals
<1>3. \A c \in BOOLEAN, x \in Prices :
        LevelTotal(n, c, x) = IF c = b /\ x = p THEN t ELSE LevelTotal(d, c, x)
  BY <1>1 DEF TotalIs
<1>4. (~b) \in BOOLEAN /\ (~b) # b
  OBVIOUS
<1>5. Totals(n)[~b] = Totals(d)[~b]
  <2>1. \A x \in Prices : LevelTotal(n, ~b, x) = LevelTotal(d, ~b, x)
    BY <1>3, <1>4
  <2> QED
    BY <1>2, <1>4, <2>1
<1>6. Totals(n)[b] = With(Totals(d)[b], p, t)
  <2>1. \A x \in Prices : LevelTotal(n, b, x) = IF x = p THEN t ELSE LevelTotal(d, b, x)
    BY <1>3
  <2>2. PICK S, T : S = Totals(n)[b] /\ T = Totals(d)[b]
    OBVIOUS
  <2>3. /\ S = [x \in Prices |-> S[x]] /\ T = [x \in Prices |-> T[x]]
        /\ \A x \in Prices : S[x] = IF x = p THEN t ELSE T[x]
    <3>1. S = [x \in Prices |-> LevelTotal(n, b, x)] /\ T = [x \in Prices |-> LevelTotal(d, b, x)]
      BY <1>2, <2>2
    <3>2. \A x \in Prices : S[x] = LevelTotal(n, b, x) /\ T[x] = LevelTotal(d, b, x)
      BY ONLY <3>1
    <3>3. S = [x \in Prices |-> S[x]] /\ T = [x \in Prices |-> T[x]]
      BY ONLY <3>1
    <3> QED
      BY ONLY <2>1, <3>2, <3>3
  <2>4. With(T, p, t) = [x \in Prices |-> S[x]]
    BY ONLY <2>3 DEF With
  <2> QED
    BY <2>2, <2>3, <2>4
<1> QED
  BY <1>5, <1>6

(* add_order() for a new order. *)
LEMMA AddFollows ==
  ASSUME NEW d, NEW m, Kept(m, d), NEW o \in Orders, m[o] = NoOrder,
         NEW b \in BOOLEAN, NEW p \in Prices, NEW q \in Quantities, AllQty(m) + q < Word,
         NEW n, n = With(m, o, [buy |-> b, price |-> p, qty |-> q]),
         NEW r, r = AddOrder(d, b, p, q)
  PROVE  Kept(n, r) /\ CallFrom(d, r)
<1>1. /\ Structure(d) /\ Numbered(d) /\ Counted(d) /\ ~d.failed
      /\ m \in [Orders -> ClientOrder]
      /\ \A x \in Orders : m[x] # NoOrder => m[x].price \in Prices /\ m[x].qty \in Amounts
      /\ \A c \in BOOLEAN, x \in Nat \ {0} : LevelTotal(d, c, x) = Book(m, c, x)
  BY DEF Kept
<1>2. p \in Nat \ {0} /\ q \in Nat \ {0} /\ q \in Quantity /\ q \in Amounts
  BY ClientNumbers
<1>3. PICK c : c = [buy |-> b, price |-> p, qty |-> q]
  OBVIOUS
<1>4. c \in ClientOrder /\ c.buy = b /\ c.price = p /\ c.qty = q /\ c.price # 0
  BY <1>2, <1>3 DEF ClientOrder
<1>5. m = Without(m, o)
  BY <1>1 DEF Without, With
<1>6. n = With(m, o, c)
  BY <1>3
<1>7. /\ n \in [Orders -> ClientOrder] /\ AllQty(n) = AllQty(m) - m[o].qty + c.qty
      /\ \A x \in BOOLEAN, y \in Nat \ {0} :
           Book(n, x, y) = IF x = c.buy /\ y = c.price
                           THEN [count |-> Book(m, x, y).count + 1, qty |-> Book(m, x, y).qty + c.qty]
                           ELSE Book(m, x, y)
  BY ONLY <1>1, <1>4, <1>5, <1>6, o \in Orders, OneChanged
<1>8. PICK t : t = LevelTotal(d, b, p)
  OBVIOUS
<1>9. t = Book(m, b, p) /\ t.qty \in Nat /\ t.qty <= AllQty(m) /\ AllQty(m) \in Nat
  BY <1>1, <1>2, <1>8, PartOfBook
<1>10. t.qty + q < Word
  BY <1>2, <1>9, DepthAssumption DEF DepthAssumption
<1>11. /\ Counted(r) /\ r.failed = d.failed
       /\ TotalIs(d, r, b, p, [count |-> t.count + 1, qty |-> t.qty + q])
  BY <1>1, <1>2, <1>8, <1>10, AddOrderAdds
<1>12. Structure(r) /\ Numbered(r)
  BY <1>1, <1>2, AddOrderKeeps
<1>13. ASSUME NEW x \in BOOLEAN, NEW y \in Nat \ {0}
       PROVE  LevelTotal(r, x, y) = Book(n, x, y)
  <2>1. LevelTotal(r, x, y) = IF x = b /\ y = p THEN [count |-> t.count + 1, qty |-> t.qty + q]
                              ELSE LevelTotal(d, x, y)
    BY <1>11 DEF TotalIs
  <2>2. Book(n, x, y) = IF x = b /\ y = p
                        THEN [count |-> Book(m, x, y).count + 1, qty |-> Book(m, x, y).qty + q]
                        ELSE Book(m, x, y)
    BY <1>4, <1>7
  <2> QED
    BY <1>1, <1>9, <2>1, <2>2
<1>14. AllQty(n) < Word
  <2>1. m[o].qty = 0
    BY DEF NoOrder
  <2> QED
    BY <1>4, <1>7, <1>9, <2>1, <1>2
<1>15. \A x \in Orders : n[x] # NoOrder => n[x].price \in Prices /\ n[x].qty \in Amounts
  BY <1>1, <1>2, <1>4, <1>6 DEF With
<1>16. Kept(n, r)
  BY <1>1, <1>7, <1>11, <1>12, <1>13, <1>14, <1>15 DEF Kept
<1>17. CallFrom(d, r)
  <2>1. PICK T : T = Totals(d)[b]
    OBVIOUS
  <2>2. T[p] = t
    BY <1>8, <2>1 DEF Totals
  <2>3. /\ Totals(r)[b] = With(T, p, [count |-> t.count + 1, qty |-> t.qty + q])
        /\ Totals(r)[~b] = Totals(d)[~b]
    <3>1. PICK w : w = [count |-> t.count + 1, qty |-> t.qty + q]
      OBVIOUS
    <3>2. TotalIs(d, r, b, p, w)
      BY <1>11, <3>1
    <3>3. p \in Prices /\ b \in BOOLEAN
      OBVIOUS
    <3>4. Totals(r)[b] = With(Totals(d)[b], p, w) /\ Totals(r)[~b] = Totals(d)[~b]
      BY ONLY <3>2, <3>3, TotalsChange
    <3> QED
      BY <2>1, <3>1, <3>4
  <2>4. Totals(r)[b] = Promise!Entered(T, p, q)
    BY <2>2, <2>3 DEF Promise!Entered, With
  <2>5. Promise!Called(T, Totals(r)[b])
    BY <1>2, <2>4 DEF Promise!Called
  <2> QED
    BY <2>1, <2>3, <2>5 DEF CallFrom
<1> QED
  BY <1>16, <1>17

(* close_order() for an open order with all its quantity. *)
LEMMA LeaveFollows ==
  ASSUME NEW d, NEW m, Kept(m, d), NEW o \in Orders, m[o] # NoOrder,
         NEW n, n = Without(m, o),
         NEW r, r = CloseOrder(d, m[o].buy, m[o].price, m[o].qty)
  PROVE  Kept(n, r) /\ CallFrom(d, r)
<1>1. /\ Structure(d) /\ Numbered(d) /\ Counted(d) /\ ~d.failed
      /\ m \in [Orders -> ClientOrder]
      /\ \A x \in Orders : m[x] # NoOrder => m[x].price \in Prices /\ m[x].qty \in Amounts
      /\ \A c \in BOOLEAN, x \in Nat \ {0} : LevelTotal(d, c, x) = Book(m, c, x)
  BY DEF Kept
<1>2. PICK b, p, q : b = m[o].buy /\ p = m[o].price /\ q = m[o].qty
  OBVIOUS
<1>3. b \in BOOLEAN /\ p \in Prices /\ p \in Nat \ {0} /\ q \in Amounts /\ q \in Nat
  BY <1>1, <1>2, ClientNumbers DEF ClientOrder
<1>4. PICK t : t = LevelTotal(d, b, p)
  OBVIOUS
<1>5. /\ t = Book(m, b, p) /\ t.count \in Nat \ {0} /\ q <= t.qty /\ t.qty \in Nat
      /\ t.count = 1 => t.qty = q
  BY <1>1, <1>2, <1>3, <1>4, OneOfBook
<1>6. /\ Counted(r) /\ r.failed = d.failed
      /\ TotalIs(d, r, b, p, [count |-> t.count - 1, qty |-> t.qty - q])
  BY <1>1, <1>2, <1>3, <1>4, <1>5, CloseOrderTakes
<1>7. Structure(r) /\ Numbered(r)
  BY <1>1, <1>2, <1>3, CloseOrderKeeps
<1>8. ASSUME NEW x \in BOOLEAN, NEW y \in Nat \ {0}
      PROVE  LevelTotal(r, x, y) = Book(n, x, y)
  <2>1. Book(n, x, y) = IF x = b /\ y = p
                        THEN [count |-> Book(m, x, y).count - 1, qty |-> Book(m, x, y).qty - q]
                        ELSE Book(m, x, y)
    BY <1>1, <1>2, <1>3, OneLess
  <2> QED
    BY <1>1, <1>5, <1>6, <2>1 DEF TotalIs
<1>9. n \in [Orders -> ClientOrder] /\ AllQty(n) < Word
  <2>1. n \in [Orders -> ClientOrder] /\ AllQty(n) = AllQty(m) - q
    BY <1>1, <1>2, AllLess
  <2>2. AllQty(m) \in Nat /\ AllQty(m) < Word /\ Word \in Nat
    BY <1>1, PartOfBook, DepthAssumption DEF Kept, DepthAssumption
  <2> QED
    BY <1>3, <2>1, <2>2
<1>10. \A x \in Orders : n[x] # NoOrder => n[x].price \in Prices /\ n[x].qty \in Amounts
  BY <1>1 DEF Without, With
<1>11. Kept(n, r)
  BY <1>1, <1>6, <1>7, <1>8, <1>9, <1>10 DEF Kept
<1>12. CallFrom(d, r)
  <2>1. PICK T : T = Totals(d)[b]
    OBVIOUS
  <2>2. T[p] = t
    BY <1>3, <1>4, <2>1 DEF Totals
  <2>3. /\ Totals(r)[b] = With(T, p, [count |-> t.count - 1, qty |-> t.qty - q])
        /\ Totals(r)[~b] = Totals(d)[~b]
    <3>1. PICK w : w = [count |-> t.count - 1, qty |-> t.qty - q]
      OBVIOUS
    <3>2. TotalIs(d, r, b, p, w)
      BY <1>6, <3>1
    <3>3. p \in Prices /\ b \in BOOLEAN
      BY <1>3
    <3>4. Totals(r)[b] = With(Totals(d)[b], p, w) /\ Totals(r)[~b] = Totals(d)[~b]
      BY ONLY <3>2, <3>3, TotalsChange
    <3> QED
      BY <2>1, <3>1, <3>4
  <2>4. Totals(r)[b] = Promise!Left(T, p, q)
    BY <2>2, <2>3 DEF Promise!Left, With
  <2>5. Promise!Called(T, Totals(r)[b])
    BY <1>3, <2>4 DEF Promise!Called
  <2> QED
    BY <1>3, <2>1, <2>3, <2>5 DEF CallFrom
<1> QED
  BY <1>11, <1>12

(* change_qty_order() for an open order. *)
LEMMA ResizeFollows ==
  ASSUME NEW d, NEW m, Kept(m, d), NEW o \in Orders, m[o] # NoOrder,
         NEW size \in Amounts, AllQty(m) - m[o].qty + size < Word,
         NEW n, n = With(m, o, [m[o] EXCEPT !.qty = size]),
         NEW r, r = ChangeQtyOrder(d, m[o].buy, m[o].price, size - m[o].qty)
  PROVE  Kept(n, r) /\ CallFrom(d, r)
<1>1. /\ Structure(d) /\ Numbered(d) /\ Counted(d) /\ ~d.failed
      /\ m \in [Orders -> ClientOrder]
      /\ \A x \in Orders : m[x] # NoOrder => m[x].price \in Prices /\ m[x].qty \in Amounts
      /\ \A c \in BOOLEAN, x \in Nat \ {0} : LevelTotal(d, c, x) = Book(m, c, x)
  BY DEF Kept
<1>2. PICK b, p, q : b = m[o].buy /\ p = m[o].price /\ q = m[o].qty
  OBVIOUS
<1>3. /\ b \in BOOLEAN /\ p \in Prices /\ p \in Nat \ {0} /\ q \in Amounts /\ q \in Nat
      /\ size \in Nat /\ size \in Quantity
  BY <1>1, <1>2, ClientNumbers DEF ClientOrder
<1>4. PICK t : t = LevelTotal(d, b, p)
  OBVIOUS
<1>5. /\ t = Book(m, b, p) /\ t.count \in Nat \ {0} /\ q <= t.qty /\ t.qty \in Nat
      /\ t.count = 1 => t.qty = q
  BY <1>1, <1>2, <1>3, <1>4, OneOfBook
<1>6. PICK delta \in Int : delta = size - q
  BY <1>3
<1>7. PICK c : c = [m[o] EXCEPT !.qty = size]
  OBVIOUS
<1>8. /\ c \in ClientOrder /\ c.buy = b /\ c.price = p /\ c.qty = size /\ c.price # 0
      /\ n = With(m, o, c)
  BY <1>1, <1>2, <1>3, <1>7 DEF ClientOrder
<1>9. PICK k : k = Without(m, o)
  OBVIOUS
<1>10. /\ n \in [Orders -> ClientOrder] /\ AllQty(n) = AllQty(m) - m[o].qty + c.qty
       /\ \A x \in BOOLEAN, y \in Nat \ {0} :
            Book(n, x, y) = IF x = c.buy /\ y = c.price
                            THEN [count |-> Book(k, x, y).count + 1, qty |-> Book(k, x, y).qty + c.qty]
                            ELSE Book(k, x, y)
  BY ONLY <1>1, <1>8, <1>9, o \in Orders, OneChanged
<1>11. \A x \in BOOLEAN, y \in Nat \ {0} :
         Book(k, x, y) = IF x = b /\ y = p
                         THEN [count |-> Book(m, x, y).count - 1, qty |-> Book(m, x, y).qty - q]
                         ELSE Book(m, x, y)
  BY <1>1, <1>2, <1>3, <1>9, OneLess
<1>12. \A x \in BOOLEAN, y \in Nat \ {0} :
         Book(n, x, y) = IF x = b /\ y = p THEN [count |-> t.count, qty |-> t.qty + delta]
                         ELSE Book(m, x, y)
  <2>1. t.count - 1 + 1 = t.count /\ t.qty - q + size = t.qty + delta
    BY <1>3, <1>5, <1>6
  <2>2. Book(k, b, p) = [count |-> t.count - 1, qty |-> t.qty - q]
    BY <1>3, <1>5, <1>11
  <2>3. Book(n, b, p) = [count |-> Book(k, b, p).count + 1, qty |-> Book(k, b, p).qty + size]
    BY <1>3, <1>8, <1>10
  <2>4. Book(k, b, p).count + 1 = t.count /\ Book(k, b, p).qty + size = t.qty + delta
    BY <2>1, <2>2
  <2>5. Book(n, b, p) = [count |-> t.count, qty |-> t.qty + delta]
    BY <2>3, <2>4
  <2> QED
    BY <1>8, <1>10, <1>11, <2>5
<1>13. AllQty(n) < Word /\ t.qty + delta \in Quantity
  <2>1. AllQty(n) < Word
    BY <1>8, <1>10
  <2>2. Book(n, b, p).qty \in Nat /\ AllQty(n) \in Nat /\ Book(n, b, p).qty <= AllQty(n)
    BY <1>3, <1>10, PartOfBook
  <2>3. Book(n, b, p).qty = t.qty + delta
    <3>1. Book(n, b, p) = [count |-> t.count, qty |-> t.qty + delta]
      BY <1>3, <1>12
    <3> QED
      BY <3>1
  <2>4. Word \in Nat
    BY DepthAssumption DEF DepthAssumption
  <2> QED
    BY <2>1, <2>2, <2>3, <2>4 DEF Quantity
<1>14. r = ChangeQtyOrder(d, b, p, delta)
  BY <1>2, <1>6
<1>15. /\ Counted(r) /\ r.failed = d.failed
       /\ TotalIs(d, r, b, p, [count |-> t.count, qty |-> t.qty + delta])
  BY <1>1, <1>3, <1>4, <1>5, <1>13, <1>14, ChangeQtyOrderChanges
<1>16. Structure(r) /\ Numbered(r)
  BY <1>1, <1>3, <1>14, ChangeQtyOrderKeeps
<1>17. ASSUME NEW x \in BOOLEAN, NEW y \in Nat \ {0}
       PROVE  LevelTotal(r, x, y) = Book(n, x, y)
  BY <1>1, <1>12, <1>15 DEF TotalIs
<1>18. \A x \in Orders : n[x] # NoOrder => n[x].price \in Prices /\ n[x].qty \in Amounts
  BY <1>1, <1>3, <1>8 DEF With
<1>19. Kept(n, r)
  BY <1>1, <1>10, <1>13, <1>15, <1>16, <1>17, <1>18 DEF Kept
<1>20. CallFrom(d, r)
  <2>1. PICK T : T = Totals(d)[b]
    OBVIOUS
  <2>2. T[p] = t /\ t.qty + delta = t.qty - q + size
    <3>1. T[p] = t
      BY <1>3, <1>4, <2>1 DEF Totals
    <3>2. t.qty + delta = t.qty - q + size
      BY <1>3, <1>5, <1>6
    <3> QED
      BY <3>1, <3>2
  <2>3. /\ Totals(r)[b] = With(T, p, [count |-> t.count, qty |-> t.qty - q + size])
        /\ Totals(r)[~b] = Totals(d)[~b]
    <3>1. PICK w : w = [count |-> t.count, qty |-> t.qty - q + size]
      OBVIOUS
    <3>2. TotalIs(d, r, b, p, w)
      BY <1>15, <3>1, <2>2
    <3>3. p \in Prices /\ b \in BOOLEAN
      BY <1>3
    <3>4. Totals(r)[b] = With(Totals(d)[b], p, w) /\ Totals(r)[~b] = Totals(d)[~b]
      BY ONLY <3>2, <3>3, TotalsChange
    <3> QED
      BY <2>1, <3>1, <3>4
  <2>4. Totals(r)[b] = Promise!Resized(T, p, q, size)
    <3>1. t = [count |-> t.count, qty |-> t.qty]
      BY <1>5 DEF Book
    <3>2. [t EXCEPT !.qty = @ - q + size] = [count |-> t.count, qty |-> t.qty - q + size]
      BY <3>1
    <3> QED
      BY <2>2, <2>3, <3>2 DEF Promise!Resized, With
  <2>5. Promise!Called(T, Totals(r)[b])
    BY <1>3, <2>4 DEF Promise!Called
  <2> QED
    BY <1>3, <2>1, <2>3, <2>5 DEF CallFrom
<1> QED
  BY <1>19, <1>20

(* replace_order() for an open order that moves to another price. *)
LEMMA MoveFollows ==
  ASSUME NEW d, NEW m, Kept(m, d), NEW o \in Orders, m[o] # NoOrder,
         NEW other \in Prices, other # m[o].price,
         NEW size \in Amounts, AllQty(m) + size < Word,
         NEW n, n = With(m, o, [m[o] EXCEPT !.price = other, !.qty = size]),
         NEW r, r = ReplaceOrder(d, m[o].buy, m[o].price, other, m[o].qty, size)
  PROVE  Kept(n, r) /\ CallFrom(d, r)
<1>1. /\ Structure(d) /\ Numbered(d) /\ Counted(d) /\ ~d.failed
      /\ m \in [Orders -> ClientOrder]
      /\ \A x \in Orders : m[x] # NoOrder => m[x].price \in Prices /\ m[x].qty \in Amounts
      /\ \A c \in BOOLEAN, x \in Nat \ {0} : LevelTotal(d, c, x) = Book(m, c, x)
  BY DEF Kept
<1>2. PICK b, p, q : b = m[o].buy /\ p = m[o].price /\ q = m[o].qty
  OBVIOUS
<1>3. /\ b \in BOOLEAN /\ p \in Prices /\ p \in Nat \ {0} /\ q \in Amounts /\ q \in Nat
      /\ size \in Nat /\ size \in Quantity /\ other \in Nat \ {0} /\ other # p
  BY <1>1, <1>2, ClientNumbers DEF ClientOrder
<1>4. PICK t, u : t = LevelTotal(d, b, p) /\ u = LevelTotal(d, b, other)
  OBVIOUS
<1>5. /\ t = Book(m, b, p) /\ t.count \in Nat \ {0} /\ q <= t.qty /\ t.qty \in Nat
      /\ t.count = 1 => t.qty = q
  BY <1>1, <1>2, <1>3, <1>4, OneOfBook
<1>6. /\ u = Book(m, b, other) /\ u.qty \in Nat /\ u.count \in Nat
      /\ AllQty(m) \in Nat /\ u.qty + size < Word
  <2>1. /\ u = Book(m, b, other) /\ u.qty \in Nat /\ u.count \in Nat
        /\ AllQty(m) \in Nat /\ u.qty <= AllQty(m)
    BY <1>1, <1>3, <1>4, PartOfBook
  <2>2. Word \in Nat
    BY DepthAssumption DEF DepthAssumption
  <2> QED
    BY <1>3, <2>1, <2>2
<1>7. PICK c : c = [m[o] EXCEPT !.price = other, !.qty = size]
  OBVIOUS
<1>8. /\ c \in ClientOrder /\ c.buy = b /\ c.price = other /\ c.qty = size /\ c.price # 0
      /\ n = With(m, o, c)
  <2>1. m[o] \in ClientOrder
    BY <1>1
  <2> QED
    BY <1>2, <1>3, <1>7, <2>1 DEF ClientOrder
<1>9. PICK k : k = Without(m, o)
  OBVIOUS
<1>10. /\ n \in [Orders -> ClientOrder] /\ AllQty(n) = AllQty(m) - m[o].qty + c.qty
       /\ \A x \in BOOLEAN, y \in Nat \ {0} :
            Book(n, x, y) = IF x = c.buy /\ y = c.price
                            THEN [count |-> Book(k, x, y).count + 1, qty |-> Book(k, x, y).qty + c.qty]
                            ELSE Book(k, x, y)
  BY ONLY <1>1, <1>8, <1>9, o \in Orders, OneChanged
<1>11. \A x \in BOOLEAN, y \in Nat \ {0} :
         Book(k, x, y) = IF x = b /\ y = p
                         THEN [count |-> Book(m, x, y).count - 1, qty |-> Book(m, x, y).qty - q]
                         ELSE Book(m, x, y)
  BY <1>1, <1>2, <1>3, <1>9, OneLess
<1>12. PICK w, v : /\ w = [count |-> u.count + 1, qty |-> u.qty + size]
                   /\ v = [count |-> t.count - 1, qty |-> t.qty - q]
  OBVIOUS
<1>13. /\ Book(n, b, other) = w /\ Book(n, b, p) = v
       /\ \A x \in BOOLEAN, y \in Nat \ {0} :
            ~(x = b /\ (y = p \/ y = other)) => Book(n, x, y) = Book(m, x, y)
  <2>1. Book(k, b, p) = v /\ Book(k, b, other) = u
    BY <1>3, <1>5, <1>6, <1>11, <1>12
  <2>2. Book(n, b, p) = Book(k, b, p)
    BY <1>3, <1>8, <1>10
  <2>3. Book(n, b, other) = w
    BY <1>3, <1>8, <1>10, <1>12, <2>1
  <2> QED
    BY <1>8, <1>10, <1>11, <2>1, <2>2, <2>3
<1>14. r = ReplaceOrder(d, b, p, other, q, size)
  BY <1>2
<1>15. /\ Counted(r) /\ r.failed = d.failed
       /\ \E e : TotalIs(d, e, b, other, w) /\ TotalIs(e, r, b, p, v)
  BY <1>1, <1>3, <1>4, <1>5, <1>6, <1>12, <1>14, ReplaceOrderMoves
<1>16. PICK e : TotalIs(d, e, b, other, w) /\ TotalIs(e, r, b, p, v)
  BY <1>15
<1>17. Structure(r) /\ Numbered(r)
  BY <1>1, <1>3, <1>14, ReplaceOrderKeeps
<1>18. ASSUME NEW x \in BOOLEAN, NEW y \in Nat \ {0}
       PROVE  LevelTotal(r, x, y) = Book(n, x, y)
  <2>1. LevelTotal(r, x, y) = IF x = b /\ y = p THEN v ELSE LevelTotal(e, x, y)
    BY <1>16 DEF TotalIs
  <2>2. LevelTotal(e, x, y) = IF x = b /\ y = other THEN w ELSE LevelTotal(d, x, y)
    BY <1>16 DEF TotalIs
  <2>3. LevelTotal(d, x, y) = Book(m, x, y)
    BY <1>1
  <2> QED
    BY <1>13, <2>1, <2>2, <2>3
<1>19. AllQty(n) < Word
  BY <1>2, <1>3, <1>6, <1>8, <1>10, DepthAssumption DEF Kept, DepthAssumption
<1>20. \A x \in Orders : n[x] # NoOrder => n[x].price \in Prices /\ n[x].qty \in Amounts
  BY <1>1, <1>3, <1>8 DEF With
<1>21. Kept(n, r)
  BY <1>1, <1>10, <1>15, <1>17, <1>18, <1>19, <1>20 DEF Kept
<1>22. CallFrom(d, r)
  <2>1. PICK T : T = Totals(d)[b]
    OBVIOUS
  <2>2. T[p] = t /\ T[other] = u
    BY <1>3, <1>4, <2>1 DEF Totals
  <2>3. Totals(e)[b] = With(T, other, w) /\ Totals(e)[~b] = Totals(d)[~b]
    BY <1>3, <1>16, <2>1, TotalsChange
  <2>4. PICK S : S = Totals(e)[b]
    OBVIOUS
  <2>5. Totals(r)[b] = With(S, p, v) /\ Totals(r)[~b] = Totals(e)[~b]
    BY <1>3, <1>16, <2>4, TotalsChange
  <2>6. S = Promise!Entered(T, other, size)
    BY <1>12, <2>2, <2>3, <2>4 DEF Promise!Entered, With
  <2>7. S[p] = t
    <3>1. Totals(e)[b][p] = LevelTotal(e, b, p)
      BY <1>3 DEF Totals
    <3> QED
      BY <1>3, <1>4, <1>16, <2>4, <3>1 DEF TotalIs
  <2>8. Totals(r)[b] = Promise!Left(S, p, q)
    BY <1>12, <2>5, <2>7 DEF Promise!Left, With
  <2>9. Totals(r)[b] = Promise!Moved(T, p, q, other, size)
    BY <2>6, <2>8 DEF Promise!Moved
  <2>10. Promise!Called(T, Totals(r)[b])
    BY <1>3, <2>9 DEF Promise!Called
  <2> QED
    BY <1>3, <2>1, <2>3, <2>5, <2>10 DEF CallFrom
<1> QED
  BY <1>21, <1>22

(* A call that leaves the levels leaves the totals. *)
LEMMA SameLevelsFollow ==
  ASSUME NEW d, NEW m, Kept(m, d), NEW r, Structure(r), Numbered(r),
         r.level = d.level, r.excess = d.excess, r.failed = d.failed
  PROVE  Kept(m, r) /\ Totals(r) = Totals(d)
<1>1. \A b \in BOOLEAN : \A l : Holds(r, b, l) <=> Holds(d, b, l)
  BY DEF Holds
<1>2. Structure(d)
  BY DEF Kept
<1>3. \A b \in BOOLEAN, p \in Nat \ {0} : LevelTotal(r, b, p) = LevelTotal(d, b, p)
  BY <1>1, <1>2, TotalsAgree
<1>4. Counted(r)
  BY <1>1 DEF Kept, Counted
<1>5. Totals(r) = Totals(d)
  BY <1>3, ClientNumbers DEF Totals
<1> QED
  BY <1>3, <1>4, <1>5 DEF Kept

(* The array shows what there is to see of the totals. *)
LEMMA ArrayShows ==
  ASSUME NEW d, NEW m, Kept(m, d), NEW b \in BOOLEAN
  PROVE  Promise!Shows(d.level[b], Totals(d)[b], b)
<1>1. /\ Structure(d) /\ Counted(d) /\ Blanked(d.level[b])
      /\ Ordered(d.level[b], d.excess[b], b)
  BY DEF Kept, Structure
<1>2. PICK L, T : L = d.level[b] /\ T = Totals(d)[b]
  OBVIOUS
<1>3. \A p \in Prices : T[p] = LevelTotal(d, b, p) /\ p \in Nat \ {0}
  BY <1>2, ClientNumbers DEF Totals
<1>4. ASSUME NEW p \in Nat \ {0}, LevelTotal(d, b, p).count # 0
      PROVE  p \in Prices
  <2>1. Cardinality(AtPrice(m, b, p)) # 0
    BY <1>4 DEF Kept, Book
  <2>2. AtPrice(m, b, p) # {}
    BY <2>1, FS_EmptySet
  <2>3. PICK o \in Orders : m[o].price = p
    BY <2>2 DEF AtPrice
  <2>4. m[o] # NoOrder
    BY <2>3 DEF NoOrder
  <2> QED
    BY <2>3, <2>4 DEF Kept
<1>5. Promise!Blank = Blank /\ Blank.price = INVALID_LEVEL_PRICE
  BY DEF Promise!Blank, Blank, Fresh, INVALID_LEVEL_PRICE
<1>6. ASSUME NEW i \in 1..SIZE, L[i] # Blank
      PROVE  /\ L[i].price # INVALID_LEVEL_PRICE
             /\ L[i].price \in Prices /\ L[i].count > 0
             /\ T[L[i].price] = [count |-> L[i].count, qty |-> L[i].qty]
  <2>1. PICK l : l = L[i]
    OBVIOUS
  <2>2. l.price # INVALID_LEVEL_PRICE
    BY <1>1, <1>2, <1>6, <2>1 DEF Blanked
  <2>3. Holds(d, b, l)
    BY <1>2, <2>1, <2>2 DEF Holds, In
  <2>4. l.price \in Nat \ {0} /\ l.count \in Nat /\ l.count > 0
    BY <1>1, <2>3, HeldIsLevel DEF Counted
  <2>5. LevelTotal(d, b, l.price) = Sums(l)
    BY <1>1, <2>3, TotalIsHeld
  <2>6. l.price \in Prices
    BY <1>4, <2>4, <2>5 DEF Sums
  <2> QED
    BY <1>3, <2>1, <2>2, <2>4, <2>5, <2>6 DEF Sums
<1>7. ASSUME NEW i \in 1..SIZE, NEW j \in 1..SIZE, i < j, L[j] # Blank
      PROVE  L[i] # Blank /\ Better(b, L[i].price, L[j].price)
  <2>1. L[j].price # INVALID_LEVEL_PRICE
    BY <1>6, <1>7
  <2>2. L[i].price # INVALID_LEVEL_PRICE /\ Better(b, L[i].price, L[j].price)
    BY <1>1, <1>2, <1>7, <2>1 DEF Ordered
  <2> QED
    BY <1>5, <2>2
<1>8. ASSUME NEW p \in Prices, T[p].count > 0
      PROVE  \/ \E i \in 1..SIZE : L[i].price = p
             \/ \A i \in 1..SIZE : L[i] # Blank /\ Better(b, L[i].price, p)
  <2>1. LevelTotal(d, b, p).count # 0
    BY <1>3, <1>8
  <2>2. PICK l : Holds(d, b, l) /\ l.price = p
    BY <1>1, <1>3, <2>1, CountedIsHeld
  <2>3. CASE l \in d.excess[b]
    <3>1. \A i \in 1..SIZE : L[i].price # INVALID_LEVEL_PRICE /\ Better(b, L[i].price, l.price)
      BY <1>1, <1>2, <2>3 DEF Ordered
    <3> QED
      BY <1>5, <2>2, <3>1
  <2>4. CASE l \notin d.excess[b]
    <3>1. \E i \in 1..SIZE : d.level[b][i] = l
      BY <2>2, <2>4 DEF Holds, In
    <3> QED
      BY <1>2, <2>2, <3>1
  <2> QED
    BY <2>3, <2>4
<1>9. \A p, q : Promise!Better(b, p, q) <=> Better(b, p, q)
  BY DEF Promise!Better, Better
<1>10. Promise!Shows(L, T, b)
  BY <1>5, <1>6, <1>7, <1>8, <1>9 DEF Promise!Shows
<1> QED
  BY <1>2, <1>10

-----------------------------------------------------------------------------
(* The client and the object together *)

(* The inductive invariant. *)
LInv == DInv /\ Kept(order, depth)

(* What a step of the client does to the totals and to what is shown. *)
Follows ==
  /\ Kept(order, depth)'
  /\ \/ UNCHANGED depth.level /\ Totals(depth') = Totals(depth)
     \/ CallFrom(depth, depth')

(* What the open orders of the client are. *)
LEMMA OpenOrders ==
  ASSUME LInv
  PROVE  /\ order \in [Orders -> ClientOrder]
         /\ \A o \in Orders : /\ order[o].buy \in BOOLEAN /\ order[o].qty \in Nat
                              /\ order[o].qty > 0 => order[o] # NoOrder
                              /\ order[o] # NoOrder => order[o].price \in Prices
                                                       /\ order[o].qty \in Amounts
         /\ AllQty(order) \in Nat /\ AllQty(order) < Word
         /\ \A qty : Fits(qty) => AllQty(order) + qty < Word
<1>1. order \in [Orders -> ClientOrder]
  BY DEF LInv, DInv
<1>2. \A o \in Orders : order[o].buy \in BOOLEAN /\ order[o].qty \in Nat
  BY <1>1, DepthAssumption DEF ClientOrder, Quantity, DepthAssumption
<1>3. \A o \in Orders : order[o].qty > 0 => order[o] # NoOrder
  BY DEF NoOrder
<1>4. AllQty(order) \in Nat
  BY <1>1, PartOfBook
<1>5. MapThenSumSet(LAMBDA o : order[o].qty, Orders) = AllQty(order)
  BY <1>1, OrdersAddUp DEF AllQty
<1>6. \A qty : Fits(qty) => AllQty(order) + qty < Word
  BY <1>5 DEF Fits
<1> QED
  BY <1>1, <1>2, <1>3, <1>4, <1>6 DEF LInv, Kept

(* An order is added. *)
LEMMA AddStep ==
  ASSUME LInv, NEW o \in Orders, Add(o)
  PROVE  Follows
<1>1. PICK b \in BOOLEAN, p \in Prices, q \in Quantities :
         /\ ~IsOpen(o) /\ Fits(q)
         /\ depth' = AddOrder(depth, b, p, q)
         /\ order' = [order EXCEPT ![o] = [buy |-> b, price |-> p, qty |-> q]]
  BY DEF Add
<1>2. PICK d, m, r, n : d = depth /\ m = order /\ r = depth' /\ n = order'
  OBVIOUS
<1>3. Kept(m, d) /\ m[o] = NoOrder /\ AllQty(m) + q < Word
  BY <1>1, <1>2, OpenOrders DEF LInv, IsOpen
<1>4. n = With(m, o, [buy |-> b, price |-> p, qty |-> q]) /\ r = AddOrder(d, b, p, q)
  BY <1>1, <1>2 DEF With
<1>5. Kept(n, r) /\ CallFrom(d, r)
  BY <1>3, <1>4, AddFollows
<1> QED
  BY <1>2, <1>5 DEF Follows

(* An order is closed, with all its quantity. *)
LEMMA LeaveStep ==
  ASSUME LInv, NEW o \in Orders, IsOpen(o),
         depth' = CloseOrder(depth, order[o].buy, order[o].price, order[o].qty),
         order' = [order EXCEPT ![o] = NoOrder]
  PROVE  Follows
<1>1. PICK d, m, r, n : d = depth /\ m = order /\ r = depth' /\ n = order'
  OBVIOUS
<1>2. Kept(m, d) /\ m[o] # NoOrder
  BY <1>1 DEF LInv, IsOpen
<1>3. n = Without(m, o) /\ r = CloseOrder(d, m[o].buy, m[o].price, m[o].qty)
  BY <1>1 DEF With, Without
<1>4. Kept(n, r) /\ CallFrom(d, r)
  BY <1>2, <1>3, LeaveFollows
<1> QED
  BY <1>1, <1>4 DEF Follows

(* The quantity of an order changes. *)
LEMMA ResizeStep ==
  ASSUME LInv, NEW o \in Orders, IsOpen(o), NEW size \in Amounts,
         AllQty(order) - order[o].qty + size < Word,
         depth' = ChangeQtyOrder(depth, order[o].buy, order[o].price, size - order[o].qty),
         order' = [order EXCEPT ![o] = [order[o] EXCEPT !.qty = size]]
  PROVE  Follows
<1>1. PICK d, m, r, n : d = depth /\ m = order /\ r = depth' /\ n = order'
  OBVIOUS
<1>2. Kept(m, d) /\ m[o] # NoOrder /\ AllQty(m) - m[o].qty + size < Word
  BY <1>1 DEF LInv, IsOpen
<1>3. /\ n = With(m, o, [m[o] EXCEPT !.qty = size])
      /\ r = ChangeQtyOrder(d, m[o].buy, m[o].price, size - m[o].qty)
  BY <1>1 DEF With
<1>4. Kept(n, r) /\ CallFrom(d, r)
  BY <1>2, <1>3, ResizeFollows
<1> QED
  BY <1>1, <1>4 DEF Follows

(* An order is filled: it leaves, or what is left of it stays. *)
LEMMA FillStep ==
  ASSUME LInv, NEW o \in Orders, Fill(o)
  PROVE  Follows
<1>1. PICK c : c = order[o]
  OBVIOUS
<1>2. PICK qty \in 1..c.qty :
        /\ depth.ignore[c.buy] = 0
        /\ depth' = FillOrder(depth, c.buy, c.price, qty, qty = c.qty)
        /\ order' = [order EXCEPT ![o] = IF qty = c.qty THEN NoOrder ELSE [c EXCEPT !.qty = @ - qty]]
  BY <1>1 DEF Fill
<1>3. c.qty \in Nat /\ c.qty > 0 /\ IsOpen(o)
  BY <1>1, <1>2, OpenOrders DEF IsOpen
<1>4. CASE qty = c.qty
  <2>1. depth' = CloseOrder(depth, c.buy, c.price, c.qty)
    BY <1>2, <1>4 DEF FillOrder
  <2>2. order' = [order EXCEPT ![o] = NoOrder]
    BY <1>2, <1>4
  <2> QED
    BY <1>1, <1>3, <2>1, <2>2, LeaveStep
<1>5. CASE qty # c.qty
  <2>1. PICK size \in 0..c.qty : size = c.qty - qty
    BY <1>2, <1>3
  <2>2. size \in Amounts
    BY <1>1, <1>3, <2>1, OpenOrders, ClientNumbers DEF IsOpen
  <2>3. AllQty(order) - order[o].qty + size < Word
    BY <1>1, <1>3, <2>1, OpenOrders, DepthAssumption DEF DepthAssumption
  <2>4. -qty = size - c.qty
    BY <1>2, <1>3, <2>1
  <2>5. depth' = ChangeQtyOrder(depth, c.buy, c.price, size - c.qty)
    <3>1. depth' = ChangeQtyOrder(depth, c.buy, c.price, -qty)
      BY <1>2, <1>5 DEF FillOrder
    <3> QED
      BY <2>4, <3>1
  <2>6. order' = [order EXCEPT ![o] = [order[o] EXCEPT !.qty = size]]
    <3>1. order' = [order EXCEPT ![o] = [c EXCEPT !.qty = c.qty - qty]]
      BY <1>2, <1>5
    <3> QED
      BY <1>1, <2>1, <3>1
  <2> QED
    BY <1>1, <1>3, <2>2, <2>3, <2>5, <2>6, ResizeStep
<1> QED
  BY <1>4, <1>5

(* An order is replaced: it changes its size, or moves. *)
LEMMA ReplaceStep ==
  ASSUME LInv, NEW o \in Orders, Replace(o)
  PROVE  Follows
<1>1. PICK c : c = order[o]
  OBVIOUS
<1>2. PICK other \in Prices, size \in Quantities \cup {0} :
        /\ c.qty > 0 /\ Fits(size)
        /\ depth' = ReplaceOrder(depth, c.buy, c.price, other, c.qty, size)
        /\ order' = [order EXCEPT ![o] = [c EXCEPT !.price = other, !.qty = size]]
  BY <1>1 DEF Replace
<1>3. c.qty \in Nat /\ IsOpen(o) /\ c \in ClientOrder /\ c.qty \in Amounts
  BY <1>1, <1>2, OpenOrders DEF IsOpen
<1>4. size \in Amounts /\ size \in Nat
  <2>1. 0 \in 0..c.qty
    BY <1>3
  <2> QED
    BY <1>3, <2>1, ClientNumbers
<1>5. AllQty(order) + size < Word /\ AllQty(order) - c.qty + size < Word
  BY <1>2, <1>3, <1>4, OpenOrders, DepthAssumption DEF DepthAssumption
<1>6. CASE other = c.price
  <2>1. depth' = ChangeQtyOrder(depth, c.buy, c.price, size - c.qty)
    BY <1>2, <1>6 DEF ReplaceOrder
  <2>2. [c EXCEPT !.price = other, !.qty = size] = [c EXCEPT !.qty = size]
    BY <1>3, <1>6 DEF ClientOrder
  <2>3. order' = [order EXCEPT ![o] = [c EXCEPT !.qty = size]]
    BY <1>2, <2>2
  <2> QED
    BY <1>1, <1>3, <1>4, <1>5, <2>1, <2>3, ResizeStep
<1>7. CASE other # c.price
  <2>1. PICK d, m, r, n : d = depth /\ m = order /\ r = depth' /\ n = order'
    OBVIOUS
  <2>2. Kept(m, d) /\ m[o] # NoOrder /\ AllQty(m) + size < Word /\ other # m[o].price
    BY <1>1, <1>3, <1>5, <1>7, <2>1 DEF LInv, IsOpen
  <2>3. /\ n = With(m, o, [m[o] EXCEPT !.price = other, !.qty = size])
        /\ r = ReplaceOrder(d, m[o].buy, m[o].price, other, m[o].qty, size)
    BY <1>1, <1>2, <2>1 DEF With
  <2>4. Kept(n, r) /\ CallFrom(d, r)
    BY <1>4, <2>2, <2>3, MoveFollows
  <2> QED
    BY <2>1, <2>4 DEF Follows
<1> QED
  BY <1>6, <1>7

(* A step that calls nothing that changes a level. *)
LEMMA QuietStep ==
  ASSUME LInv, UNCHANGED order, Structure(depth'), Numbered(depth'),
         depth'.level = depth.level, depth'.excess = depth.excess, depth'.failed = depth.failed
  PROVE  Follows
<1>1. PICK d, m, r, n : d = depth /\ m = order /\ r = depth' /\ n = order'
  OBVIOUS
<1>2. /\ Kept(m, d) /\ Structure(r) /\ Numbered(r) /\ n = m
      /\ r.level = d.level /\ r.excess = d.excess /\ r.failed = d.failed
  BY <1>1 DEF LInv
<1>3. Kept(m, r) /\ Totals(r) = Totals(d)
  BY <1>2, SameLevelsFollow
<1> QED
  BY <1>1, <1>2, <1>3 DEF Follows

(* The fills to ignore change nothing else. *)
LEMMA IgnoreStep ==
  ASSUME LInv, Structure(depth'), Numbered(depth'), Ignore \/ FillIgnored
  PROVE  Follows
<1>1. depth \in DepthObject
  BY DEF LInv, DInv, Structure
<1>2. /\ UNCHANGED order /\ depth'.level = depth.level /\ depth'.excess = depth.excess
      /\ depth'.failed = depth.failed
  <2>1. CASE Ignore
    <3>1. PICK buy \in BOOLEAN, qty \in Quantities :
            depth' = [depth EXCEPT !.ignore[buy] = qty] /\ UNCHANGED order
      BY <2>1 DEF Ignore, IgnoreFillQty
    <3> QED
      BY <1>1, <3>1 DEF DepthObject
  <2>2. CASE FillIgnored
    <3>1. PICK buy \in BOOLEAN : \E qty \in 1..depth.ignore[buy], price \in Prices :
            /\ depth' = FillOrder(depth, buy, price, qty, qty = depth.ignore[buy])
            /\ UNCHANGED order
      BY <2>2 DEF FillIgnored
    <3>2. PICK qty \in 1..depth.ignore[buy], price \in Prices :
            /\ depth' = FillOrder(depth, buy, price, qty, qty = depth.ignore[buy])
            /\ UNCHANGED order
      BY <3>1
    <3>3. depth.ignore[buy] # 0
      BY <1>1, <3>2, DepthAssumption DEF DepthObject, Quantity, DepthAssumption
    <3>4. depth' = [depth EXCEPT !.ignore[buy] = (@ - qty) % Word]
      BY <3>2, <3>3 DEF FillOrder
    <3> QED
      BY <1>1, <3>2, <3>4 DEF DepthObject
  <2> QED
    BY <2>1, <2>2
<1> QED
  BY <1>2, QuietStep

(* Every step of the client keeps the object in step with its orders. *)
LEMMA NextFollows ==
  ASSUME LInv, [Next]_vars
  PROVE  DInv' /\ Follows
<1>1. DInv'
  BY NextDInv DEF LInv
<1>2. Structure(depth) /\ Numbered(depth) /\ Structure(depth') /\ Numbered(depth')
  BY <1>1 DEF LInv, DInv
<1>3. CASE Publish
  <2>1. depth' = Published(depth) /\ UNCHANGED order
    BY <1>3 DEF Publish
  <2>2. depth \in DepthObject
    BY <1>2 DEF Structure
  <2>3. /\ depth'.level = depth.level /\ depth'.excess = depth.excess
        /\ depth'.failed = depth.failed
    BY <2>1, <2>2 DEF Published, DepthObject
  <2> QED
    BY <1>1, <1>2, <2>1, <2>3, QuietStep
<1>4. CASE Ignore \/ FillIgnored
  BY <1>1, <1>2, <1>4, IgnoreStep
<1>5. ASSUME NEW o \in Orders, Add(o)
      PROVE  Follows
  BY <1>5, AddStep
<1>6. ASSUME NEW o \in Orders, Fill(o)
      PROVE  Follows
  BY <1>6, FillStep
<1>7. ASSUME NEW o \in Orders, Close(o)
      PROVE  Follows
  BY <1>7, LeaveStep DEF Close
<1>8. ASSUME NEW o \in Orders, Replace(o)
      PROVE  Follows
  BY <1>8, ReplaceStep
<1>9. CASE UNCHANGED vars
  BY <1>1, <1>2, <1>9, QuietStep DEF vars
<1> QED
  BY <1>1, <1>3, <1>4, <1>5, <1>6, <1>7, <1>8, <1>9 DEF Next

(* Before the first call there is nothing, in the object and of the client. *)
LEMMA NewIsKept ==
  ASSUME NEW d, d = NewDepth, NEW x, x = [o \in Orders |-> NoOrder]
  PROVE  Kept(x, d)
<1>1. Structure(d) /\ Numbered(d)
  BY NewIsSound
<1>2. /\ ~d.failed
      /\ d.level = [buy \in BOOLEAN |-> [i \in 1..SIZE |-> Blank]]
      /\ d.excess = [buy \in BOOLEAN |-> {}]
  BY DEF NewDepth
<1>3. \A b \in BOOLEAN : \A l : ~Holds(d, b, l)
  <2>1. Blank.price = INVALID_LEVEL_PRICE
    BY DEF Blank, Fresh
  <2> QED
    BY <1>2, <2>1 DEF Holds, In
<1>4. ASSUME NEW b \in BOOLEAN, NEW p \in Nat \ {0}
      PROVE  LevelTotal(d, b, p) = Book(x, b, p)
  <2>1. AtPrice(x, b, p) = {}
    BY <1>2 DEF AtPrice, NoOrder
  <2>2. Book(x, b, p) = None
    BY <2>1, FS_EmptySet, SumOfNone DEF Book, None
  <2> QED
    BY <1>3, <2>2, TotalIsNone
<1>5. AllQty(x) < Word
  <2>1. Qtys(x) = [o \in Orders |-> 0]
    BY <1>2 DEF Qtys, NoOrder
  <2> QED
    BY <2>1, SumOfZeros, DepthAssumption DEF AllQty, DepthAssumption
<1>6. x \in [Orders -> ClientOrder]
  BY DepthAssumption DEF DepthAssumption, ClientOrder, NoOrder, Quantity
<1> QED
  BY <1>1, <1>2, <1>3, <1>4, <1>5, <1>6 DEF Kept, Counted

LEMMA InitLInv == Init => LInv
BY InitDInv, NewIsKept DEF LInv, Init

LEMMA SpecLInv == Spec => []LInv
<1>1. LInv /\ [Next]_vars => LInv'
  BY NextFollows DEF LInv, Follows
<1> QED
  BY <1>1, InitLInv, PTL DEF Spec

-----------------------------------------------------------------------------
(* Theorems *)

(* No call finds its level missing, empty or with less than is to be taken *)
(* from it, and none writes to the other side, as long as the client       *)
(* passes on what it does with its orders.                                 *)
THEOREM CallsSucceed == Spec => []NoCallFails
<1>1. LInv => NoCallFails
  BY DEF LInv, Kept, NoCallFails
<1> QED
  BY <1>1, SpecLInv, PTL

(* Each price has the count and the quantity of the open orders there,     *)
(* wherever its level is and however often it moved between the array and  *)
(* the excess map.                                                         *)
THEOREM LevelsAreTheOrders == Spec => []LevelsAddUp
<1>1. LInv => LevelsAddUp
  <2> SUFFICES ASSUME LInv, NEW buy \in BOOLEAN, NEW price \in Prices
               PROVE  Total(buy, price) =
                        [count |-> Cardinality(AtPrice(order, buy, price)),
                         qty |-> MapThenSumSet(LAMBDA o : order[o].qty, AtPrice(order, buy, price))]
    BY DEF LevelsAddUp, AtPrice
  <2>1. price \in Nat \ {0}
    BY ClientNumbers
  <2>2. Total(buy, price) = Book(order, buy, price)
    BY <2>1 DEF Total, LInv, Kept
  <2>3. AtPrice(order, buy, price) \in SUBSET Orders /\ order \in [Orders -> ClientOrder]
    BY DEF AtPrice, LInv, DInv
  <2>4. MapThenSumSet(LAMBDA o : order[o].qty, AtPrice(order, buy, price))
        = Sum(Qtys(order), AtPrice(order, buy, price))
    BY <2>3, OrdersAddUp
  <2> QED
    BY <2>2, <2>4 DEF Book
<1> QED
  BY <1>1, SpecLInv, PTL

(* The array is always the best prices that have orders, the best first,   *)
(* with their totals: a Depth implements Levels.                           *)
THEOREM DepthImplementsLevels == Spec => ImplementsLevels
<1>1. Init => Promise!LevelsInit
  <2> SUFFICES ASSUME Init PROVE Promise!LevelsInit
    OBVIOUS
  <2>1. /\ depth.level = [buy \in BOOLEAN |-> [i \in 1..SIZE |-> Promise!Blank]]
        /\ depth.excess = [buy \in BOOLEAN |-> {}]
    BY DEF Init, NewDepth, Blank, Fresh, INVALID_LEVEL_PRICE, Promise!Blank
  <2>2. \A b \in BOOLEAN : \A l : ~Holds(depth, b, l)
    BY <2>1 DEF Holds, In, Promise!Blank, INVALID_LEVEL_PRICE
  <2>3. \A b \in BOOLEAN, p \in Prices : Total(b, p) = None
    BY <2>2, TotalIsNone, ClientNumbers DEF Total
  <2>4. [buy \in BOOLEAN |-> [p \in Prices |-> Total(buy, p)]] = [buy \in BOOLEAN |-> Promise!Nothing]
    BY <2>3 DEF Promise!Nothing, None
  <2> QED
    BY <2>1, <2>4 DEF Promise!LevelsInit
<1>2. ASSUME LInv, [Next]_vars
      PROVE  [Promise!LevelsNext]_(Promise!levelsVars)
  <2>1. LInv' /\ Follows
    BY <1>2, NextFollows DEF LInv, Follows
  <2>2. /\ [buy \in BOOLEAN |-> [p \in Prices |-> Total(buy, p)]] = Totals(depth)
        /\ [buy \in BOOLEAN |-> [p \in Prices |-> Total(buy, p)]]' = Totals(depth')
    BY DEF Total, Totals
  <2>3. CASE UNCHANGED depth.level /\ Totals(depth') = Totals(depth)
    BY <2>2, <2>3 DEF Promise!levelsVars
  <2>4. CASE CallFrom(depth, depth')
    <3>1. \A b \in BOOLEAN : Promise!Shows(depth'.level[b], Totals(depth')[b], b)
      BY <2>1, ArrayShows DEF LInv
    <3>2. Promise!LevelsNext
      BY <2>2, <2>4, <3>1 DEF Promise!LevelsNext, CallFrom
    <3> QED
      BY <3>2
  <2> QED
    BY <2>1, <2>3, <2>4 DEF Follows
<1> QED
  BY <1>1, <1>2, SpecLInv, PTL DEF Spec, ImplementsLevels, Promise!LevelsSpec

-----------------------------------------------------------------------------
(* What the listeners rest on, in whatever state the depth is *)

(* A level may have got orders without a price when an order that has none *)
(* was moved.  Of what Advances says this much is still true then: what    *)
(* changes takes a later number, and the first level is stamped.           *)
Marked(d, n) ==
  /\ n \in DepthObject /\ Numbered(n)
  /\ n.lastPublished = d.lastPublished
  /\ n.lastChange >= d.lastChange
  /\ d.failed => n.failed
  /\ n.failed \/ /\ n.level = d.level \/ n.lastChange > d.lastChange
                 /\ \A b \in BOOLEAN : Same(d, n, b, 1) \/ n.stamp[b][1] > d.lastChange

LEMMA MarkedTwice ==
  ASSUME NEW d \in DepthObject, NEW e \in DepthObject, NEW n, Marked(d, e), Marked(e, n)
  PROVE  Marked(d, n)
<1>1. /\ d.lastChange \in Nat /\ e.lastChange \in Nat
  BY DEF DepthObject
<1>2. n \in DepthObject
  BY DEF Marked
<1>3. /\ n.lastChange \in Nat
      /\ \A b \in BOOLEAN, i \in 1..SIZE : n.stamp[b][i] \in Nat
  BY <1>2 DEF DepthObject
<1>0. 1 \in 1..SIZE
  BY DepthAssumption DEF DepthAssumption
<1>4. n.failed \/ n.level = d.level \/ n.lastChange > d.lastChange
  BY <1>1, <1>3 DEF Marked
<1>5. ASSUME NEW b \in BOOLEAN
      PROVE  n.failed \/ Same(d, n, b, 1) \/ n.stamp[b][1] > d.lastChange
  <2>1. n.stamp[b][1] \in Nat
    BY <1>0, <1>3
  <2>2. n.failed \/ Same(e, n, b, 1) \/ n.stamp[b][1] > e.lastChange
    BY DEF Marked
  <2>3. n.failed \/ Same(d, e, b, 1) \/ e.stamp[b][1] > d.lastChange
    BY DEF Marked
  <2>4. e.lastChange >= d.lastChange
    BY DEF Marked
  <2> QED
    BY <1>1, <2>1, <2>2, <2>3, <2>4 DEF Same
<1> QED
  BY <1>1, <1>3, <1>4, <1>5 DEF Marked

(* Nothing but what listeners are not shown changes. *)
LEMMA QuietMarks ==
  ASSUME NEW d \in DepthObject, Numbered(d), NEW n \in DepthObject,
         n.level = d.level, n.stamp = d.stamp, n.lastChange = d.lastChange,
         n.lastPublished = d.lastPublished, d.failed => n.failed
  PROVE  Marked(d, n)
<1>1. d.lastChange \in Nat
  BY DEF DepthObject
<1> QED
  BY <1>1 DEF Marked, Numbered, Same

LEMMA FailedObject ==
  ASSUME NEW d \in DepthObject, NEW n, n = Failed(d)
  PROVE  /\ n \in DepthObject /\ n.failed
         /\ n.level = d.level /\ n.stamp = d.stamp /\ n.excess = d.excess
         /\ n.lastChange = d.lastChange /\ n.lastPublished = d.lastPublished
BY DEF Failed, DepthObject

LEMMA FailureMarks ==
  ASSUME NEW d \in DepthObject, Numbered(d), NEW e \in DepthObject,
         e.stamp = d.stamp, e.lastChange = d.lastChange, e.lastPublished = d.lastPublished,
         NEW n, n = Failed(e)
  PROVE  Marked(d, n)
<1>1. /\ n \in DepthObject /\ n.failed
      /\ n.stamp = e.stamp /\ n.lastChange = e.lastChange /\ n.lastPublished = e.lastPublished
  BY FailedObject
<1>2. d.lastChange \in Nat
  BY DEF DepthObject
<1> QED
  BY <1>1, <1>2 DEF Marked, Numbered

(* One level is changed in place. *)
PutOnly(d, n, loc) ==
  /\ n \in DepthObject
  /\ n.stamp = d.stamp /\ n.lastChange = d.lastChange
  /\ n.lastPublished = d.lastPublished /\ n.failed = d.failed
  /\ loc.at = 0 => n.level = d.level
  /\ \A b \in BOOLEAN, i \in 1..SIZE :
       n.level[b][i] = d.level[b][i] \/ (b = loc.buy /\ i = loc.at)

LEMMA PutObject ==
  ASSUME NEW d \in DepthObject, NEW loc, ValidLoc(d, loc), NEW l \in Level,
         NEW n, n = Put(d, loc, l)
  PROVE  PutOnly(d, n, loc)
<1>1. CASE loc.at # 0
  <2>1. loc.buy \in BOOLEAN /\ loc.at \in 1..SIZE /\ loc.at > 0
    BY <1>1 DEF ValidLoc
  <2>2. n = SetLevel(d, loc.buy, loc.at, l)
    BY <2>1 DEF Put, SetLevel
  <2>3. /\ n \in DepthObject
        /\ n.stamp = d.stamp /\ n.lastChange = d.lastChange
        /\ n.lastPublished = d.lastPublished /\ n.failed = d.failed
        /\ \A b \in BOOLEAN, i \in 1..SIZE :
             n.level[b][i] = IF b = loc.buy /\ i = loc.at THEN l ELSE d.level[b][i]
    BY <2>1, <2>2, LevelUpdate
  <2> QED
    BY <1>1, <2>3 DEF PutOnly
<1>2. CASE loc.at = 0
  <2> DEFINE X == (d.excess[loc.buy] \ {At(d, loc)}) \cup {l}
  <2>1. loc.buy \in BOOLEAN
    BY DEF ValidLoc
  <2>2. n = SetExcess(d, loc.buy, X)
    BY <1>2 DEF Put, SetExcess
  <2>3. X \in SUBSET Level
    BY <2>1, ObjectFields
  <2> HIDE DEF X
  <2>4. /\ n \in DepthObject
        /\ n.stamp = d.stamp /\ n.level = d.level /\ n.lastChange = d.lastChange
        /\ n.lastPublished = d.lastPublished /\ n.failed = d.failed
    BY <2>1, <2>2, <2>3, ExcessUpdate
  <2> QED
    BY <2>4 DEF PutOnly
<1> QED
  BY <1>1, <1>2

(* The same for a level that is not where it should be: the call fails.    *)
PutOrFailed(d, n, loc, buy) ==
  /\ n \in DepthObject
  /\ n.stamp = d.stamp /\ n.lastChange = d.lastChange /\ n.lastPublished = d.lastPublished
  /\ d.failed => n.failed
  /\ n.failed \/ loc.buy = buy
  /\ loc.at = 0 => n.level = d.level
  /\ \A b \in BOOLEAN, i \in 1..SIZE :
       n.level[b][i] = d.level[b][i] \/ (b = loc.buy /\ i = loc.at)

LEMMA PutCheckedObject ==
  ASSUME NEW d \in DepthObject, NEW buy \in BOOLEAN, NEW loc, ValidLoc(d, loc),
         NEW l \in Level, NEW e, e = Put(Checked(d, loc, buy), loc, l)
  PROVE  PutOrFailed(d, e, loc, buy)
<1>1. PICK n : n = Checked(d, loc, buy)
  OBVIOUS
<1>2. /\ n \in DepthObject
      /\ n.level = d.level /\ n.stamp = d.stamp /\ n.excess = d.excess
      /\ n.lastChange = d.lastChange /\ n.lastPublished = d.lastPublished
      /\ d.failed => n.failed
      /\ Missing(loc, buy) => n.failed
  <2>1. CASE Missing(loc, buy)
    <3>1. n = Failed(d)
      BY <1>1, <2>1 DEF Checked
    <3> QED
      BY <2>1, <3>1, FailedObject
  <2>2. CASE ~Missing(loc, buy)
    BY <1>1, <2>2 DEF Checked
  <2> QED
    BY <2>1, <2>2
<1>3. ValidLoc(n, loc)
  BY <1>2 DEF ValidLoc, ExcessHas
<1>4. PutOnly(n, e, loc)
  BY <1>1, <1>2, <1>3, PutObject
<1>5. e.failed \/ loc.buy = buy
  BY <1>2, <1>4 DEF PutOnly, Missing
<1> QED
  BY <1>2, <1>4, <1>5 DEF PutOnly, PutOrFailed

(* The level that was changed is stamped, *)
LEMMA TouchMarks ==
  ASSUME NEW d \in DepthObject, Numbered(d), NEW e, NEW buy, NEW loc, ValidLoc(d, loc),
         PutOrFailed(d, e, loc, buy), NEW n, n = Touch(e, loc)
  PROVE  Marked(d, n)
<1>1. e \in DepthObject
  BY DEF PutOrFailed
<1>2. /\ d.lastChange \in Nat /\ d.lastPublished \in Nat /\ 1 \in 1..SIZE
      /\ \A c \in BOOLEAN, j \in 1..SIZE : d.stamp[c][j] \in Nat
  BY DepthAssumption DEF DepthObject, DepthAssumption
<1>3. PICK now \in Nat : now = d.lastChange + 1
  BY <1>2
<1>4. PICK b \in BOOLEAN, i \in 0..SIZE : b = loc.buy /\ i = loc.at
  BY DEF ValidLoc
<1>5. n = IF i > 0 THEN SetStamp(SetChange(e, now), b, i, now) ELSE SetChange(e, now)
  BY <1>1, <1>3, <1>4 DEF Touch, SetChange, SetStamp, DepthObject, PutOrFailed
<1>6. /\ n \in DepthObject
      /\ n.level = e.level /\ n.lastChange = now
      /\ n.lastPublished = e.lastPublished /\ n.failed = e.failed
      /\ \A c \in BOOLEAN, j \in 1..SIZE :
           /\ c = b /\ j = i => n.stamp[c][j] = now
           /\ c # b \/ j # i => n.stamp[c][j] = e.stamp[c][j]
  BY <1>1, <1>5, NumberAndStamp
<1>7. Numbered(n)
  BY <1>2, <1>3, <1>6 DEF Numbered, PutOrFailed
<1>8. n.lastChange > d.lastChange
  BY <1>2, <1>3, <1>6
<1>9. ASSUME NEW c \in BOOLEAN
      PROVE  Same(d, n, c, 1) \/ n.stamp[c][1] > d.lastChange
  <2>1. CASE c = b /\ 1 = i
    BY <1>2, <1>3, <1>6, <2>1
  <2>2. CASE ~(c = b /\ 1 = i)
    BY <1>2, <1>4, <1>6, <2>2 DEF Same, PutOrFailed
  <2> QED
    BY <2>1, <2>2
<1> QED
  BY <1>2, <1>6, <1>7, <1>8, <1>9 DEF Marked, PutOrFailed

(* and so are all that move up when a level is erased: in the first place  *)
(* there is a new one only if it was erased.                               *)
LEMMA EraseMarks ==
  ASSUME NEW d \in DepthObject, Numbered(d), NEW e, NEW buy \in BOOLEAN,
         NEW loc, ValidLoc(d, loc), PutOrFailed(d, e, loc, buy),
         NEW n, n = Erase(e, buy, loc)
  PROVE  Marked(d, n)
<1>0. SIZE \in Nat \ {0} /\ SIZE \in 1..SIZE /\ 1 \in 1..SIZE
  BY DepthAssumption DEF DepthAssumption
<1>1. e \in DepthObject
  BY DEF PutOrFailed
<1>2. /\ e.lastChange \in Nat /\ e.lastPublished \in Nat
      /\ \A b \in BOOLEAN, i \in 1..SIZE : e.stamp[b][i] \in Nat
  BY <1>1 DEF DepthObject
<1>3. /\ e.level[buy] \in Array /\ e.excess[buy] \in SUBSET Level
      /\ e.stamp[buy] \in [1..SIZE -> Nat]
  BY <1>1, ObjectFields
<1>4. Numbered(e)
  BY DEF Numbered, PutOrFailed
<1>5. CASE loc.at = 0
  <2> DEFINE X == {x \in e.excess[buy] : x.price # loc.price}
  <2>1. n = SetExcess(e, buy, X)
    BY <1>5 DEF Erase, SetExcess
  <2>2. X \in SUBSET Level
    BY <1>3
  <2> HIDE DEF X
  <2>3. /\ n \in DepthObject
        /\ n.stamp = e.stamp /\ n.level = e.level /\ n.lastChange = e.lastChange
        /\ n.lastPublished = e.lastPublished /\ n.failed = e.failed
    BY <1>1, <2>1, <2>2, ExcessUpdate
  <2>4. n.level = d.level /\ n.stamp = d.stamp /\ n.lastChange = d.lastChange
        /\ n.lastPublished = d.lastPublished /\ (d.failed => n.failed)
    BY <1>5, <2>3 DEF PutOrFailed
  <2> QED
    BY <2>3, <2>4, QuietMarks
<1>6. CASE loc.at > 0
  <2> DEFINE old == e.level[buy]
             moved == IF loc.buy = buy THEN {i \in loc.at..(SIZE - 1) :
                           i = loc.at \/ old[i].price # INVALID_LEVEL_PRICE}
                      ELSE {}
             refill == (loc.buy = buy /\ loc.at = SIZE) \/ old[SIZE].price # INVALID_LEVEL_PRICE
             last == LastOf(e.excess[buy], buy)
             now == e.lastChange + 1
             L == Shifted(old, moved, refill, last)
             K == [i \in 1..SIZE |->
                     IF i \in moved \/ (i = SIZE /\ refill) THEN now ELSE e.stamp[buy][i]]
             F == Remaining(e.excess[buy], buy, refill)
  <2>1. n = SetSide(e, buy, L, K, F, now)
    BY <1>1, <1>6 DEF Erase, SetSide, DepthObject, Shifted, Remaining, LastOf
  <2>2. now \in Nat /\ now = e.lastChange + 1
    BY <1>2
  <2>3. K \in Stamps
    BY <1>3, <2>2 DEF Stamps
  <2>4. F \in SUBSET Level
    BY <1>3 DEF Remaining
  <2>5. last \in Level
    <3>1. BestExcess(e.excess[buy], buy) \subseteq Level
      BY <1>3 DEF BestExcess
    <3>2. Blank \in Level
      BY FreshIsLevel DEF Blank, INVALID_LEVEL_PRICE
    <3> QED
      BY <3>1, <3>2 DEF LastOf
  <2>6. \A i \in 1..SIZE : i \in moved => i + 1 \in 1..SIZE
    BY <1>0, <1>6
  <2>7. L \in Array
    <3>1. \A i \in 1..SIZE : old[i] \in Level
      BY <1>3 DEF Array
    <3> HIDE DEF old, moved, refill, last
    <3> QED
      BY <2>5, <2>6, <3>1 DEF Shifted, Array
  <2>8. loc.buy = buy => loc.at \in moved \/ (loc.at = SIZE /\ refill)
    BY <1>0, <1>6 DEF ValidLoc
  <2>9. \A i \in 1..SIZE : K[i] = now \/ (L[i] = old[i] /\ K[i] = e.stamp[buy][i])
    <3> HIDE DEF moved, refill, now, last
    <3> SUFFICES ASSUME NEW i \in 1..SIZE
                 PROVE  K[i] = now \/ (L[i] = old[i] /\ K[i] = e.stamp[buy][i])
      OBVIOUS
    <3>1. CASE i \in moved \/ (i = SIZE /\ refill)
      BY <3>1
    <3>2. CASE ~(i \in moved \/ (i = SIZE /\ refill))
      BY <3>2 DEF Shifted
    <3> QED
      BY <3>1, <3>2
  <2>10. loc.buy = buy => K[loc.at] = now
    BY <1>0, <1>6, <2>8 DEF ValidLoc
  <2> HIDE DEF old, moved, refill, last, now, L, K, F
  <2>11. PICK k : k = now
    OBVIOUS
  <2>12. k \in Nat /\ k = e.lastChange + 1 /\ n = SetSide(e, buy, L, K, F, k)
    BY <2>1, <2>2, <2>11
  <2>13. /\ n \in DepthObject
         /\ n.level[buy] = L /\ n.stamp[buy] = K /\ n.lastChange = k
         /\ n.lastPublished = e.lastPublished /\ n.failed = e.failed
         /\ \A c \in BOOLEAN : c # buy => n.level[c] = e.level[c] /\ n.stamp[c] = e.stamp[c]
    BY <1>1, <2>3, <2>4, <2>7, <2>12, SideUpdate
  <2>14. ASSUME NEW c \in BOOLEAN, NEW i \in 1..SIZE
         PROVE  /\ Same(e, n, c, i) \/ n.stamp[c][i] = k
                /\ c = buy /\ loc.buy = buy /\ i = loc.at => n.stamp[c][i] = k
    <3>1. CASE c = buy
      BY <2>9, <2>10, <2>11, <2>13, <3>1 DEF Same, old
    <3>2. CASE c # buy
      BY <2>13, <3>2 DEF Same
    <3> QED
      BY <3>1, <3>2
  <2>15. Numbered(n)
    BY <1>2, <1>4, <2>12, <2>13, <2>14 DEF Numbered, Same
  <2>16. e.lastChange = d.lastChange /\ n.lastChange > d.lastChange
    BY <1>2, <2>12, <2>13 DEF PutOrFailed
  <2>17. ASSUME NEW c \in BOOLEAN, ~n.failed
         PROVE  Same(d, n, c, 1) \/ n.stamp[c][1] > d.lastChange
    <3>1. k > d.lastChange
      BY <2>13, <2>16
    <3>2. loc.buy = buy
      BY <2>13, <2>17 DEF PutOrFailed
    <3>3. CASE c = loc.buy /\ 1 = loc.at
      BY <1>0, <2>14, <3>1, <3>2, <3>3
    <3>4. CASE ~(c = loc.buy /\ 1 = loc.at)
      <4>1. Same(e, n, c, 1) \/ n.stamp[c][1] = k
        BY <1>0, <2>14
      <4>2. e.level[c][1] = d.level[c][1] /\ e.stamp[c][1] = d.stamp[c][1]
        BY <1>0, <3>4 DEF PutOrFailed
      <4> QED
        BY <3>1, <4>1, <4>2 DEF Same
    <3> QED
      BY <3>3, <3>4
  <2>18. n.lastChange >= d.lastChange
    BY <1>2, <2>12, <2>13, <2>16
  <2>19. n.lastPublished = d.lastPublished /\ (d.failed => n.failed)
    BY <2>13 DEF PutOrFailed
  <2> QED
    BY <2>13, <2>15, <2>16, <2>17, <2>18, <2>19 DEF Marked
<1> QED
  BY <1>5, <1>6 DEF ValidLoc

LEMMA CloseOrderMarks ==
  ASSUME NEW d \in DepthObject, Numbered(d), NEW buy \in BOOLEAN,
         NEW price \in Nat, NEW qty \in Nat, NEW r, r = CloseOrder(d, buy, price, qty)
  PROVE  Marked(d, r)
<1>1. PICK loc : loc = Find(d, buy, price)
  OBVIOUS
<1>2. PICK l : l = At(d, loc)
  OBVIOUS
<1>3. loc.at > SIZE \/ ValidLoc(d, loc)
  BY <1>1, FindFinds
<1> DEFINE n == Checked(d, loc, buy)
<1>4. r = IF loc.at > SIZE \/ l.count = 0 THEN Failed(d)
          ELSE CASE l.count = 1 -> Erase(Put(n, loc, Fresh(l.price)), buy, loc)
                 [] l.count > 1 /\ l.qty >= qty ->
                      Touch(Put(n, loc, [l EXCEPT !.count = @ - 1, !.qty = @ - qty]), loc)
                 [] OTHER -> Failed(Put(n, loc, [l EXCEPT !.count = @ - 1]))
  BY <1>1, <1>2 DEF CloseOrder
<1>5. CASE loc.at > SIZE \/ l.count = 0
  <2>1. r = Failed(d)
    BY <1>4, <1>5
  <2> QED
    BY <2>1, FailureMarks
<1>6. CASE ~(loc.at > SIZE) /\ l.count # 0
  <2>1. l \in Level /\ ValidLoc(d, loc)
    BY <1>2, <1>3, <1>6, AtIsLevel
  <2>2. l.price \in Nat /\ l.count \in Nat \ {0} /\ l.qty \in Nat /\ l.qty \in Quantity
    BY <1>6, <2>1 DEF Level, Quantity
  <2>3. CASE l.count = 1
    <3>1. PICK m \in Level : m = Fresh(l.price)
      BY <2>2, FreshIsLevel
    <3>2. PICK e : e = Put(n, loc, m)
      OBVIOUS
    <3>3. r = Erase(e, buy, loc)
      BY <1>4, <1>6, <2>3, <3>1, <3>2
    <3>4. PutOrFailed(d, e, loc, buy)
      BY <2>1, <3>2, PutCheckedObject
    <3> QED
      BY <2>1, <3>3, <3>4, EraseMarks
  <2>4. CASE l.count > 1 /\ l.qty >= qty
    <3>1. [l EXCEPT !.count = @ - 1, !.qty = @ - qty] \in Level
      <4>1. l.count - 1 \in Nat
        BY <2>2
      <4>2. l.qty - qty \in Quantity
        BY <2>2, <2>4, DepthAssumption DEF Quantity, DepthAssumption
      <4> QED
        BY <2>1, <4>1, <4>2 DEF Level
    <3>2. PICK m \in Level : m = [l EXCEPT !.count = @ - 1, !.qty = @ - qty]
      BY <3>1
    <3>3. PICK e : e = Put(n, loc, m)
      OBVIOUS
    <3>4. r = Touch(e, loc)
      BY <1>4, <1>6, <2>4, <3>2, <3>3
    <3>5. PutOrFailed(d, e, loc, buy)
      BY <2>1, <3>3, PutCheckedObject
    <3> QED
      BY <2>1, <3>4, <3>5, TouchMarks
  <2>5. CASE l.count # 1 /\ ~(l.count > 1 /\ l.qty >= qty)
    <3>1. [l EXCEPT !.count = @ - 1] \in Level
      <4>1. l.count - 1 \in Nat
        BY <2>2
      <4> QED
        BY <2>1, <4>1 DEF Level
    <3>2. PICK m \in Level : m = [l EXCEPT !.count = @ - 1]
      BY <3>1
    <3>3. PICK e : e = Put(n, loc, m)
      OBVIOUS
    <3>4. r = Failed(e)
      BY <1>4, <1>6, <2>5, <3>2, <3>3
    <3>5. PutOrFailed(d, e, loc, buy)
      BY <2>1, <3>3, PutCheckedObject
    <3> QED
      BY <3>4, <3>5, FailureMarks DEF PutOrFailed
  <2> QED
    BY <2>3, <2>4, <2>5
<1> QED
  BY <1>5, <1>6

LEMMA ChangeQtyOrderMarks ==
  ASSUME NEW d \in DepthObject, Numbered(d), NEW buy \in BOOLEAN,
         NEW price \in Nat, NEW delta \in Int, NEW r, r = ChangeQtyOrder(d, buy, price, delta)
  PROVE  Marked(d, r)
<1>1. PICK loc : loc = Find(d, buy, price)
  OBVIOUS
<1>2. PICK l : l = At(d, loc)
  OBVIOUS
<1>3. PICK x : x = [l EXCEPT !.qty = (@ + delta) % Word]
  OBVIOUS
<1>4. PICK e : e = Put(Checked(d, loc, buy), loc, x)
  OBVIOUS
<1>5. loc.at > SIZE \/ ValidLoc(d, loc)
  BY <1>1, FindFinds
<1>6. r = CASE delta = 0 -> d
            [] delta # 0 /\ loc.at > SIZE -> Failed(d)
            [] OTHER -> Touch(e, loc)
  BY <1>1, <1>2, <1>3, <1>4 DEF ChangeQtyOrder
<1>7. CASE delta = 0
  <2>1. r = d
    BY <1>6, <1>7
  <2> QED
    BY <2>1, QuietMarks
<1>8. CASE delta # 0 /\ loc.at > SIZE
  <2>1. r = Failed(d)
    BY <1>6, <1>8
  <2> QED
    BY <2>1, FailureMarks
<1>9. CASE delta # 0 /\ ~(loc.at > SIZE)
  <2>1. r = Touch(e, loc)
    BY <1>6, <1>9
  <2>2. l \in Level /\ ValidLoc(d, loc)
    BY <1>2, <1>5, <1>9, AtIsLevel
  <2>3. x \in Level
    <3>1. (l.qty + delta) % Word \in Quantity
      <4>1. l.qty + delta \in Int
        BY <2>2 DEF Level, Quantity
      <4> QED
        BY <4>1, ModuloIsQuantity
    <3> QED
      BY <1>3, <2>2, <3>1 DEF Level
  <2>4. PutOrFailed(d, e, loc, buy)
    BY <1>4, <2>2, <2>3, PutCheckedObject
  <2> QED
    BY <2>1, <2>2, <2>4, TouchMarks
<1> QED
  BY <1>7, <1>8, <1>9

(* What find_level() with should_create leaves, and where it left it.      *)
Placed(d, n, buy, loc) ==
  /\ n \in DepthObject /\ ValidLoc(n, loc) /\ loc.buy = buy
  /\ n.failed = d.failed /\ n.lastPublished = d.lastPublished
  /\ n.lastChange \in {d.lastChange, d.lastChange + 1}
  /\ \A b \in BOOLEAN, i \in 1..SIZE : n.stamp[b][i] \in {d.stamp[b][i], n.lastChange}
  /\ loc.at = 0 => n.level = d.level /\ n.stamp = d.stamp /\ n.lastChange = d.lastChange
  /\ \A b \in BOOLEAN : \/ Same(d, n, b, 1)
                        \/ n.stamp[b][1] = d.lastChange + 1
                        \/ b = buy /\ loc.at = 1

(* The level is found again: no level before it has its price.             *)
LEMMA FoundInArray ==
  ASSUME NEW n \in DepthObject, NEW buy \in BOOLEAN, NEW price \in Nat, NEW at \in 1..SIZE,
         n.level[buy][at].price = price,
         \A i \in 1..SIZE : i < at => n.level[buy][i].price # price,
         NEW loc, loc = Find(n, buy, price)
  PROVE  ValidLoc(n, loc) /\ loc.buy = buy /\ loc.at = at
<1>0. SIZE \in Nat \ {0}
  BY DepthAssumption DEF DepthAssumption
<1> DEFINE found == {i \in 1..SIZE : n.level[buy][i].price = price}
<1>1. at \in found /\ found \in SUBSET Nat
  OBVIOUS
<1>2. PICK k \in 1..SIZE : k = Min(found) /\ n.level[buy][k].price = price /\ k <= at
  <2>1. Min(found) \in found /\ \A i \in found : Min(found) <= i
    <3> HIDE DEF found
    <3> QED
      BY <1>1, MinIsLeast
  <2> QED
    BY <1>1, <2>1
<1>3. k = at
  <2>1. ~(k < at)
    BY <1>2
  <2> QED
    BY <1>0, <1>2, <2>1
<1>4. loc = Loc(buy, at, price)
  BY <1>1, <1>2, <1>3 DEF Find
<1>5. loc.buy = buy /\ loc.at = at /\ loc.price = price /\ at \in 0..SIZE /\ at # 0
  BY <1>0, <1>4 DEF Loc
<1> QED
  BY <1>4, <1>5 DEF ValidLoc

LEMMA FoundInExcess ==
  ASSUME NEW n \in DepthObject, NEW buy \in BOOLEAN, NEW price \in Nat,
         \A i \in 1..SIZE : n.level[buy][i].price # price, ExcessHas(n, buy, price),
         NEW loc, loc = Find(n, buy, price)
  PROVE  ValidLoc(n, loc) /\ loc.buy = buy /\ loc.at = 0
<1>0. SIZE \in Nat \ {0}
  BY DepthAssumption DEF DepthAssumption
<1>1. {i \in 1..SIZE : n.level[buy][i].price = price} = {}
  OBVIOUS
<1>2. loc = Loc(buy, 0, price)
  BY <1>1 DEF Find
<1>3. loc.buy = buy /\ loc.at = 0 /\ loc.price = price /\ 0 \in 0..SIZE
  BY <1>0, <1>2 DEF Loc
<1> QED
  BY <1>2, <1>3 DEF ValidLoc

(* A level is inserted before the others.                                  *)
LEMMA InsertPlaces ==
  ASSUME NEW d \in DepthObject, NEW buy \in BOOLEAN, NEW price \in Nat, NEW at \in 1..SIZE,
         \A i \in 1..SIZE : i < at => d.level[buy][i].price # price,
         NEW n, n = InsertBefore(d, buy, at, price), NEW loc, loc = Find(n, buy, price)
  PROVE  Placed(d, n, buy, loc)
<1>0. SIZE \in Nat \ {0} /\ SIZE \in 1..SIZE /\ 1 \in 1..SIZE
  BY DepthAssumption DEF DepthAssumption
<1>1. d.lastChange \in Nat /\ d \in DepthObject /\ buy \in BOOLEAN
  BY DEF DepthObject
<1> DEFINE old == d.level[buy]
           E == d.excess[buy]
           now == d.lastChange + 1
           L == Inserted(old, at, price)
           K == [i \in 1..SIZE |->
                   IF i > at /\ old[i - 1].price # INVALID_LEVEL_PRICE THEN now
                   ELSE d.stamp[buy][i]]
           F == Pushed(old, E)
<1>2. n = SetSide(d, buy, L, K, F, now)
  BY DEF InsertBefore, SetSide, DepthObject, Inserted, Pushed
<1>3. now \in Nat /\ now = d.lastChange + 1
  BY <1>1
<1>4. K \in Stamps
  BY <1>3 DEF DepthObject, Stamps
<1>5. old \in Array /\ E \in SUBSET Level
  BY ObjectFields
<1>6. L \in Array
  <2>1. \A i \in 1..SIZE : old[i] \in Level
    BY <1>5 DEF Array
  <2>2. Fresh(price) \in Level
    BY FreshIsLevel
  <2>3. \A i \in 1..SIZE : i > at => i - 1 \in 1..SIZE
    BY <1>0
  <2> HIDE DEF old
  <2>4. \A i \in 1..SIZE : i < at \/ i = at \/ i > at
    BY <1>0
  <2> QED
    BY <2>1, <2>2, <2>3, <2>4 DEF Inserted, Array
<1>7. F \in SUBSET Level
  <2>1. old[SIZE] \in Level
    BY <1>0, <1>5 DEF Array
  <2> QED
    BY <1>5, <2>1 DEF Pushed, InsertExcess
<1>8. /\ \A i \in 1..SIZE : i < at => L[i] = old[i]
      /\ L[at] = Fresh(price)
  BY <1>0 DEF Inserted
<1>9. /\ \A i \in 1..SIZE : K[i] \in {d.stamp[buy][i], now}
      /\ \A i \in 1..SIZE : i < at => K[i] = d.stamp[buy][i]
  BY <1>0
<1> HIDE DEF old, E, now, L, K, F
<1>10. /\ n \in DepthObject
       /\ n.level[buy] = L /\ n.stamp[buy] = K /\ n.lastChange = now
       /\ n.lastPublished = d.lastPublished /\ n.failed = d.failed
       /\ \A c \in BOOLEAN : c # buy => n.level[c] = d.level[c] /\ n.stamp[c] = d.stamp[c]
  <2>1. PICK k : k = now
    OBVIOUS
  <2>2. k \in Nat /\ n = SetSide(d, buy, L, K, F, k)
    BY <1>2, <1>3, <2>1
  <2>3. /\ n \in DepthObject
        /\ n.level[buy] = L /\ n.stamp[buy] = K /\ n.lastChange = k
        /\ n.lastPublished = d.lastPublished /\ n.failed = d.failed
        /\ \A c \in BOOLEAN : c # buy => n.level[c] = d.level[c] /\ n.stamp[c] = d.stamp[c]
    <3>1. PICK x \in DepthObject, b \in BOOLEAN, l \in Array, s \in Stamps, e \in SUBSET Level :
            x = d /\ b = buy /\ l = L /\ s = K /\ e = F
      BY <1>4, <1>6, <1>7
    <3>2. n = SetSide(x, b, l, s, e, k)
      BY <2>2, <3>1
    <3>3. /\ n \in DepthObject
          /\ n.level[b] = l /\ n.stamp[b] = s /\ n.lastChange = k
          /\ n.lastPublished = x.lastPublished /\ n.failed = x.failed
          /\ \A c \in BOOLEAN : c # b => n.level[c] = x.level[c] /\ n.stamp[c] = x.stamp[c]
      BY ONLY <2>2, <3>1, <3>2, SideUpdate
    <3> QED
      BY <3>1, <3>3
  <2> QED
    BY <2>1, <2>3
<1>11. /\ n.level[buy][at].price = price
       /\ \A i \in 1..SIZE : i < at => n.level[buy][i].price # price
  BY <1>8, <1>10, FreshIsLevel DEF old
<1>12. ValidLoc(n, loc) /\ loc.buy = buy /\ loc.at = at
  BY <1>10, <1>11, FoundInArray
<1>13. \A b \in BOOLEAN, i \in 1..SIZE : n.stamp[b][i] \in {d.stamp[b][i], n.lastChange}
  BY <1>9, <1>10
<1>14. ASSUME NEW b \in BOOLEAN
       PROVE  Same(d, n, b, 1) \/ (b = buy /\ loc.at = 1)
  <2>1. CASE b # buy
    BY <1>10, <2>1 DEF Same
  <2>2. CASE b = buy /\ 1 < at
    BY <1>0, <1>8, <1>9, <1>10, <2>2 DEF Same, old
  <2>3. CASE b = buy /\ ~(1 < at)
    BY <1>0, <1>12, <2>3
  <2> QED
    BY <2>1, <2>2, <2>3
<1>15. loc.at # 0
  BY <1>0, <1>12
<1> QED
  BY <1>3, <1>10, <1>12, <1>13, <1>14, <1>15 DEF Placed

LEMMA WithLevelPlaces ==
  ASSUME NEW d \in DepthObject, NEW buy \in BOOLEAN, NEW price \in Nat,
         NEW n, n = WithLevel(d, buy, price), NEW loc, loc = Find(n, buy, price)
  PROVE  Placed(d, n, buy, loc)
<1>0. SIZE \in Nat \ {0} /\ SIZE \in 1..SIZE
  BY DepthAssumption DEF DepthAssumption
<1> DEFINE old == d.level[buy]
           slots == {i \in 1..SIZE : LET p == d.level[buy][i].price
                                     IN  p \in {price, INVALID_LEVEL_PRICE} \/ Better(buy, price, p)}
           at == Min(slots)
<1>1. \A i \in 1..SIZE : i \notin slots => old[i].price # price
  OBVIOUS
<1>2. slots # {} => at \in 1..SIZE /\ \A i \in 1..SIZE : i < at => old[i].price # price
  <2>0. slots \in SUBSET Nat /\ slots \in SUBSET (1..SIZE)
    BY <1>0
  <2> HIDE DEF slots, old
  <2>1. slots # {} => at \in slots /\ \A i \in slots : at <= i
    BY <2>0, MinIsLeast
  <2> HIDE DEF at
  <2> QED
    BY <1>0, <1>1, <2>0, <2>1
<1>3. n = CASE slots = {} /\ ExcessHas(d, buy, price) -> d
            [] slots = {} /\ ~ExcessHas(d, buy, price) ->
                 [d EXCEPT !.excess[buy] = @ \cup {Fresh(price)}]
            [] slots # {} /\ old[at].price = price -> d
            [] slots # {} /\ old[at].price # price /\ old[at].price = INVALID_LEVEL_PRICE ->
                 [d EXCEPT !.level[buy][at] = Fresh(price)]
            [] OTHER -> InsertBefore(d, buy, at, price)
  BY DEF WithLevel
<1>4. d.lastChange \in Nat
  BY DEF DepthObject
<1>5. slots = {} => \A i \in 1..SIZE : d.level[buy][i].price # price
  BY <1>1
<1> HIDE DEF slots, at, old
<1>6. CASE slots = {} /\ ExcessHas(d, buy, price)
  <2>1. n = d
    BY <1>3, <1>6
  <2>2. ValidLoc(n, loc) /\ loc.buy = buy /\ loc.at = 0
    BY <1>5, <1>6, <2>1, FoundInExcess
  <2> QED
    BY <2>1, <2>2 DEF Placed, Same
<1>7. CASE slots = {} /\ ~ExcessHas(d, buy, price)
  <2>1. PICK X : X = d.excess[buy] \cup {Fresh(price)}
    OBVIOUS
  <2>2. n = SetExcess(d, buy, X)
    BY <1>3, <1>7, <2>1 DEF SetExcess
  <2>3. X \in SUBSET Level /\ Fresh(price) \in X /\ Fresh(price).price = price
    BY <2>1, ObjectFields, FreshIsLevel
  <2>4. /\ n \in DepthObject
        /\ n.stamp = d.stamp /\ n.level = d.level /\ n.lastChange = d.lastChange
        /\ n.lastPublished = d.lastPublished /\ n.failed = d.failed
        /\ n.excess[buy] = X
    BY <2>2, <2>3, ExcessUpdate
  <2>5. ExcessHas(n, buy, price)
    BY <2>3, <2>4 DEF ExcessHas
  <2>6. ValidLoc(n, loc) /\ loc.buy = buy /\ loc.at = 0
    BY <1>5, <1>7, <2>4, <2>5, FoundInExcess
  <2> QED
    BY <2>4, <2>6 DEF Placed, Same
<1>8. CASE slots # {} /\ old[at].price = price
  <2>1. n = d
    BY <1>3, <1>8
  <2>2. ValidLoc(n, loc) /\ loc.buy = buy /\ loc.at = at /\ at \in 1..SIZE
    BY <1>2, <1>8, <2>1, FoundInArray DEF old
  <2>3. loc.at # 0
    BY <1>0, <2>2
  <2> QED
    BY <2>1, <2>2, <2>3 DEF Placed, Same
<1>9. CASE slots # {} /\ old[at].price # price /\ old[at].price = INVALID_LEVEL_PRICE
  <2>1. at \in 1..SIZE
    BY <1>2, <1>9
  <2>2. n = SetLevel(d, buy, at, Fresh(price))
    BY <1>3, <1>9 DEF SetLevel
  <2>3. PICK x \in Level : x = Fresh(price) /\ x.price = price
    BY FreshIsLevel
  <2>4. /\ n \in DepthObject
        /\ n.stamp = d.stamp /\ n.lastChange = d.lastChange
        /\ n.lastPublished = d.lastPublished /\ n.failed = d.failed
        /\ \A c \in BOOLEAN, j \in 1..SIZE :
             n.level[c][j] = IF c = buy /\ j = at THEN x ELSE d.level[c][j]
    <3>1. PICK a \in 1..SIZE : a = at
      BY <2>1
    <3>2. n = SetLevel(d, buy, a, x)
      BY <2>2, <2>3, <3>1
    <3> QED
      BY <3>1, <3>2, LevelUpdate
  <2>5. /\ n.level[buy][at].price = price
        /\ \A i \in 1..SIZE : i < at => n.level[buy][i].price # price
    BY <1>0, <1>2, <1>9, <2>1, <2>3, <2>4 DEF old
  <2>6. ValidLoc(n, loc) /\ loc.buy = buy /\ loc.at = at
    BY <2>1, <2>4, <2>5, FoundInArray
  <2>7. 1 \in 1..SIZE /\ loc.at # 0
    BY <1>0, <2>1, <2>6
  <2>8. \A b \in BOOLEAN : Same(d, n, b, 1) \/ (b = buy /\ loc.at = 1)
    BY <2>4, <2>6, <2>7 DEF Same
  <2> QED
    BY <2>4, <2>6, <2>7, <2>8 DEF Placed
<1>10. CASE slots # {} /\ old[at].price \notin {price, INVALID_LEVEL_PRICE}
  <2>1. at \in 1..SIZE /\ \A i \in 1..SIZE : i < at => d.level[buy][i].price # price
    BY <1>2, <1>10 DEF old
  <2>2. n = InsertBefore(d, buy, at, price)
    BY <1>3, <1>10
  <2> QED
    BY <2>1, <2>2, InsertPlaces
<1> QED
  BY <1>6, <1>7, <1>8, <1>9, <1>10

LEMMA AddOrderMarks ==
  ASSUME NEW d \in DepthObject, Numbered(d), NEW buy \in BOOLEAN,
         NEW price \in Nat, NEW qty \in Int, NEW r, r = AddOrder(d, buy, price, qty)
  PROVE  Marked(d, r)
<1>0. SIZE \in Nat \ {0} /\ 1 \in 1..SIZE
  BY DepthAssumption DEF DepthAssumption
<1>1. PICK n : n = WithLevel(d, buy, price)
  OBVIOUS
<1>2. PICK loc : loc = Find(n, buy, price)
  OBVIOUS
<1>3. PICK l : l = At(n, loc)
  OBVIOUS
<1>4. PICK x : x = [l EXCEPT !.count = @ + 1, !.qty = (@ + qty) % Word]
  OBVIOUS
<1>5. PICK added : added = Put(n, loc, x)
  OBVIOUS
<1>6. PICK now : now = d.lastChange + 1
  OBVIOUS
<1>7. r = IF loc.at = 0 THEN added
          ELSE [added EXCEPT !.lastChange = now, !.stamp[buy][loc.at] = now]
  BY <1>1, <1>2, <1>3, <1>4, <1>5, <1>6 DEF AddOrder
<1>8. Placed(d, n, buy, loc)
  BY <1>1, <1>2, WithLevelPlaces
<1>9. n \in DepthObject /\ ValidLoc(n, loc) /\ loc.buy = buy
  BY <1>8 DEF Placed
<1>10. x \in Level
  <2>1. l \in Level
    BY <1>3, <1>9, AtIsLevel
  <2>2. l.count + 1 \in Nat /\ (l.qty + qty) % Word \in Quantity
    <3>1. l.count \in Nat /\ l.qty + qty \in Int
      BY <2>1 DEF Level, Quantity
    <3> QED
      BY <3>1, ModuloIsQuantity
  <2> QED
    BY <1>4, <2>1, <2>2 DEF Level
<1>11. PutOnly(n, added, loc)
  BY <1>5, <1>9, <1>10, PutObject
<1>12. added \in DepthObject
  BY <1>11 DEF PutOnly
<1>13. /\ d.lastChange \in Nat /\ d.lastPublished \in Nat /\ now \in Nat
       /\ \A b \in BOOLEAN, i \in 1..SIZE : d.stamp[b][i] \in Nat
  <2>1. /\ d.lastChange \in Nat /\ d.lastPublished \in Nat
        /\ \A b \in BOOLEAN, i \in 1..SIZE : d.stamp[b][i] \in Nat
    BY DEF DepthObject
  <2> QED
    BY <1>6, <2>1
<1>14. CASE loc.at = 0
  <2>1. r = added
    BY <1>7, <1>14
  <2>2. /\ r.level = d.level /\ r.stamp = d.stamp /\ r.lastChange = d.lastChange
        /\ r.lastPublished = d.lastPublished /\ r.failed = d.failed
    BY <1>8, <1>11, <1>14, <2>1 DEF Placed, PutOnly
  <2> QED
    BY <1>12, <2>1, <2>2, QuietMarks
<1>15. CASE loc.at # 0
  <2>1. PICK at \in 1..SIZE : at = loc.at
    BY <1>0, <1>9, <1>15 DEF ValidLoc
  <2>2. at \in 0..SIZE /\ at > 0
    BY <1>0
  <2>3. r = IF at > 0 THEN SetStamp(SetChange(added, now), buy, at, now) ELSE SetChange(added, now)
    BY <1>7, <1>12, <1>15, <2>1, <2>2 DEF SetStamp, SetChange, DepthObject
  <2>4. /\ r \in DepthObject
        /\ r.level = added.level /\ r.lastChange = now
        /\ r.lastPublished = added.lastPublished /\ r.failed = added.failed
        /\ \A c \in BOOLEAN, j \in 1..SIZE :
             /\ c = buy /\ j = at => r.stamp[c][j] = now
             /\ c # buy \/ j # at => r.stamp[c][j] = added.stamp[c][j]
    BY <1>12, <1>13, <2>2, <2>3, NumberAndStamp
  <2>5. r.lastPublished = d.lastPublished /\ r.failed = d.failed
    BY <1>8, <1>11, <2>4 DEF Placed, PutOnly
  <2>6. r.lastChange > d.lastChange
    BY <1>6, <1>13, <2>4
  <2>7. ASSUME NEW b \in BOOLEAN, NEW i \in 1..SIZE
        PROVE  r.stamp[b][i] <= now
    <3>1. r.stamp[b][i] \in {now, n.stamp[b][i]}
      BY <1>11, <2>4 DEF PutOnly
    <3>2. n.stamp[b][i] \in {d.stamp[b][i], d.lastChange, now}
      BY <1>6, <1>8 DEF Placed
    <3>3. d.stamp[b][i] <= d.lastChange /\ d.stamp[b][i] \in Nat
      BY <1>13 DEF Numbered
    <3> QED
      BY <1>6, <1>13, <3>1, <3>2, <3>3
  <2>8. Numbered(r)
    <3>1. d.lastPublished <= now
      BY <1>6, <1>13 DEF Numbered
    <3> QED
      BY <2>4, <2>5, <2>7, <3>1 DEF Numbered
  <2>9. ASSUME NEW b \in BOOLEAN
        PROVE  Same(d, r, b, 1) \/ r.stamp[b][1] > d.lastChange
    <3>1. now > d.lastChange
      BY <1>6, <1>13
    <3>2. CASE b = buy /\ at = 1
      BY <1>0, <2>4, <3>1, <3>2
    <3>3. CASE ~(b = buy /\ at = 1)
      <4>1. r.level[b][1] = n.level[b][1] /\ r.stamp[b][1] = n.stamp[b][1]
        BY <1>0, <1>9, <1>11, <2>1, <2>4, <3>3 DEF PutOnly
      <4>2. Same(d, n, b, 1) \/ n.stamp[b][1] = now
        BY <1>6, <1>8, <2>1, <3>3 DEF Placed
      <4> QED
        BY <3>1, <4>1, <4>2 DEF Same
    <3> QED
      BY <3>2, <3>3
  <2>10. r.lastChange >= d.lastChange
    BY <1>13, <2>4, <2>6
  <2> QED
    BY <2>4, <2>5, <2>6, <2>8, <2>9, <2>10 DEF Marked
<1> QED
  BY <1>14, <1>15

LEMMA ReplaceOrderMarks ==
  ASSUME NEW d \in DepthObject, Numbered(d), NEW buy \in BOOLEAN,
         NEW price \in Nat, NEW newPrice \in Nat, NEW qty \in Nat, NEW newQty \in Int,
         NEW r, r = ReplaceOrder(d, buy, price, newPrice, qty, newQty)
  PROVE  Marked(d, r)
<1>1. CASE price = newPrice
  <2>1. PICK delta \in Int : delta = newQty - qty
    OBVIOUS
  <2>2. r = ChangeQtyOrder(d, buy, price, delta)
    BY <1>1, <2>1 DEF ReplaceOrder
  <2> QED
    BY <2>2, ChangeQtyOrderMarks
<1>2. CASE price # newPrice
  <2>1. PICK e : e = AddOrder(d, buy, newPrice, newQty)
    OBVIOUS
  <2>2. Marked(d, e)
    BY <2>1, AddOrderMarks
  <2>3. e \in DepthObject /\ Numbered(e)
    BY <2>2 DEF Marked
  <2>4. r = CloseOrder(e, buy, price, qty)
    BY <1>2, <2>1 DEF ReplaceOrder
  <2>5. Marked(e, r)
    BY <2>3, <2>4, CloseOrderMarks
  <2> QED
    BY <2>2, <2>3, <2>5, MarkedTwice
<1> QED
  BY <1>1, <1>2

LEMMA IgnoreMarks ==
  ASSUME NEW d \in DepthObject, Numbered(d), NEW I \in [BOOLEAN -> Quantity],
         NEW n, n = [d EXCEPT !.ignore = I]
  PROVE  Marked(d, n)
<1>1. /\ n \in DepthObject
      /\ n.level = d.level /\ n.stamp = d.stamp /\ n.failed = d.failed
      /\ n.lastChange = d.lastChange /\ n.lastPublished = d.lastPublished
  BY DEF DepthObject
<1> QED
  BY <1>1, QuietMarks

LEMMA FillOrderMarks ==
  ASSUME NEW d \in DepthObject, Numbered(d), NEW buy \in BOOLEAN,
         NEW price \in Nat, NEW qty \in Nat, NEW filled \in BOOLEAN,
         NEW r, r = FillOrder(d, buy, price, qty, filled)
  PROVE  Marked(d, r)
<1>1. CASE d.ignore[buy] # 0
  <2>1. (d.ignore[buy] - qty) % Word \in Quantity
    <3>1. d.ignore[buy] - qty \in Int
      BY DEF DepthObject, Quantity
    <3> QED
      BY <3>1, ModuloIsQuantity
  <2>2. PICK left \in Quantity : left = (d.ignore[buy] - qty) % Word
    BY <2>1
  <2>3. PICK I \in [BOOLEAN -> Quantity] : I = [d.ignore EXCEPT ![buy] = left]
    BY <2>2 DEF DepthObject
  <2>4. r = [d EXCEPT !.ignore = I]
    BY <1>1, <2>2, <2>3 DEF FillOrder, DepthObject
  <2> QED
    BY <2>4, IgnoreMarks
<1>2. CASE d.ignore[buy] = 0 /\ filled
  <2>1. r = CloseOrder(d, buy, price, qty)
    BY <1>2 DEF FillOrder
  <2> QED
    BY <2>1, CloseOrderMarks
<1>3. CASE d.ignore[buy] = 0 /\ ~filled
  <2>1. PICK delta \in Int : delta = -qty
    OBVIOUS
  <2>2. r = ChangeQtyOrder(d, buy, price, delta)
    BY <1>3, <2>1 DEF FillOrder
  <2> QED
    BY <2>2, ChangeQtyOrderMarks
<1> QED
  BY <1>1, <1>2, <1>3

LEMMA IgnoreFillQtyMarks ==
  ASSUME NEW d \in DepthObject, Numbered(d), NEW buy \in BOOLEAN, NEW qty \in Quantity,
         NEW r, r = IgnoreFillQty(d, buy, qty)
  PROVE  Marked(d, r)
<1>1. CASE d.ignore[buy] # 0
  <2>1. r = Failed(d)
    BY <1>1 DEF IgnoreFillQty
  <2> QED
    BY <2>1, FailureMarks
<1>2. CASE d.ignore[buy] = 0
  <2>1. PICK I \in [BOOLEAN -> Quantity] : I = [d.ignore EXCEPT ![buy] = qty]
    BY DEF DepthObject
  <2>2. r = [d EXCEPT !.ignore = I]
    BY <1>2, <2>1 DEF IgnoreFillQty, DepthObject
  <2> QED
    BY <2>2, IgnoreMarks
<1> QED
  BY <1>1, <1>2

LEMMA PublishedObject ==
  ASSUME NEW d \in DepthObject, Numbered(d), NEW n, n = Published(d)
  PROVE  /\ n \in DepthObject /\ Numbered(n)
         /\ n.level = d.level /\ n.stamp = d.stamp /\ n.failed = d.failed
         /\ n.lastChange = d.lastChange /\ n.lastPublished = d.lastChange
<1>1. /\ n \in DepthObject
      /\ n.level = d.level /\ n.stamp = d.stamp /\ n.failed = d.failed
      /\ n.lastChange = d.lastChange /\ n.lastPublished = d.lastChange
  BY DEF Published, DepthObject
<1>2. d.lastChange \in Nat
  BY DEF DepthObject
<1> QED
  BY <1>1, <1>2 DEF Numbered

LEMMA NewObject ==
  ASSUME NEW d, d = NewDepth
  PROVE  d \in DepthObject /\ Numbered(d) /\ ~d.failed /\ ~Changed(d)
<1>1. Structure(d) /\ Numbered(d)
  BY NewIsSound
<1> QED
  BY <1>1 DEF NewDepth, Changed, Structure

===============================================================================
