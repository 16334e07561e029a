---------------------------- MODULE ExchangeProofs ----------------------------
(***************************************************************************)
(* What is proved of Exchange: its types, that between requests the book   *)
(* is what the rows say, that no order is traded twice, and that the two   *)
(* sides of the table book the same quantity up to what was lost.          *)
(*                                                                         *)
(* The inductive invariant follows an order through the calls that are     *)
(* still due: what its object has on the market, taken through the calls,  *)
(* is what the book has open.                                              *)
(***************************************************************************)
EXTENDS Exchange, SumLemmas

-----------------------------------------------------------------------------
(* Whole units *)

(* A number of whole units is that many units. *)
LEMMA WholeUnits ==
  ASSUME NEW n \in Nat, NEW U \in Nat \ {0}
  PROVE  (n * U) \div U = n
OBVIOUS

(* The conversion to a quantity gives a quantity, and undoes its inverse. *)
LEMMA UnitsAreQuantities ==
  ASSUME ExchangeAssumption
  PROVE  \A n \in Nat : Units(n) \in Nat /\ n * Unit \in Nat /\ Units(n * Unit) = n
BY WholeUnits DEF ExchangeAssumption, Units

-----------------------------------------------------------------------------
(* The calls that are due *)

(* The quantity n of o on the market, after the call c. *)
AfterCall(n, c, o) ==
  IF c.order # o THEN n
  ELSE IF c.kind = "accept" THEN c.qty
  ELSE IF c.kind = "cancel" THEN 0 ELSE n - c.qty

(* The calls q take the quantity of o on the market from a to b, and never *)
(* below zero.                                                             *)
Owes(o, q, a, b) ==
  \E f \in [0..Len(q) -> Nat] :
    /\ f[0] = a /\ f[Len(q)] = b
    /\ \A k \in 1..Len(q) : f[k] = AfterCall(f[k - 1], q[k], o)

(* Without calls nothing changes. *)
LEMMA LedgerEmpty ==
  ASSUME NEW o, NEW a \in Nat, NEW b
  PROVE  Owes(o, <<>>, a, b) <=> a = b
<1>1. Owes(o, <<>>, a, b) => a = b
  BY DEF Owes
<1>2. Owes(o, <<>>, a, a)
  <2> DEFINE f == [k \in 0..Len(<<>>) |-> a]
  <2>1. f \in [0..Len(<<>>) -> Nat] /\ f[0] = a /\ f[Len(<<>>)] = a
    OBVIOUS
  <2>2. \A k \in 1..Len(<<>>) : f[k] = AfterCall(f[k - 1], <<>>[k], o)
    OBVIOUS
  <2> HIDE DEF f
  <2> QED
    BY <2>1, <2>2 DEF Owes
<1> QED
  BY <1>1, <1>2

(* One more call. *)
LEMMA LedgerAppend ==
  ASSUME NEW o, NEW q \in Seq(Call), NEW a, NEW b, NEW c \in Call,
         Owes(o, q, a, b), AfterCall(b, c, o) \in Nat
  PROVE  Owes(o, Append(q, c), a, AfterCall(b, c, o))
<1> DEFINE n == Len(q)
           r == Append(q, c)
           d == AfterCall(b, c, o)
<1>1. PICK f \in [0..n -> Nat] :
        /\ f[0] = a /\ f[n] = b
        /\ \A k \in 1..n : f[k] = AfterCall(f[k - 1], q[k], o)
  BY DEF Owes
<1>2. n \in Nat /\ Len(r) = n + 1 /\ r[n + 1] = c /\ \A k \in 1..n : r[k] = q[k]
  OBVIOUS
<1> DEFINE g == [k \in 0..(n + 1) |-> IF k = n + 1 THEN d ELSE f[k]]
<1> HIDE DEF r, n, d
<1>3. g \in [0..(n + 1) -> Nat] /\ g[0] = a /\ g[n + 1] = d
  BY <1>1, <1>2 DEF d
<1>4. ASSUME NEW k \in 1..(n + 1)
      PROVE  g[k] = AfterCall(g[k - 1], r[k], o)
  <2>1. CASE k = n + 1
    <3>1. g[k] = d /\ g[k - 1] = b /\ r[k] = c
      BY <1>1, <1>2, <2>1
    <3> QED
      BY <3>1 DEF d
  <2>2. CASE k # n + 1
    <3>1. k \in 1..n /\ g[k] = f[k] /\ g[k - 1] = f[k - 1] /\ r[k] = q[k]
      BY <1>1, <1>2, <2>2
    <3> QED
      BY <1>1, <3>1
  <2> QED
    BY <2>1, <2>2
<1> HIDE DEF g
<1>5. Owes(o, r, a, d)
  BY <1>2, <1>3, <1>4 DEF Owes
<1> QED
  BY <1>5 DEF r, d

(* One call less. *)
LEMMA LedgerTail ==
  ASSUME NEW o, NEW q \in Seq(Call), q # <<>>, NEW a, NEW b, Owes(o, q, a, b)
  PROVE  /\ a \in Nat /\ AfterCall(a, Head(q), o) \in Nat
         /\ Owes(o, Tail(q), AfterCall(a, Head(q), o), b)
<1> DEFINE n == Len(q)
           r == Tail(q)
<1>1. PICK f \in [0..n -> Nat] :
        /\ f[0] = a /\ f[n] = b
        /\ \A k \in 1..n : f[k] = AfterCall(f[k - 1], q[k], o)
  BY DEF Owes
<1>2. n \in Nat /\ n >= 1 /\ Len(r) = n - 1 /\ Head(q) = q[1]
      /\ \A k \in 1..(n - 1) : r[k] = q[k + 1]
  OBVIOUS
<1> DEFINE g == [k \in 0..(n - 1) |-> f[k + 1]]
<1> HIDE DEF r, n
<1>3. g \in [0..(n - 1) -> Nat] /\ g[0] = f[1] /\ g[n - 1] = b
  BY <1>1, <1>2
<1>4. f[1] = AfterCall(a, Head(q), o) /\ f[1] \in Nat /\ a \in Nat
  <2>1. 1 \in 1..n /\ 1 - 1 = 0
    BY <1>2
  <2>2. f[1] = AfterCall(f[0], q[1], o)
    BY <1>1, <2>1
  <2> QED
    BY <1>1, <1>2, <2>2
<1>5. ASSUME NEW k \in 1..(n - 1)
      PROVE  g[k] = AfterCall(g[k - 1], r[k], o)
  <2>1. k + 1 \in 1..n /\ g[k] = f[k + 1] /\ g[k - 1] = f[k] /\ (k + 1) - 1 = k
    BY <1>2
  <2>2. f[k + 1] = AfterCall(f[(k + 1) - 1], q[k + 1], o)
    BY <1>1, <2>1
  <2> QED
    BY <1>2, <2>1, <2>2
<1> HIDE DEF g
<1>6. Owes(o, r, f[1], b)
  BY <1>2, <1>3, <1>5 DEF Owes
<1> QED
  BY <1>4, <1>6 DEF r

-----------------------------------------------------------------------------
(* The members of a set by rank *)

(* How many members of S are not greater than k. *)
Rank(S, k) == Cardinality({j \in S : j <= k})

(* Ranks differ, and lie between 1 and the number of members. *)
LEMMA RanksDiffer ==
  ASSUME NEW S \in SUBSET Nat, IsFiniteSet(S)
  PROVE  /\ \A k \in S : Rank(S, k) \in 1..Cardinality(S)
         /\ \A j, k \in S : j < k => Rank(S, j) # Rank(S, k)
<1> DEFINE Upto(k) == {j \in S : j <= k}
<1>0. Cardinality(S) \in Nat
  BY FS_CardinalityType
<1>1. ASSUME NEW k \in S
      PROVE  /\ IsFiniteSet(Upto(k)) /\ Cardinality(Upto(k)) \in Nat
             /\ Cardinality(Upto(k)) <= Cardinality(S) /\ Cardinality(Upto(k)) # 0
  <2>1. IsFiniteSet(Upto(k)) /\ Cardinality(Upto(k)) <= Cardinality(S)
    BY FS_Subset
  <2>2. k \in Upto(k)
    OBVIOUS
  <2>3. Cardinality(Upto(k)) \in Nat /\ Cardinality(Upto(k)) # 0
    BY <2>1, <2>2, FS_CardinalityType, FS_EmptySet
  <2> QED
    BY <2>1, <2>3
<1>2. ASSUME NEW j \in S, NEW k \in S, j < k
      PROVE  Cardinality(Upto(j)) # Cardinality(Upto(k))
  <2>1. Upto(j) \in SUBSET Upto(k) /\ k \in Upto(k) /\ k \notin Upto(j)
    <3>1. j \in Nat /\ k \in Nat /\ \A i \in S : i \in Nat
      OBVIOUS
    <3>2. \A i \in S : i <= j => i <= k
      BY <1>2, <3>1
    <3>3. ~(k <= j) /\ k <= k
      BY <1>2, <3>1
    <3> QED
      BY <3>2, <3>3
  <2>2. IsFiniteSet(Upto(k))
    BY <1>1
  <2> HIDE DEF Upto
  <2> QED
    BY <2>1, <2>2, FS_Subset
<1>3. \A k \in S : Cardinality(Upto(k)) \in 1..Cardinality(S)
  BY <1>0, <1>1
<1> QED
  BY <1>2, <1>3 DEF Rank

(* There is a member of every rank. *)
LEMMA NthIsMember ==
  ASSUME NEW S \in SUBSET Nat, IsFiniteSet(S), NEW n \in 1..Cardinality(S)
  PROVE  Nth(S, n) \in S /\ Rank(S, Nth(S, n)) = n
<1> DEFINE m == Cardinality(S)
           f == [k \in S |-> Rank(S, k)]
<1>0. m \in Nat
  BY FS_CardinalityType
<1>1. f \in [S -> 1..m] /\ \A k \in S : f[k] = Rank(S, k)
  BY RanksDiffer
<1>2. ASSUME NEW j \in S, NEW k \in S, f[j] = f[k]
      PROVE  j = k
  <2>1. ~(j < k) /\ ~(k < j)
    BY <1>1, <1>2, RanksDiffer
  <2>2. j \in Nat /\ k \in Nat
    OBVIOUS
  <2> QED
    BY <2>1, <2>2
<1> HIDE DEF f
<1>3. f \in Injection(S, 1..m)
  BY <1>1, <1>2 DEF Injection, IsInjective
<1>4. IsFiniteSet(1..m) /\ Cardinality(1..m) = m
  <2>1. IsFiniteSet(1..m) /\ Cardinality(1..m) = IF 1 > m THEN 0 ELSE m - 1 + 1
    BY <1>0, FS_Interval
  <2> QED
    BY <1>0, <2>1
<1>5. f \in Surjection(S, 1..m)
  BY <1>3, <1>4, FS_Injection
<1>6. \E k \in S : Rank(S, k) = n
  BY <1>1, <1>5 DEF Surjection
<1>7. \E k \in S : Cardinality({j \in S : j <= k}) = n
  BY <1>6 DEF Rank
<1> QED
  BY <1>7 DEF Nth, Rank

-----------------------------------------------------------------------------
(* The inductive invariant *)

(* The process has the order: in its table, or about to be.  *)
Has(o) == o \in known \/ o = adding

(* The order was not told yet that it was accepted. *)
AcceptDue(o) == calls # <<>> /\ Head(calls).kind = "accept" /\ Head(calls).order = o

(* What the process has before, while and after an order is added. *)
Phases ==
  /\ matching # NoId =>
       matching = adding /\ adding \in Ids /\ matching \notin Resting /\ open[matching] > 0
  /\ server = "down" =>
       adding = NoId /\ matching = NoId /\ calls = <<>> /\ known = {} /\ queue = <<>>
  /\ adding \notin known

RowsPlaced ==
  /\ \A j, k \in DOMAIN placed : placed[j] = placed[k] => j = k
  /\ \A k \in DOMAIN placed : row[placed[k]].status # "none"

RowsExist == \A o \in Ids : Has(o) => row[o].status # "none"

(* The rows that are still to be loaded are as they were read. *)
RowStands(r) ==
  ~Has(r.order) /\ r.status = row[r.order].status /\ r.amount = row[r.order].amount

ResultStands ==
  /\ server # "loading" => result = <<>>
  /\ \A j, k \in DOMAIN result : result[j].order = result[k].order => j = k
  /\ \A k \in DOMAIN result : RowStands(result[k])

(* What is open rests, once, or is being matched. *)
QueueStands ==
  /\ \A k \in DOMAIN queue : Has(queue[k]) /\ open[queue[k]] > 0
  /\ \A j, k \in DOMAIN queue : queue[j] = queue[k] => j = k
  /\ \A o \in Ids : open[o] > 0 => o \in Resting \/ o = matching

(* An order is accepted with what its row or its message asked for. *)
AcceptStands(o, qty) ==
  /\ o = adding /\ o \notin behind /\ qty > 0 /\ qty <= Units(Amount[o])
  /\ IF server = "loading" THEN Live(o) /\ Units(row[o].amount) = qty
     ELSE qty = Units(Amount[o])

CallStands(k) ==
  /\ Has(calls[k].order)
  /\ calls[k].kind = "accept" => k = 1 /\ AcceptStands(calls[k].order, calls[k].qty)
  /\ calls[k].kind = "fill" => calls[k].qty > 0
  /\ calls[k].kind = "cancel" => k = 1 /\ object[calls[k].order].onMarket > 0

CallsStand == \A k \in DOMAIN calls : CallStands(k)

(* The two fills of a trade. *)
Opposite(c, d) ==
  /\ c.kind = "fill" /\ d.kind = "fill" /\ c.qty = d.qty
  /\ c.order \in Buys <=> d.order \notin Buys

(* Counted from the end, the calls are the trades. *)
Paired ==
  \A k \in 2..Len(calls) : (Len(calls) - k) % 2 = 0 => Opposite(calls[k - 1], calls[k])

Within ==
  /\ \A o \in Ids : /\ Units(row[o].amount) <= Units(Amount[o])
                    /\ object[o].onMarket <= Units(Amount[o])
  /\ \A o \in behind : Has(o)

(* The calls that are due take what the objects have to what the book has. *)
Balanced == \A o \in Ids : Owes(o, calls, object[o].onMarket, open[o])

RowSays(o) ==
  IF object[o].onMarket = 0 THEN ~Live(o)
  ELSE Live(o) /\ Units(row[o].amount) = object[o].onMarket

RowsAgree == \A o \in Ids : Has(o) /\ o \notin behind /\ ~AcceptDue(o) => RowSays(o)

(* What was traded and what can still be traded is within what was ordered. *)
TradesWithin(o) ==
  /\ traded[o] <= Units(Amount[o])
  /\ o \notin behind /\ row[o].status \notin Final =>
       traded[o] + Units(row[o].amount) <= Units(Amount[o])
  /\ Has(o) /\ ~AcceptDue(o) => traded[o] + object[o].onMarket <= Units(Amount[o])

TradedOnce == \A o \in Ids \ excused : TradesWithin(o)

-----------------------------------------------------------------------------
(* The two sides *)

Signed(o, n) == IF o \in Buys THEN n ELSE -n

(* What is still to be booked of the trade of which one order was told. *)
Due ==
  IF Len(calls) % 2 = 1 /\ Head(calls).kind = "fill"
  THEN Signed(Head(calls).order, Head(calls).qty) ELSE 0

(* What is or may come to be booked of an order whose row is behind: the   *)
(* next update writes what the object says, or cancels a completed row.    *)
Choices(o) ==
  {Booked(o)} \cup
  IF o \in behind /\ object[o].onMarket > 0
  THEN {Units(Amount[o]) - object[o].onMarket, Units(Amount[o]) - Units(row[o].amount)}
  ELSE {}

SignedSum(h) == Sum([o \in Ids |-> Signed(o, h[o])], Ids)

(* Whatever comes to be booked, the sides differ by no more than was lost. *)
SidesInv ==
  \A h \in [Ids -> Int] :
    (\A o \in Ids : h[o] \in Choices(o)) => SignedSum(h) + Due \in -lost..lost

IInv ==
  /\ ExchangeTypeOK /\ Phases /\ RowsPlaced /\ RowsExist /\ ResultStands /\ QueueStands
  /\ CallsStand /\ Paired /\ Within /\ Balanced /\ RowsAgree /\ TradedOnce /\ SidesInv

(* What is booked and what may come to be booked are numbers. *)
LEMMA ChoicesType ==
  ASSUME ExchangeAssumption, ExchangeTypeOK, NEW o \in Ids
  PROVE  /\ Booked(o) \in Int /\ Choices(o) \subseteq Int
         /\ Units(Amount[o]) \in Nat /\ Units(row[o].amount) \in Nat
         /\ object[o].onMarket \in Nat
<1>1. Amount[o] \in Nat /\ row[o].amount \in Nat /\ object[o].onMarket \in Nat
  BY DEF ExchangeAssumption, ExchangeTypeOK
<1>2. Units(Amount[o]) \in Nat /\ Units(row[o].amount) \in Nat
  BY <1>1, UnitsAreQuantities
<1>3. Booked(o) \in Int
  BY <1>2 DEF Booked
<1>4. Choices(o) \subseteq Int
  BY <1>1, <1>2, <1>3 DEF Choices
<1> QED
  BY <1>1, <1>2, <1>3, <1>4

(* The signed sum after the value of one order changed. *)
LEMMA SignedSumAfterChange ==
  ASSUME ExchangeAssumption, NEW h \in [Ids -> Int], NEW e \in [Ids -> Int], NEW x \in Ids,
         \A y \in Ids \ {x} : e[y] = h[y]
  PROVE  /\ SignedSum(h) \in Int
         /\ SignedSum(e) = SignedSum(h) + Signed(x, e[x] - h[x])
<1> DEFINE f == [o \in Ids |-> Signed(o, h[o])]
           g == [o \in Ids |-> Signed(o, e[o])]
<1>1. f \in [Ids -> Int] /\ g \in [Ids -> Int]
  BY DEF Signed
<1>2. \A y \in Ids \ {x} : g[y] = f[y]
  OBVIOUS
<1>3. IsFiniteSet(Ids)
  BY DEF ExchangeAssumption
<1>4. g[x] - f[x] = Signed(x, e[x] - h[x]) /\ g[x] \in Int /\ f[x] \in Int
  BY DEF Signed
<1>5. SignedSum(h) = Sum(f, Ids) /\ SignedSum(e) = Sum(g, Ids)
  BY DEF SignedSum
<1> HIDE DEF f, g
<1>6. Sum(g, Ids) = Sum(f, Ids) - f[x] + g[x]
  BY <1>1, <1>2, <1>3, SumAfterChange
<1>7. Sum(f, Ids) \in Int
  BY <1>1, <1>3, SumType
<1>8. Sum(g, Ids) = Sum(f, Ids) + (g[x] - f[x])
  BY <1>4, <1>6, <1>7
<1> QED
  BY <1>4, <1>5, <1>7, <1>8

(* A quantity counts for as much on each side. *)
LEMMA SignedType ==
  ASSUME NEW o, NEW n \in Int
  PROVE  /\ Signed(o, n) \in Int
         /\ n = 0 => Signed(o, n) = 0
         /\ n >= 0 => Signed(o, n) \in -n..n /\ -Signed(o, n) \in -n..n
BY DEF Signed

(* What a step of the order x may do to what is booked. *)
SidesMove(x) ==
  /\ \A y \in Ids \ {x} : Choices(y)' \subseteq Choices(y)
  /\ lost \in Nat /\ lost' \in Nat /\ Due \in Int /\ Due' \in Int
  /\ \A v \in Choices(x)' : \E w \in Choices(x) :
       Signed(x, v - w) + Due' - Due \in -(lost' - lost)..(lost' - lost)

(* A step that moves the sum by no more than what it loses. *)
LEMMA SidesStep ==
  ASSUME ExchangeAssumption, ExchangeTypeOK, SidesInv, NEW x \in Ids, SidesMove(x)
  PROVE  SidesInv'
<1> SUFFICES ASSUME NEW h \in [Ids -> Int], \A o \in Ids : h[o] \in Choices(o)'
             PROVE  SignedSum(h) + Due' \in -(lost')..lost'
  BY DEF SidesInv
<1>1. PICK w \in Choices(x) :
        Signed(x, h[x] - w) + Due' - Due \in -(lost' - lost)..(lost' - lost)
  BY DEF SidesMove
<1>2. w \in Int /\ h[x] \in Int
  BY <1>1, ChoicesType
<1> DEFINE e == [h EXCEPT ![x] = w]
<1>3. e \in [Ids -> Int] /\ e[x] = w /\ \A y \in Ids \ {x} : h[y] = e[y]
  BY <1>2
<1> HIDE DEF e
<1>4. \A o \in Ids : e[o] \in Choices(o)
  BY <1>1, <1>3 DEF SidesMove
<1>5. SignedSum(e) + Due \in -lost..lost
  BY <1>3, <1>4 DEF SidesInv
<1>6. SignedSum(e) \in Int /\ SignedSum(h) = SignedSum(e) + Signed(x, h[x] - w)
  BY <1>3, SignedSumAfterChange
<1>7. Signed(x, h[x] - w) \in Int
  BY <1>2 DEF Signed
<1>8. Due \in Int /\ Due' \in Int /\ lost \in Nat /\ lost' \in Nat
  BY DEF SidesMove
<1> QED
  BY <1>1, <1>5, <1>6, <1>7, <1>8

(* A step that moves no order. *)
LEMMA SidesKept ==
  ASSUME ExchangeAssumption, ExchangeTypeOK, SidesInv,
         \A o \in Ids : Choices(o)' \subseteq Choices(o),
         lost' \in Nat, Due \in Int, Due' \in Int,
         Due' - Due \in -(lost' - lost)..(lost' - lost)
  PROVE  SidesInv'
<1> SUFFICES ASSUME NEW h \in [Ids -> Int], \A o \in Ids : h[o] \in Choices(o)'
             PROVE  SignedSum(h) + Due' \in -(lost')..lost'
  BY DEF SidesInv
<1>1. \A o \in Ids : h[o] \in Choices(o)
  OBVIOUS
<1>2. SignedSum(h) + Due \in -lost..lost
  BY <1>1 DEF SidesInv
<1>3. SignedSum(h) \in Int
  <2> DEFINE f == [o \in Ids |-> Signed(o, h[o])]
  <2>1. f \in [Ids -> Int] /\ IsFiniteSet(Ids)
    BY DEF Signed, ExchangeAssumption
  <2> HIDE DEF f
  <2>2. Sum(f, Ids) \in Int
    BY <2>1, SumType
  <2> QED
    BY <2>2 DEF SignedSum, f
<1>4. lost \in Nat
  BY DEF ExchangeTypeOK
<1>5. \A s, d, e \in Int : \A l, m \in Nat :
        s + d \in -l..l /\ e - d \in -(m - l)..(m - l) => s + e \in -m..m
  OBVIOUS
<1> QED
  BY <1>2, <1>3, <1>4, <1>5

(* What is due is a number, and as much as the trade that is half told. *)
LEMMA DueType ==
  ASSUME ExchangeTypeOK
  PROVE  /\ Due \in Int /\ HalfTold \in Nat
         /\ Due \in -HalfTold..HalfTold
<1>0. calls \in Seq(Call)
  BY DEF ExchangeTypeOK
<1>1. CASE Len(calls) % 2 = 1 /\ Head(calls).kind = "fill"
  <2>1. Len(calls) # 0
    BY <1>1
  <2>2. calls # <<>>
    BY <2>1
  <2>3. Head(calls) \in Call
    BY <1>0, <2>2
  <2>4. Head(calls).qty \in Nat
    BY <2>3 DEF Call
  <2>5. HalfTold = Head(calls).qty /\ Due = Signed(Head(calls).order, Head(calls).qty)
    BY <1>1 DEF HalfTold, Due
  <2> QED
    BY <2>4, <2>5 DEF Signed
<1>2. CASE ~(Len(calls) % 2 = 1 /\ Head(calls).kind = "fill")
  <2>1. HalfTold = 0 /\ Due = 0
    BY <1>2 DEF HalfTold, Due
  <2> QED
    BY <2>1
<1> QED
  BY <1>1, <1>2

(* What the sequences hold. *)
LEMMA MembersTypes ==
  ASSUME ExchangeTypeOK
  PROVE  /\ DOMAIN queue = 1..Len(queue) /\ Len(queue) \in Nat
         /\ \A k \in DOMAIN queue : queue[k] \in Ids
         /\ DOMAIN result = 1..Len(result) /\ Len(result) \in Nat
         /\ \A k \in DOMAIN result :
              /\ result[k].order \in Ids /\ result[k].amount \in Nat
              /\ result[k].status \in {"Pending", "Processing"}
         /\ DOMAIN calls = 1..Len(calls) /\ Len(calls) \in Nat
         /\ \A k \in DOMAIN calls :
              /\ calls[k].order \in Ids /\ calls[k].qty \in Nat
              /\ calls[k].kind \in {"accept", "fill", "cancel"}
<1> DEFINE R == [order : Ids, status : {"Pending", "Processing"}, amount : Nat]
<1>1. queue \in Seq(Ids) /\ result \in Seq(R) /\ calls \in Seq(Call)
  BY DEF ExchangeTypeOK
<1>2. \A r \in R : r.order \in Ids /\ r.amount \in Nat /\ r.status \in {"Pending", "Processing"}
  OBVIOUS
<1>3. \A c \in Call : c.order \in Ids /\ c.qty \in Nat /\ c.kind \in {"accept", "fill", "cancel"}
  BY DEF Call
<1> HIDE DEF R
<1>4. /\ DOMAIN queue = 1..Len(queue) /\ Len(queue) \in Nat
      /\ \A k \in DOMAIN queue : queue[k] \in Ids
  BY <1>1
<1>5. /\ DOMAIN result = 1..Len(result) /\ Len(result) \in Nat
      /\ \A k \in DOMAIN result : result[k] \in R
  BY <1>1
<1>6. /\ DOMAIN calls = 1..Len(calls) /\ Len(calls) \in Nat
      /\ \A k \in DOMAIN calls : calls[k] \in Call
  BY <1>1
<1> QED
  BY <1>2, <1>3, <1>4, <1>5, <1>6

-----------------------------------------------------------------------------
(* Every action keeps the invariant *)

(* No process runs, no row was inserted. *)
LEMMA InitIInv ==
  ASSUME ExchangeAssumption, Init
  PROVE  IInv
<1>1. ExchangeTypeOK
  <2>1. row \in [Ids -> [status : {"none", "Pending", "Processing"} \cup Final, amount : Nat]]
    BY DEF Init, ExchangeAssumption
  <2>2. object \in [Ids -> [status : {"", "Pending", "Processing"}, state : State, onMarket : Nat]]
    BY DEF Init, FreshObject, State
  <2>3. /\ placed \in Seq(Ids) /\ queue \in Seq(Ids) /\ calls \in Seq(Call)
        /\ result \in Seq([order : Ids, status : {"Pending", "Processing"}, amount : Nat])
    BY DEF Init
  <2>4. open \in [Ids -> Nat] /\ traded \in [Ids -> Nat]
    BY DEF Init
  <2>5. {adding, matching} \subseteq Ids \cup {NoId}
    BY DEF Init
  <2>6. /\ server \in {"down", "loading", "serving"}
        /\ known \in SUBSET Ids /\ behind \in SUBSET Ids /\ excused \in SUBSET Ids
        /\ requests \in Nat /\ crashes \in Nat /\ failures \in Nat /\ lost \in Nat
    BY DEF Init
  <2> QED
    BY <2>1, <2>2, <2>3, <2>4, <2>5, <2>6 DEF ExchangeTypeOK
<1>2. Phases /\ RowsPlaced
  BY DEF Init, Phases, RowsPlaced
<1>3. RowsExist /\ ResultStands /\ QueueStands
  BY DEF Init, RowsExist, Has, ResultStands, QueueStands, ExchangeAssumption
<1>4. CallsStand /\ Paired
  <2>1. calls = <<>> /\ Len(calls) = 0
    BY DEF Init
  <2> QED
    BY <2>1 DEF CallsStand, Paired
<1>5. \A o \in Ids : /\ Units(Amount[o]) \in Nat /\ row[o].amount = Amount[o]
                     /\ object[o].onMarket = 0 /\ ~Has(o) /\ traded[o] = 0 /\ open[o] = 0
  <2>1. \A o \in Ids : Units(Amount[o]) \in Nat
    BY <1>1, ChoicesType
  <2> QED
    BY <2>1 DEF Init, FreshObject, Has, ExchangeAssumption
<1>6. Within /\ RowsAgree
  <2>1. behind = {}
    BY DEF Init
  <2> QED
    BY <1>5, <2>1 DEF Within, RowsAgree
<1>7. Balanced
  BY <1>5, LedgerEmpty DEF Balanced, Init
<1>8. TradedOnce
  BY <1>5 DEF TradedOnce, TradesWithin
<1>9. SidesInv
  <2>1. ASSUME NEW h \in [Ids -> Int], \A o \in Ids : h[o] \in Choices(o)
        PROVE  SignedSum(h) + Due \in -lost..lost
    <3>1. ASSUME NEW o \in Ids
          PROVE  Booked(o) = 0
      <4>1. row[o].status # "Completed"
        BY DEF Init
      <4> QED
        BY <1>5, <4>1 DEF Booked
    <3>2. \A o \in Ids : Signed(o, h[o]) = 0
      BY <2>1, <3>1 DEF Choices, Signed, Init
    <3> DEFINE f == [o \in Ids |-> Signed(o, h[o])]
    <3>3. f = [o \in Ids |-> 0]
      BY <3>2
    <3>4. Sum(f, Ids) = 0
      BY <3>3, SumOfZeros DEF ExchangeAssumption
    <3>5. SignedSum(h) = 0
      BY <3>4 DEF SignedSum
    <3>6. Due = 0 /\ lost = 0
      BY DEF Init, Due
    <3> QED
      BY <3>5, <3>6
  <2> QED
    BY <2>1 DEF SidesInv
<1> QED
  BY <1>1, <1>2, <1>3, <1>4, <1>6, <1>7, <1>8, <1>9 DEF IInv

(* What is left of the order comes to rest. *)
LEMMA RestKeepsIInv ==
  ASSUME ExchangeAssumption, IInv, Rest
  PROVE  IInv'
<1>1. /\ matching \in Ids /\ matching = adding /\ matching # NoId
      /\ queue' = Append(queue, matching) /\ matching' = NoId
      /\ queue \in Seq(Ids)
  BY DEF Rest, IInv, Phases, ExchangeTypeOK
<1>2. /\ DOMAIN queue = 1..Len(queue) /\ DOMAIN queue' = 1..(Len(queue) + 1)
      /\ Len(queue) \in Nat /\ queue'[Len(queue) + 1] = matching
      /\ \A k \in 1..Len(queue) : queue'[k] = queue[k]
  BY <1>1
<1> USE DEF Rest, database, history, bounds
<1>3. ExchangeTypeOK'
  <2>1. queue' \in Seq(Ids)
    BY <1>1
  <2> QED
    BY <1>1, <2>1 DEF IInv, ExchangeTypeOK
<1>4. Phases'
  BY <1>1 DEF IInv, Phases
<1>5. RowsPlaced' /\ RowsExist' /\ ResultStands'
  BY DEF IInv, RowsPlaced, RowsExist, ResultStands, RowStands, Has
<1>6. QueueStands'
  <2>1. matching \notin Resting /\ open[matching] > 0 /\ Has(matching)
    BY <1>1 DEF IInv, Phases, Has
  <2>2. \A k \in DOMAIN queue' : Has(queue'[k]) /\ open[queue'[k]] > 0
    BY <1>2, <2>1 DEF IInv, QueueStands
  <2>3. \A j, k \in DOMAIN queue' : queue'[j] = queue'[k] => j = k
    BY <1>2, <2>1 DEF IInv, QueueStands, Resting
  <2>4. \A o \in Resting : o \in Resting'
    BY <1>2 DEF Resting
  <2>5. matching \in Resting'
    BY <1>2 DEF Resting
  <2>6. \A o \in Ids : open[o] > 0 => o \in Resting'
    BY <2>4, <2>5 DEF IInv, QueueStands
  <2> QED
    BY <2>2, <2>3, <2>6 DEF QueueStands, Has
<1>7. CallsStand' /\ Paired' /\ Within' /\ Balanced'
  BY DEF IInv, CallsStand, CallStands, Has, AcceptStands, Live, Paired, Within, Balanced
<1>8. RowsAgree' /\ TradedOnce'
  BY DEF IInv, RowsAgree, RowSays, Live, AcceptDue, Has, TradedOnce, TradesWithin
<1>9. SidesInv'
  BY DEF IInv, SidesInv, Choices, Booked, Due
<1> QED
  BY <1>3, <1>4, <1>5, <1>6, <1>7, <1>8, <1>9 DEF IInv

(* What was an order of the process is one in its table. *)
LEMMA AddedKeepsIInv ==
  ASSUME ExchangeAssumption, IInv, Added
  PROVE  IInv'
<1> USE DEF Added, database, history, bounds
<1>1. /\ adding \in Ids /\ adding # NoId /\ calls = <<>> /\ NoId \notin Ids
      /\ \A o \in Ids : Has(o)' <=> Has(o)
  BY DEF IInv, ExchangeTypeOK, Has, ExchangeAssumption
<1>2. behind \subseteq Ids
  BY DEF IInv, ExchangeTypeOK
<1>3. \A k \in DOMAIN queue : queue[k] \in Ids
  BY MembersTypes DEF IInv
<1>4. \A k \in DOMAIN result : result[k].order \in Ids
  BY MembersTypes DEF IInv
<1>5. ExchangeTypeOK'
  BY <1>1 DEF IInv, ExchangeTypeOK
<1>6. Phases'
  BY <1>1 DEF IInv, Phases, ExchangeTypeOK
<1>7. RowsPlaced' /\ RowsExist'
  BY <1>1 DEF IInv, RowsPlaced, RowsExist
<1>8. ResultStands'
  BY <1>1, <1>4 DEF IInv, ResultStands, RowStands
<1>9. QueueStands'
  BY <1>1, <1>3 DEF IInv, QueueStands, Resting
<1>10. CallsStand' /\ Paired'
  <2>1. DOMAIN calls' = {} /\ Len(calls') = 0
    BY <1>1
  <2> QED
    BY <2>1 DEF CallsStand, Paired
<1>11. Within'
  BY <1>1, <1>2 DEF IInv, Within
<1>12. Balanced'
  BY DEF IInv, Balanced
<1>13. RowsAgree'
  BY <1>1 DEF IInv, RowsAgree, RowSays, Live, AcceptDue
<1>14. TradedOnce'
  BY <1>1 DEF IInv, TradedOnce, TradesWithin, AcceptDue
<1>15. SidesInv'
  BY DEF IInv, SidesInv, Choices, Booked, Due
<1> QED
  BY <1>5, <1>6, <1>7, <1>8, <1>9, <1>10, <1>11, <1>12, <1>13, <1>14, <1>15 DEF IInv

(* The exchange opens. *)
LEMMA ServeKeepsIInv ==
  ASSUME ExchangeAssumption, IInv, Serve \/ LoadFails
  PROVE  IInv'
<1>1. /\ UNCHANGED <<database, memory, history, requests, crashes>>
      /\ server = "loading" /\ server' = "serving" /\ calls = <<>>
      /\ adding = NoId /\ result' = <<>>
      /\ failures' = failures \/ failures' = failures + 1
  BY DEF Serve, LoadFails, Idle, bounds
<1> USE DEF database, memory, history
<1>2. ExchangeTypeOK'
  <2>0. failures \in Nat /\ requests \in Nat /\ crashes \in Nat
    BY DEF IInv, ExchangeTypeOK
  <2>1. failures' \in Nat /\ requests' \in Nat /\ crashes' \in Nat
    BY <1>1, <2>0
  <2>2. /\ result' \in Seq([order : Ids, status : {"Pending", "Processing"}, amount : Nat])
        /\ server' \in {"down", "loading", "serving"}
    BY <1>1
  <2>3. UNCHANGED <<row, placed, known, object, queue, open, adding, matching, calls,
                    behind, excused, traded, lost>>
    BY <1>1
  <2> QED
    BY <2>1, <2>2, <2>3 DEF IInv, ExchangeTypeOK
<1>3. Phases' /\ RowsPlaced' /\ RowsExist'
  BY <1>1 DEF IInv, Phases, Resting, RowsPlaced, RowsExist, Has
<1>4. ResultStands'
  <2>1. DOMAIN result' = {}
    BY <1>1
  <2> QED
    BY <1>1, <2>1 DEF ResultStands
<1>5. QueueStands' /\ Within' /\ Balanced'
  BY <1>1 DEF IInv, QueueStands, Has, Resting, Within, Balanced
<1>6. CallsStand' /\ Paired'
  <2>1. DOMAIN calls' = {} /\ Len(calls') = 0
    BY <1>1
  <2> QED
    BY <2>1 DEF CallsStand, Paired
<1>7. RowsAgree' /\ TradedOnce'
  BY <1>1 DEF IInv, RowsAgree, RowSays, Live, AcceptDue, Has, TradedOnce, TradesWithin
<1>8. SidesInv'
  BY <1>1 DEF IInv, SidesInv, Choices, Booked, Due
<1> QED
  BY <1>2, <1>3, <1>4, <1>5, <1>6, <1>7, <1>8 DEF IInv

(* After a crash the rows are all there is: what they say was traded of    *)
(* an order and what they say is left of it is what was ordered.           *)
LEMMA CrashKeepsIInv ==
  ASSUME ExchangeAssumption, IInv, Crash
  PROVE  IInv'
<1> USE DEF Crash, database
<1>1. \A o \in Ids : ~Has(o)' /\ open'[o] = 0 /\ object'[o].onMarket = 0
  BY DEF Has, FreshObject, ExchangeAssumption
<1>2. ExchangeTypeOK'
  <2>1. object' \in [Ids -> [status : {"", "Pending", "Processing"}, state : State, onMarket : Nat]]
    BY DEF FreshObject, State
  <2>2. /\ placed' \in Seq(Ids) /\ queue' \in Seq(Ids) /\ calls' \in Seq(Call)
        /\ result' \in Seq([order : Ids, status : {"Pending", "Processing"}, amount : Nat])
    <3>1. placed' = placed /\ queue' = <<>> /\ calls' = <<>> /\ result' = <<>>
      OBVIOUS
    <3>2. placed \in Seq(Ids)
      BY DEF IInv, ExchangeTypeOK
    <3> QED
      BY ONLY <3>1, <3>2
  <2>3. open' \in [Ids -> Nat] /\ {adding', matching'} \subseteq Ids \cup {NoId}
    OBVIOUS
  <2>4. crashes' \in Nat /\ lost' \in Nat
    <3>1. lost \in Nat /\ crashes \in Nat /\ HalfTold \in Nat
      BY DueType DEF IInv, ExchangeTypeOK
    <3> QED
      BY <3>1
  <2>5. server' \in {"down", "loading", "serving"} /\ known' \in SUBSET Ids
    OBVIOUS
  <2>6. behind' \in SUBSET Ids /\ excused' \in SUBSET Ids
    BY DEF IInv, ExchangeTypeOK
  <2>7. /\ row' \in [Ids -> [status : {"none", "Pending", "Processing"} \cup Final, amount : Nat]]
        /\ traded' \in [Ids -> Nat] /\ requests' \in Nat /\ failures' \in Nat
    BY DEF IInv, ExchangeTypeOK
  <2> QED
    BY <2>1, <2>2, <2>3, <2>4, <2>5, <2>6, <2>7 DEF ExchangeTypeOK
<1>3. Phases' /\ RowsPlaced' /\ RowsExist'
  BY <1>1 DEF IInv, Phases, RowsPlaced, RowsExist
<1>4. ResultStands' /\ QueueStands' /\ CallsStand' /\ Paired'
  <2>1. DOMAIN result' = {} /\ DOMAIN queue' = {} /\ DOMAIN calls' = {} /\ Len(calls') = 0
    OBVIOUS
  <2> QED
    BY <1>1, <2>1 DEF ResultStands, QueueStands, CallsStand, Paired
<1>5. Within'
  <2>1. \A o \in Ids : Units(Amount[o]) \in Nat
    BY ChoicesType DEF IInv
  <2> QED
    BY <1>1, <2>1 DEF IInv, Within
<1>6. Balanced'
  BY <1>1, LedgerEmpty DEF Balanced
<1>7. RowsAgree'
  BY <1>1 DEF RowsAgree
<1>8. TradedOnce'
  <2>1. ASSUME NEW o \in Ids \ excused', row[o].status \notin Final
        PROVE  traded[o] + Units(row[o].amount) <= Units(Amount[o])
    BY <2>1 DEF IInv, TradedOnce, TradesWithin
  <2> QED
    BY <1>1, <2>1 DEF IInv, TradedOnce, TradesWithin
<1>9. SidesInv'
  <2>1. \A o \in Ids : Choices(o)' \subseteq Choices(o)
    BY DEF Choices, Booked
  <2>2. lost \in Nat /\ HalfTold \in Nat /\ Due \in Int /\ Due \in -HalfTold..HalfTold
    BY DueType DEF IInv, ExchangeTypeOK
  <2>3. Due' = 0
    BY DEF Due
  <2>4. lost' \in Nat /\ Due' - Due \in -(lost' - lost)..(lost' - lost)
    BY <2>2, <2>3
  <2> QED
    BY <2>1, <2>2, <2>3, <2>4, SidesKept DEF IInv
<1> QED
  BY <1>2, <1>3, <1>4, <1>5, <1>6, <1>7, <1>8, <1>9 DEF IInv

(* The web application inserts a row. *)
LEMMA PlaceKeepsIInv ==
  ASSUME ExchangeAssumption, IInv, NEW x \in Ids, Place(x)
  PROVE  IInv'
<1> USE DEF Place, memory, bounds, history
<1>1. /\ row[x].status = "none" /\ row'[x].status = "Pending"
      /\ \A o \in Ids : row'[o].amount = row[o].amount
      /\ \A o \in Ids \ {x} : row'[o] = row[o]
      /\ row' \in [Ids -> [status : {"none", "Pending", "Processing"} \cup Final, amount : Nat]]
  <2>1. row \in [Ids -> [status : {"none", "Pending", "Processing"} \cup Final, amount : Nat]]
    BY DEF IInv, ExchangeTypeOK
  <2>2. row[x].status = "none" /\ row' = [row EXCEPT ![x].status = "Pending"]
    OBVIOUS
  <2> QED
    BY ONLY <2>1, <2>2, x \in Ids
<1>2. ~Has(x)
  BY <1>1 DEF IInv, RowsExist
<1>3. /\ placed \in Seq(Ids) /\ placed' = Append(placed, x) /\ placed' \in Seq(Ids)
      /\ Len(placed) \in Nat /\ DOMAIN placed' = 1..(Len(placed) + 1)
      /\ DOMAIN placed = 1..Len(placed) /\ placed'[Len(placed) + 1] = x
      /\ \A k \in 1..Len(placed) : placed'[k] = placed[k]
  <2>1. placed \in Seq(Ids) /\ placed' = Append(placed, x)
    BY DEF IInv, ExchangeTypeOK
  <2> QED
    BY ONLY <2>1, x \in Ids
<1>4. \A k \in 1..Len(placed) : placed[k] \in Ids /\ placed[k] # x
  BY <1>1, <1>3 DEF IInv, RowsPlaced
<1>5. ExchangeTypeOK'
  BY <1>1, <1>3 DEF IInv, ExchangeTypeOK
<1>6. Phases' /\ QueueStands' /\ Paired' /\ Balanced'
  BY DEF IInv, Phases, Resting, QueueStands, Has, Paired, Balanced
<1>7. RowsPlaced'
  <2>1. \A j, k \in DOMAIN placed' : placed'[j] = placed'[k] => j = k
    BY <1>3, <1>4 DEF IInv, RowsPlaced
  <2>2. \A k \in DOMAIN placed' : row'[placed'[k]].status # "none"
    BY <1>1, <1>3, <1>4 DEF IInv, RowsPlaced
  <2> QED
    BY <2>1, <2>2 DEF RowsPlaced
<1>8. RowsExist'
  BY <1>1 DEF IInv, RowsExist, Has
<1>9. ResultStands'
  <2>2. ASSUME NEW k \in DOMAIN result
        PROVE  RowStands(result[k])'
    <3>1. RowStands(result[k]) /\ result[k].status # "none" /\ result[k].order \in Ids
      BY MembersTypes DEF IInv, ResultStands
    <3>2. result[k].order # x
      BY <1>1, <3>1 DEF RowStands
    <3> QED
      BY <1>1, <3>1, <3>2 DEF RowStands, Has
  <2> QED
    BY <2>2 DEF IInv, ResultStands
<1>10. CallsStand'
  <2>1. \A k \in DOMAIN calls : calls[k].order \in Ids
    BY MembersTypes DEF IInv
  <2>2. ASSUME NEW k \in DOMAIN calls
        PROVE  CallStands(k)'
    <3>1. CallStands(k) /\ calls[k].order \in Ids /\ calls[k].order # x
      BY <1>2, <2>1 DEF IInv, CallsStand, CallStands
    <3> QED
      BY <1>1, <3>1 DEF CallStands, AcceptStands, Has, Live
  <2> QED
    BY <2>2 DEF CallsStand
<1>11. Within'
  BY <1>1 DEF IInv, Within, Has
<1>12. RowsAgree'
  BY <1>1, <1>2 DEF IInv, RowsAgree, RowSays, Live, Has, AcceptDue
<1>13. TradedOnce'
  <2>1. ASSUME NEW o \in Ids \ excused
        PROVE  TradesWithin(o)'
    <3>1. TradesWithin(o) /\ row'[o].amount = row[o].amount
      BY <1>1 DEF IInv, TradedOnce
    <3>2. row'[o].status \notin Final => row[o].status \notin Final
      BY <1>1 DEF Final
    <3> QED
      BY <3>1, <3>2 DEF TradesWithin, Has, AcceptDue
  <2> QED
    BY <2>1 DEF TradedOnce
<1>14. SidesInv'
  <2>1. ASSUME NEW o \in Ids
        PROVE  Choices(o)' \subseteq Choices(o)
    <3>1. row'[o].amount = row[o].amount
      BY <1>1
    <3>2. row'[o].status = "Completed" <=> row[o].status = "Completed"
      BY <1>1
    <3>3. Booked(o)' = Booked(o)
      BY <3>1, <3>2 DEF Booked
    <3> QED
      BY <3>1, <3>3 DEF Choices
  <2>2. Due \in Int /\ lost \in Nat /\ Due' = Due /\ lost' = lost
    BY DueType DEF IInv, ExchangeTypeOK, Due
  <2>3. Due' - Due \in -(lost' - lost)..(lost' - lost)
    BY <2>2
  <2> QED
    BY <2>1, <2>2, <2>3, SidesKept DEF IInv
<1> QED
  BY <1>5, <1>6, <1>7, <1>8, <1>9, <1>10, <1>11, <1>12, <1>13, <1>14 DEF IInv

(* The query gives the live rows, each once. *)
LEMMA StartKeepsIInv ==
  ASSUME ExchangeAssumption, IInv, Start
  PROVE  IInv'
<1> DEFINE wanted == {k \in DOMAIN placed : Wanted(row[placed[k]])}
           Row(o) == [order |-> o, status |-> row[o].status, amount |-> row[o].amount]
           R == [order : Ids, status : {"Pending", "Processing"}, amount : Nat]
           m == Cardinality(wanted)
<1>1. /\ server = "down" /\ server' = "loading"
      /\ result' = [n \in 1..m |-> Row(placed[Nth(wanted, n)])]
      /\ UNCHANGED <<row, placed, known, object, queue, open, adding, matching, calls,
                     requests, crashes, failures, behind, excused, traded, lost>>
  BY DEF Start, database, memory, bounds, history
<1>2. calls = <<>> /\ \A o \in Ids : ~Has(o)
  BY <1>1 DEF IInv, Phases, Has, ExchangeAssumption
<1>3. placed \in Seq(Ids) /\ wanted \in SUBSET Nat /\ IsFiniteSet(wanted)
  <2>0. placed \in Seq(Ids)
    BY DEF IInv, ExchangeTypeOK
  <2>1. placed \in Seq(Ids) /\ Len(placed) \in Nat /\ DOMAIN placed = 1..Len(placed)
    BY <2>0
  <2>2. IsFiniteSet(1..Len(placed))
    BY <2>1, FS_Interval
  <2>3. wanted \in SUBSET (1..Len(placed))
    BY <2>1
  <2> QED
    BY <2>1, <2>2, <2>3, FS_Subset
<1>4. m \in Nat
  BY <1>3, FS_CardinalityType
<1>5. ASSUME NEW n \in 1..m
      PROVE  /\ Nth(wanted, n) \in wanted /\ Rank(wanted, Nth(wanted, n)) = n
             /\ placed[Nth(wanted, n)] \in Ids /\ Wanted(row[placed[Nth(wanted, n)]])
             /\ row[placed[Nth(wanted, n)]].status # "none"
  <2> HIDE DEF wanted
  <2>1. Nth(wanted, n) \in wanted /\ Rank(wanted, Nth(wanted, n)) = n
    BY <1>3, NthIsMember
  <2> USE DEF wanted
  <2>2. Nth(wanted, n) \in DOMAIN placed /\ Wanted(row[placed[Nth(wanted, n)]])
    BY <2>1
  <2> HIDE DEF wanted
  <2> QED
    BY <1>3, <2>1, <2>2 DEF IInv, RowsPlaced
<1> HIDE DEF wanted
<1>6. ASSUME NEW n \in 1..m
      PROVE  /\ result'[n] = Row(placed[Nth(wanted, n)])
             /\ result'[n].order = placed[Nth(wanted, n)] /\ result'[n] \in R
  <2>1. row \in [Ids -> [status : {"none", "Pending", "Processing"} \cup Final, amount : Nat]]
    BY DEF IInv, ExchangeTypeOK
  <2> DEFINE o == placed[Nth(wanted, n)]
  <2>2. o \in Ids /\ row[o].status \notin Final /\ row[o].status # "none"
    BY <1>5 DEF Wanted
  <2>3. result'[n] = Row(o)
    BY <1>1
  <2> HIDE DEF o
  <2>4. row[o].status \in {"Pending", "Processing"} /\ row[o].amount \in Nat
    BY <2>1, <2>2
  <2>5. result'[n] = Row(o) /\ result'[n].order = o /\ result'[n] \in R
    BY <2>2, <2>3, <2>4
  <2> QED
    BY <2>5 DEF o
<1>7. DOMAIN result' = 1..m
  BY <1>1
<1> HIDE DEF m
<1>8. ExchangeTypeOK'
  <2>1. result' \in Seq(R)
    BY <1>1, <1>4, <1>6
  <2> QED
    BY <1>1, <2>1 DEF IInv, ExchangeTypeOK
<1> HIDE DEF R
<1>9. ResultStands'
  <2>1. ASSUME NEW j \in 1..m, NEW k \in 1..m, result'[j].order = result'[k].order
        PROVE  j = k
    <3>1. placed[Nth(wanted, j)] = placed[Nth(wanted, k)]
      BY <1>6, <2>1
    <3>2. Nth(wanted, j) \in DOMAIN placed /\ Nth(wanted, k) \in DOMAIN placed
      BY <1>5 DEF wanted
    <3>3. Nth(wanted, j) = Nth(wanted, k)
      BY <3>1, <3>2 DEF IInv, RowsPlaced
    <3> QED
      BY <1>5, <3>3
  <2>2. ASSUME NEW k \in 1..m
        PROVE  RowStands(result[k])'
    <3>1. result'[k] = Row(placed[Nth(wanted, k)]) /\ placed[Nth(wanted, k)] \in Ids
      BY <1>5, <1>6
    <3> QED
      BY <1>1, <1>2, <3>1 DEF RowStands, Has
  <2> QED
    BY <1>1, <1>7, <2>1, <2>2 DEF ResultStands
<1>10. Phases' /\ RowsPlaced' /\ RowsExist' /\ QueueStands'
  BY <1>1 DEF IInv, Phases, RowsPlaced, RowsExist, QueueStands, Has, Resting
<1>11. CallsStand' /\ Paired'
  <2>1. DOMAIN calls' = {} /\ Len(calls') = 0
    BY <1>1, <1>2
  <2> QED
    BY <2>1 DEF CallsStand, Paired
<1>12. Within' /\ Balanced' /\ RowsAgree' /\ TradedOnce'
  BY <1>1 DEF IInv, Within, Balanced, RowsAgree, RowSays, Live, AcceptDue, Has,
              TradedOnce, TradesWithin
<1>13. SidesInv'
  BY <1>1 DEF IInv, SidesInv, Choices, Booked, Due
<1> QED
  BY <1>8, <1>9, <1>10, <1>11, <1>12, <1>13 DEF IInv

(* An order that the process has not is handed to the book, as its row or  *)
(* its message asks.                                                       *)
Admitted(x, amount, status) ==
  /\ Idle /\ ~Has(x) /\ x \in Ids /\ row[x].status # "none"
  /\ server \in {"loading", "serving"}
  /\ amount \in Nat /\ status \in {"", "Pending", "Processing"}
  /\ IF server = "loading"
     THEN row[x].status \in {"Pending", "Processing"} /\ amount = row[x].amount
     ELSE amount = Amount[x]
  /\ NewObject(x, amount, status)
  /\ UNCHANGED <<database, history, server, crashes, failures>>

(* The first calls that are due for it. *)
LEMMA AdmittedCalls ==
  ASSUME ExchangeAssumption, IInv, NEW x, NEW amount, NEW status, Admitted(x, amount, status)
  PROVE  /\ Units(amount) \in Nat /\ calls = <<>> /\ matching = NoId /\ adding = NoId
         /\ Units(amount) <= Units(Amount[x])
         /\ \/ Units(amount) = 0 /\ matching' = NoId /\ calls' = <<>>
            \/ /\ Units(amount) > 0 /\ matching' = x
               /\ calls' = <<Told("accept", x, Units(amount))>>
         /\ Told("accept", x, Units(amount)) \in Call
<1>1. amount \in Nat /\ Units(amount) \in Nat /\ x \in Ids /\ calls = <<>> /\ adding = NoId
  BY UnitsAreQuantities DEF Admitted, Idle
<1>2. matching = NoId
  BY <1>1 DEF IInv, Phases, ExchangeAssumption
<1>3. Units(amount) <= Units(Amount[x])
  <2>1. amount = row[x].amount \/ amount = Amount[x]
    BY DEF Admitted
  <2> QED
    BY <1>1, <2>1 DEF IInv, Within
<1>4. \/ Units(amount) = 0 /\ matching' = matching /\ calls' = calls
      \/ /\ Units(amount) # 0 /\ matching' = x
         /\ calls' = <<Told("accept", x, Units(amount))>>
  BY DEF Admitted, NewObject
<1>5. Told("accept", x, Units(amount)) \in Call
  BY <1>1 DEF Told, Call
<1> QED
  BY <1>1, <1>2, <1>3, <1>4, <1>5

(* It keeps what is said of the orders and of the calls. *)
LEMMA AdmittedStands ==
  ASSUME ExchangeAssumption, IInv, NEW x, NEW amount, NEW status, Admitted(x, amount, status)
  PROVE  /\ Phases' /\ RowsPlaced' /\ RowsExist' /\ QueueStands'
         /\ CallsStand' /\ Paired'
<1> DEFINE u == Units(amount)
           c == Told("accept", x, u)
<1>1. /\ u \in Nat /\ calls = <<>> /\ matching = NoId /\ adding = NoId
      /\ u <= Units(Amount[x])
      /\ \/ u = 0 /\ matching' = NoId /\ calls' = <<>>
         \/ u > 0 /\ matching' = x /\ calls' = <<c>>
      /\ c \in Call
  BY AdmittedCalls
<1>2. c.kind = "accept" /\ c.order = x /\ c.qty = u
  BY DEF Told
<1>3. /\ x \in Ids /\ ~Has(x) /\ x # NoId /\ row[x].status # "none"
      /\ server' = server /\ server # "down"
      /\ adding' = x /\ open' = [open EXCEPT ![x] = u]
      /\ UNCHANGED <<row, placed, known, queue, behind>>
      /\ open \in [Ids -> Nat]
  BY DEF Admitted, NewObject, IInv, ExchangeTypeOK, database, history, ExchangeAssumption
<1>4. u > 0 => /\ x \notin behind
               /\ IF server = "loading" THEN Live(x) /\ Units(row[x].amount) = u
                  ELSE u = Units(Amount[x])
  BY <1>3 DEF Admitted, Live, IInv, Within
<1> HIDE DEF u, c
<1>5. \A o \in Ids : Has(o)' <=> Has(o) \/ o = x
  BY <1>1, <1>3 DEF Has, ExchangeAssumption
<1>6. \A k \in DOMAIN queue : queue[k] \in Ids /\ Has(queue[k]) /\ queue[k] # x
  BY <1>3, MembersTypes DEF IInv, QueueStands
<1>7. Phases'
  <2>1. x \notin Resting'
    BY <1>3, <1>6 DEF Resting
  <2>2. open'[x] = u /\ x \notin known'
    BY <1>3 DEF Has
  <2> QED
    BY <1>1, <1>3, <2>1, <2>2 DEF Phases
<1>8. RowsPlaced' /\ RowsExist'
  BY <1>3, <1>5 DEF IInv, RowsPlaced, RowsExist
<1>9. QueueStands'
  <2>1. \A k \in DOMAIN queue : Has(queue[k])' /\ open'[queue[k]] > 0
    BY <1>3, <1>5, <1>6 DEF IInv, QueueStands
  <2>2. \A o \in Ids : open'[o] > 0 => o \in Resting' \/ o = matching'
    <3>1. ASSUME NEW o \in Ids, open'[o] > 0
          PROVE  o \in Resting' \/ o = matching'
      <4>1. CASE o = x
        <5>1. open'[x] = u
          BY <1>3
        <5> QED
          BY <1>1, <3>1, <4>1, <5>1
      <4>2. CASE o # x
        <5>1. open[o] > 0
          BY <1>3, <3>1, <4>2
        <5>2. o \in Resting \/ o = matching
          BY <5>1 DEF IInv, QueueStands
        <5> QED
          BY <1>1, <1>3, <5>2 DEF Resting, ExchangeAssumption
      <4> QED
        BY <4>1, <4>2
    <3> QED
      BY <3>1
  <2> QED
    BY <1>3, <2>1, <2>2 DEF IInv, QueueStands
<1>10. CallsStand'
  <2>1. CASE calls' = <<>>
    BY <2>1 DEF CallsStand
  <2>2. CASE u > 0 /\ calls' = <<c>>
    <3>1. AcceptStands(x, u)'
      BY <1>1, <1>3, <1>4, <2>2 DEF AcceptStands, Live
    <3>2. DOMAIN calls' = {1} /\ calls'[1] = c
      BY <2>2
    <3>3. Has(x)'
      BY <1>3, <1>5
    <3>4. CallStands(1)'
      BY <1>2, <3>1, <3>2, <3>3 DEF CallStands
    <3> QED
      BY <3>2, <3>4 DEF CallsStand
  <2> QED
    BY <1>1, <2>1, <2>2
<1>11. Paired'
  <2>1. Len(calls') \in {0, 1}
    BY <1>1
  <2> QED
    BY <2>1 DEF Paired
<1> QED
  BY <1>7, <1>8, <1>9, <1>10, <1>11

(* It keeps what is said of the quantities. *)
LEMMA AdmittedBalances ==
  ASSUME ExchangeAssumption, IInv, NEW x, NEW amount, NEW status, Admitted(x, amount, status)
  PROVE  Within' /\ Balanced' /\ RowsAgree' /\ TradedOnce' /\ SidesInv'
<1> DEFINE u == Units(amount)
           c == Told("accept", x, u)
<1>1. /\ u \in Nat /\ calls = <<>> /\ matching = NoId /\ adding = NoId
      /\ u <= Units(Amount[x])
      /\ \/ u = 0 /\ matching' = NoId /\ calls' = <<>>
         \/ u > 0 /\ matching' = x /\ calls' = <<c>>
      /\ c \in Call
  BY AdmittedCalls
<1>2. c.kind = "accept" /\ c.order = x /\ c.qty = u
  BY DEF Told
<1>3. /\ x \in Ids /\ ~Has(x) /\ x # NoId /\ adding' = x
      /\ open' = [open EXCEPT ![x] = u]
      /\ object' = [object EXCEPT ![x] = [FreshObject EXCEPT !.status = status]]
      /\ UNCHANGED <<row, known, behind, excused, traded, lost>>
  BY DEF Admitted, NewObject, database, history, ExchangeAssumption
<1>4. /\ open'[x] = u /\ object'[x].onMarket = 0
      /\ \A o \in Ids \ {x} : open'[o] = open[o] /\ object'[o] = object[o]
  <2>1. /\ open \in [Ids -> Nat]
        /\ object \in [Ids -> [status : {"", "Pending", "Processing"}, state : State,
                               onMarket : Nat]]
    BY DEF IInv, ExchangeTypeOK
  <2> QED
    BY <1>3, <2>1 DEF FreshObject
<1>5. u = 0 => ~Live(x)
  <2>1. CASE server = "loading"
    <3>1. amount = row[x].amount
      BY <2>1 DEF Admitted
    <3>2. u = Units(row[x].amount)
      BY <3>1
    <3> QED
      BY <3>2 DEF Live
  <2>2. CASE server # "loading"
    <3>1. Units(row[x].amount) <= Units(Amount[x]) /\ Units(Amount[x]) = u
      BY <1>3, <2>2 DEF Admitted, IInv, Within
    <3>2. Units(row[x].amount) \in Nat
      BY <1>3, ChoicesType DEF IInv
    <3> QED
      BY <3>1, <3>2 DEF Live
  <2> QED
    BY <2>1, <2>2
<1> HIDE DEF u, c
<1>6. \A o \in Ids : Has(o)' <=> Has(o) \/ o = x
  BY <1>1, <1>3 DEF Has, ExchangeAssumption
<1>7. x \notin behind /\ behind \subseteq Ids
  BY <1>3 DEF IInv, Within, ExchangeTypeOK
<1>8. \A o \in Ids : /\ Units(Amount[o]) \in Nat /\ Units(row[o].amount) \in Nat
                     /\ object[o].onMarket \in Nat
  BY ChoicesType DEF IInv
<1>9. Within'
  <2>1. \A o \in Ids : object'[o].onMarket <= Units(Amount[o])
    BY <1>4, <1>8 DEF IInv, Within
  <2> QED
    BY <1>3, <1>6, <1>7, <2>1 DEF IInv, Within
<1>10. Balanced'
  <2>1. ASSUME NEW o \in Ids
        PROVE  Owes(o, calls', object'[o].onMarket, open'[o])
    <3>1. Owes(o, <<>>, object[o].onMarket, open[o]) /\ object[o].onMarket = open[o]
      BY <1>1, <1>8, LedgerEmpty DEF IInv, Balanced
    <3>2. Owes(o, <<>>, object'[o].onMarket, object'[o].onMarket)
      BY <1>4, <1>8, LedgerEmpty
    <3>3. CASE calls' = <<>> /\ u = 0
      <4>1. open'[o] = object'[o].onMarket
        BY <1>4, <3>1, <3>3
      <4> QED
        BY <3>2, <3>3, <4>1
    <3>4. CASE calls' = <<c>>
      <4>1. AfterCall(object'[o].onMarket, c, o) = open'[o]
        BY <1>2, <1>4, <3>1 DEF AfterCall
      <4>2. open'[o] \in Nat
        BY <1>1, <1>4, <1>8, <3>1
      <4>3. <<>> \in Seq(Call) /\ Append(<<>>, c) = <<c>>
        OBVIOUS
      <4>4. Owes(o, Append(<<>>, c), object'[o].onMarket, AfterCall(object'[o].onMarket, c, o))
        BY <1>1, <3>2, <4>1, <4>2, <4>3, LedgerAppend
      <4> QED
        BY <3>4, <4>1, <4>3, <4>4
    <3> QED
      BY <1>1, <3>3, <3>4
  <2> QED
    BY <2>1 DEF Balanced
<1>11. \A o \in Ids : ~AcceptDue(o)
  BY <1>1 DEF AcceptDue
<1>12. ASSUME u > 0
       PROVE  AcceptDue(x)'
  <2>1. calls' = <<c>>
    BY <1>1, <1>12
  <2>2. <<c>> # <<>> /\ Head(<<c>>) = c
    OBVIOUS
  <2>3. calls' # <<>> /\ Head(calls').kind = "accept" /\ Head(calls').order = x
    BY <1>2, <2>1, <2>2
  <2> QED
    BY <2>3 DEF AcceptDue
<1>13. RowsAgree'
  <2>1. ASSUME NEW o \in Ids, Has(o)', o \notin behind, ~AcceptDue(o)'
        PROVE  RowSays(o)'
    <3>1. CASE o = x
      <4>1. ~Live(x)
        BY <1>1, <1>5, <1>12, <2>1, <3>1
      <4> QED
        BY <1>3, <1>4, <3>1, <4>1 DEF RowSays, Live
    <3>2. CASE o # x
      <4>1. RowSays(o)
        BY <1>6, <1>11, <2>1, <3>2 DEF IInv, RowsAgree
      <4> QED
        BY <1>3, <1>4, <3>2, <4>1 DEF RowSays, Live
    <3> QED
      BY <3>1, <3>2
  <2> QED
    BY <1>3, <2>1 DEF RowsAgree
<1>14. TradedOnce'
  <2>1. ASSUME NEW o \in Ids \ excused
        PROVE  TradesWithin(o)'
    <3>1. TradesWithin(o) /\ traded[o] \in Nat
      BY DEF IInv, TradedOnce, ExchangeTypeOK
    <3>2. CASE o = x
      BY <1>3, <1>4, <3>1, <3>2 DEF TradesWithin
    <3>3. CASE o # x
      BY <1>3, <1>4, <1>6, <1>11, <3>1, <3>3 DEF TradesWithin
    <3> QED
      BY <3>2, <3>3
  <2> QED
    BY <1>3, <2>1 DEF TradedOnce
<1>15. SidesInv'
  <2>1. ASSUME NEW o \in Ids
        PROVE  Choices(o)' \subseteq Choices(o)
    <3>1. Booked(o)' = Booked(o)
      BY <1>3 DEF Booked
    <3> QED
      BY <1>3, <1>4, <1>7, <3>1 DEF Choices
  <2>2. Due = 0 /\ Due' = 0
    <3>1. Len(calls) = 0 /\ (Len(calls') = 0 \/ Head(calls').kind # "fill")
      BY <1>1, <1>2
    <3> QED
      BY <3>1 DEF Due
  <2>3. lost \in Nat /\ lost' = lost
    BY <1>3 DEF IInv, ExchangeTypeOK
  <2>4. Due' - Due \in -(lost' - lost)..(lost' - lost)
    BY <2>2, <2>3
  <2> QED
    BY <2>1, <2>2, <2>3, <2>4, SidesKept DEF IInv
<1> QED
  BY <1>9, <1>10, <1>13, <1>14, <1>15

(* It keeps the types of what it changes. *)
LEMMA AdmittedTypes ==
  ASSUME ExchangeAssumption, IInv, NEW x, NEW amount, NEW status, Admitted(x, amount, status),
         result' \in Seq([order : Ids, status : {"Pending", "Processing"}, amount : Nat]),
         requests' \in Nat
  PROVE  ExchangeTypeOK'
<1>1. /\ Units(amount) \in Nat
      /\ \/ matching' = NoId /\ calls' = <<>>
         \/ matching' = x /\ calls' = <<Told("accept", x, Units(amount))>>
      /\ Told("accept", x, Units(amount)) \in Call
  BY AdmittedCalls
<1>2. /\ x \in Ids /\ adding' = x /\ status \in {"", "Pending", "Processing"}
      /\ object' = [object EXCEPT ![x] = [FreshObject EXCEPT !.status = status]]
      /\ open' = [open EXCEPT ![x] = Units(amount)]
      /\ UNCHANGED <<row, placed, server, known, queue, crashes, failures,
                     behind, excused, traded, lost>>
  BY DEF Admitted, NewObject, database, history
<1>3. calls' \in Seq(Call) /\ {adding', matching'} \subseteq Ids \cup {NoId}
  <2>1. <<>> \in Seq(Call) /\ \A c \in Call : <<c>> \in Seq(Call)
    OBVIOUS
  <2>2. calls' \in Seq(Call)
    <3>1. <<Told("accept", x, Units(amount))>> \in Seq(Call)
      BY <1>1, <2>1
    <3>2. calls' = <<>> \/ calls' = <<Told("accept", x, Units(amount))>>
      BY <1>1
    <3> QED
      BY ONLY <2>1, <3>1, <3>2
  <2>3. adding' \in Ids \cup {NoId} /\ matching' \in Ids \cup {NoId}
    BY <1>1, <1>2
  <2> QED
    BY <2>2, <2>3
<1>4. open' \in [Ids -> Nat]
  BY <1>1, <1>2 DEF IInv, ExchangeTypeOK
<1>5. object' \in [Ids -> [status : {"", "Pending", "Processing"}, state : State, onMarket : Nat]]
  <2>1. object \in [Ids -> [status : {"", "Pending", "Processing"}, state : State, onMarket : Nat]]
    BY DEF IInv, ExchangeTypeOK
  <2>2. [FreshObject EXCEPT !.status = status]
          \in [status : {"", "Pending", "Processing"}, state : State, onMarket : Nat]
    BY <1>2 DEF FreshObject, State
  <2> QED
    BY ONLY <1>2, <2>1, <2>2
<1> QED
  BY <1>2, <1>3, <1>4, <1>5 DEF IInv, ExchangeTypeOK

(* A new order, or one that is sent again. *)
LEMMA NewOrderKeepsIInv ==
  ASSUME ExchangeAssumption, IInv, NEW x \in Ids, NewOrder(x)
  PROVE  IInv'
<1>1. /\ server = "serving" /\ Idle /\ row[x].status # "none" /\ requests' = requests + 1
      /\ UNCHANGED <<database, server, result, crashes, failures, history>>
  BY DEF NewOrder, Request
<1>2. /\ requests \in Nat /\ result = <<>> /\ Amount[x] \in Nat
      /\ result \in Seq([order : Ids, status : {"Pending", "Processing"}, amount : Nat])
  BY <1>1 DEF IInv, ExchangeTypeOK, ResultStands, ExchangeAssumption
<1>3. /\ requests' \in Nat
       /\ result' \in Seq([order : Ids, status : {"Pending", "Processing"}, amount : Nat])
  BY <1>1, <1>2
<1>4. CASE x \in known
  <2>1. UNCHANGED <<memory, database, server, result, crashes, failures, history>>
    BY <1>1, <1>4 DEF NewOrder, AddOrder
  <2> USE DEF memory, database, history
  <2>2. ExchangeTypeOK'
    <3>1. /\ UNCHANGED <<row, placed, server, known, object, queue, open, adding, matching, calls,
                         crashes, failures, behind, excused, traded, lost>>
      BY <2>1
    <3> QED
      BY <1>3, <3>1 DEF IInv, ExchangeTypeOK
  <2>3. Phases' /\ RowsPlaced' /\ RowsExist' /\ ResultStands' /\ QueueStands'
    BY <2>1 DEF IInv, Phases, Resting, RowsPlaced, RowsExist, Has, ResultStands, RowStands,
                QueueStands
  <2>4. CallsStand' /\ Paired' /\ Within' /\ Balanced'
    BY <2>1 DEF IInv, CallsStand, CallStands, Has, AcceptStands, Live, Paired, Within, Balanced
  <2>5. RowsAgree' /\ TradedOnce'
    BY <2>1 DEF IInv, RowsAgree, RowSays, Live, AcceptDue, Has, TradedOnce, TradesWithin
  <2>6. SidesInv'
    BY <2>1 DEF IInv, SidesInv, Choices, Booked, Due
  <2> QED
    BY <2>2, <2>3, <2>4, <2>5, <2>6 DEF IInv
<1>5. CASE x \notin known
  <2>1. NewObject(x, Amount[x], "")
    BY <1>5 DEF NewOrder, AddOrder
  <2>2. ~Has(x)
    BY <1>1, <1>5 DEF Has, Idle, ExchangeAssumption
  <2>3. Admitted(x, Amount[x], "")
    BY <1>1, <1>2, <2>1, <2>2 DEF Admitted
  <2>4. ExchangeTypeOK'
    BY <1>3, <2>3, AdmittedTypes
  <2>5. ResultStands'
    <3>1. server' # "loading" /\ result' = <<>> /\ DOMAIN result' = {}
      BY <1>1, <1>2
    <3> QED
      BY <3>1 DEF ResultStands
  <2> QED
    BY <2>3, <2>4, <2>5, AdmittedStands, AdmittedBalances DEF IInv
<1> QED
  BY <1>4, <1>5

(* An order is loaded from its row. *)
LEMMA LoadKeepsIInv ==
  ASSUME ExchangeAssumption, IInv, Load
  PROVE  IInv'
<1> DEFINE r == Head(result)
           R == [order : Ids, status : {"Pending", "Processing"}, amount : Nat]
<1>1. /\ server = "loading" /\ Idle /\ result # <<>> /\ result' = Tail(result)
      /\ AddOrder(r.order, r.amount, r.status)
      /\ UNCHANGED <<database, server, requests, crashes, failures, history>>
  BY DEF Load, bounds
<1>2. result \in Seq(R) /\ r \in R /\ r = result[1] /\ Tail(result) \in Seq(R)
  <2>1. result \in Seq(R)
    BY DEF IInv, ExchangeTypeOK
  <2> HIDE DEF R
  <2> QED
    BY <1>1, <2>1
<1>3. /\ Len(result) \in Nat /\ Len(result) >= 1 /\ DOMAIN result = 1..Len(result)
      /\ DOMAIN Tail(result) = 1..(Len(result) - 1)
      /\ \A k \in 1..(Len(result) - 1) : Tail(result)[k] = result[k + 1]
  <2> HIDE DEF R
  <2> QED
    BY <1>1, <1>2
<1>4. RowStands(r)
  <2>1. 1 \in DOMAIN result
    BY <1>3
  <2> QED
    BY <1>2, <2>1 DEF IInv, ResultStands
<1>5. r.order \in Ids /\ r.amount \in Nat /\ r.status \in {"Pending", "Processing"}
  BY <1>2
<1> HIDE DEF R, r
<1>6. /\ ~Has(r.order) /\ r.order \notin known
      /\ r.status = row[r.order].status /\ r.amount = row[r.order].amount
  BY <1>4 DEF RowStands, Has
<1>7. NewObject(r.order, r.amount, r.status)
  BY <1>1, <1>6 DEF AddOrder
<1>8. Admitted(r.order, r.amount, r.status)
  <2>1. row[r.order].status # "none"
    BY <1>5, <1>6
  <2> QED
    BY <1>1, <1>5, <1>6, <1>7, <2>1 DEF Admitted
<1>9. ExchangeTypeOK'
  <2>1. requests' \in Nat
    BY <1>1 DEF IInv, ExchangeTypeOK
  <2> QED
    BY <1>1, <1>2, <1>8, <2>1, AdmittedTypes DEF R
<1>10. ResultStands'
  <2>1. UNCHANGED <<row, known>> /\ server' = "loading" /\ adding' = r.order /\ adding = NoId
    BY <1>1, <1>7 DEF NewObject, database, Idle
  <2>2. ASSUME NEW j \in DOMAIN result', NEW k \in DOMAIN result',
               result'[j].order = result'[k].order
        PROVE  j = k
    <3>1. /\ j + 1 \in DOMAIN result /\ k + 1 \in DOMAIN result /\ j \in Nat /\ k \in Nat
          /\ result[j + 1].order = result[k + 1].order
      BY <1>1, <1>3, <2>2
    <3>2. j + 1 = k + 1
      BY <3>1 DEF IInv, ResultStands
    <3> QED
      BY <3>1, <3>2
  <2>3. ASSUME NEW k \in DOMAIN result'
        PROVE  RowStands(result[k])'
    <3>1. /\ result'[k] = result[k + 1] /\ k + 1 \in DOMAIN result /\ k + 1 # 1
          /\ 1 \in DOMAIN result
      BY <1>1, <1>3
    <3>2. RowStands(result[k + 1])
      BY <3>1 DEF IInv, ResultStands
    <3>3. result[k + 1].order # r.order
      <4>1. result[k + 1].order = result[1].order => k + 1 = 1
        BY <3>1 DEF IInv, ResultStands
      <4> QED
        BY <1>2, <3>1, <4>1
    <3> QED
      BY <2>1, <3>1, <3>2, <3>3 DEF RowStands, Has
  <2> QED
    BY <2>1, <2>2, <2>3 DEF ResultStands
<1> QED
  BY <1>8, <1>9, <1>10, AdmittedStands, AdmittedBalances DEF IInv

(* What the queue is without the k-th order. *)
WithoutStands(k) ==
  /\ Without(k) \in Seq(Ids)
  /\ \A o : (\E j \in DOMAIN Without(k) : Without(k)[j] = o) <=> o \in Resting \ {queue[k]}
  /\ \A i, j \in DOMAIN Without(k) : Without(k)[i] = Without(k)[j] => i = j

(* The other orders stay in the queue, each once. *)
LEMMA WithoutKeepsTheRest ==
  ASSUME IInv, NEW k \in DOMAIN queue
  PROVE  WithoutStands(k)
<1> DEFINE n == Len(queue)
           W == Without(k)
<1>1. queue \in Seq(Ids) /\ n \in Nat /\ DOMAIN queue = 1..n /\ k \in 1..n
  <2>1. queue \in Seq(Ids)
    BY DEF IInv, ExchangeTypeOK
  <2> QED
    BY <2>1
<1>2. \A i, j \in 1..n : queue[i] = queue[j] => i = j
  BY <1>1 DEF IInv, QueueStands
<1>3. /\ W \in Seq(Ids) /\ DOMAIN W = 1..(n - 1)
      /\ \A i \in 1..(n - 1) : W[i] = IF i < k THEN queue[i] ELSE queue[i + 1]
  <2> DEFINE A == SubSeq(queue, 1, k - 1)
             B == SubSeq(queue, k + 1, n)
  <2>1. A \in Seq(Ids) /\ Len(A) = k - 1 /\ \A i \in 1..(k - 1) : A[i] = queue[i]
    BY <1>1
  <2>2. B \in Seq(Ids) /\ Len(B) = n - k /\ \A i \in 1..(n - k) : B[i] = queue[k + i]
    BY <1>1
  <2>3. W = A \o B
    BY DEF Without
  <2> HIDE DEF A, B, W, n
  <2>4. /\ W \in Seq(Ids) /\ Len(W) = n - 1
        /\ \A i \in 1..(n - 1) : W[i] = IF i <= k - 1 THEN A[i] ELSE B[i - (k - 1)]
    <3>0. A \in Seq(Ids) /\ B \in Seq(Ids)
      BY <2>1, <2>2
    <3>1. W \in Seq(Ids) /\ Len(W) = Len(A) + Len(B)
      BY ONLY <2>3, <3>0
    <3>2. Len(A) + Len(B) = n - 1
      BY <1>1, <2>1, <2>2
    <3>3. \A i \in 1..(Len(A) + Len(B)) : W[i] = IF i <= Len(A) THEN A[i] ELSE B[i - Len(A)]
      BY ONLY <2>3, <3>0
    <3> QED
      BY <2>1, <3>1, <3>2, <3>3
  <2>5. ASSUME NEW i \in 1..(n - 1)
        PROVE  W[i] = IF i < k THEN queue[i] ELSE queue[i + 1]
    <3>1. CASE i < k
      <4>1. i <= k - 1 /\ i \in 1..(k - 1)
        BY <1>1, <3>1
      <4> QED
        BY <2>1, <2>4, <3>1, <4>1
    <3>2. CASE ~(i < k)
      <4>1. ~(i <= k - 1) /\ i - (k - 1) \in 1..(n - k) /\ k + (i - (k - 1)) = i + 1
        BY <1>1, <3>2
      <4> QED
        BY <2>2, <2>4, <3>2, <4>1
    <3> QED
      BY <3>1, <3>2
  <2> QED
    BY <1>1, <2>4, <2>5
<1> HIDE DEF W, n
<1>4. ASSUME NEW i \in 1..(n - 1)
      PROVE  \E j \in (1..n) \ {k} : W[i] = queue[j]
  <2>1. i \in (1..n) \ {k} \/ ~(i < k)
    BY <1>1
  <2>2. i + 1 \in 1..n /\ (~(i < k) => i + 1 # k)
    BY <1>1
  <2> QED
    BY <1>1, <1>3, <2>1, <2>2
<1>5. ASSUME NEW j \in (1..n) \ {k}
      PROVE  \E i \in 1..(n - 1) : W[i] = queue[j]
  <2>1. CASE j < k
    <3>1. j \in 1..(n - 1)
      BY <1>1, <2>1
    <3> QED
      BY <1>3, <2>1, <3>1
  <2>2. CASE ~(j < k)
    <3>1. j - 1 \in 1..(n - 1) /\ ~(j - 1 < k) /\ (j - 1) + 1 = j
      BY <1>1, <2>2
    <3> QED
      BY <1>3, <3>1
  <2> QED
    BY <2>1, <2>2
<1>6. \A o : (\E j \in DOMAIN W : W[j] = o) <=> o \in Resting \ {queue[k]}
  <2>1. \A o : o \in Resting \ {queue[k]} <=> \E j \in (1..n) \ {k} : queue[j] = o
    <3>1. \A o : o \in Resting <=> \E j \in 1..n : queue[j] = o
      BY <1>1 DEF Resting
    <3>2. \A j \in 1..n : queue[j] = queue[k] <=> j = k
      BY <1>1, <1>2
    <3> QED
      BY <3>1, <3>2
  <2>2. \A o : (\E j \in DOMAIN W : W[j] = o) <=> \E j \in 1..(n - 1) : W[j] = o
    BY <1>3
  <2>3. \A o : (\E j \in 1..(n - 1) : W[j] = o) => \E j \in (1..n) \ {k} : queue[j] = o
    BY <1>4
  <2>4. \A o : (\E j \in (1..n) \ {k} : queue[j] = o) => \E j \in 1..(n - 1) : W[j] = o
    BY <1>5
  <2> QED
    BY <2>1, <2>2, <2>3, <2>4
<1>7. ASSUME NEW i \in 1..(n - 1), NEW j \in 1..(n - 1), W[i] = W[j]
      PROVE  i = j
  <2> DEFINE a == IF i < k THEN i ELSE i + 1
             b == IF j < k THEN j ELSE j + 1
  <2>1. a \in 1..n /\ b \in 1..n /\ (a = b => i = j)
    BY <1>1
  <2>2. W[i] = queue[a] /\ W[j] = queue[b]
    BY <1>3
  <2> HIDE DEF a, b
  <2> QED
    BY <1>2, <1>7, <2>1, <2>2
<1> QED
  BY <1>3, <1>6, <1>7 DEF WithoutStands, W

(* An order is taken out of the book; it will be told. *)
LEMMA CancelOrderKeepsIInv ==
  ASSUME ExchangeAssumption, IInv, NEW x \in Ids, CancelOrder(x)
  PROVE  IInv'
<1> DEFINE c == Told("cancel", x, 0)
<1>1. /\ server = "serving" /\ calls = <<>> /\ adding = NoId /\ x \in known
      /\ open' = [open EXCEPT ![x] = 0] /\ calls' = <<c>> /\ requests' = requests + 1
      /\ UNCHANGED <<row, placed, server, result, known, object, adding, matching,
                     crashes, failures, behind, excused, traded, lost>>
  BY DEF CancelOrder, Request, Idle, database, history
<1>2. PICK k \in DOMAIN queue : queue[k] = x /\ queue' = Without(k)
  BY DEF CancelOrder
<1>3. WithoutStands(k)
  BY WithoutKeepsTheRest
<1>4. c.kind = "cancel" /\ c.order = x /\ c \in Call /\ Head(calls') = c
      /\ Len(calls') = 1 /\ DOMAIN calls' = {1} /\ calls'[1] = c /\ <<c>> = Append(<<>>, c)
  <2>1. c.kind = "cancel" /\ c.order = x /\ c \in Call
    BY DEF Told, Call
  <2> HIDE DEF c
  <2> QED
    BY <1>1, <2>1
<1> HIDE DEF c
<1>5. matching = NoId
  BY <1>1 DEF IInv, Phases, ExchangeAssumption
<1>6. \A o \in Ids : Has(o)' <=> Has(o)
  BY <1>1 DEF Has
<1>7. open \in [Ids -> Nat] /\ open'[x] = 0 /\ \A o \in Ids \ {x} : open'[o] = open[o]
  <2>1. open \in [Ids -> Nat]
    BY DEF IInv, ExchangeTypeOK
  <2> QED
    BY <1>1, <2>1
<1>8. ExchangeTypeOK'
  <2>1. open' \in [Ids -> Nat]
    BY <1>1, <1>7
  <2>2. calls' \in Seq(Call)
    BY <1>1, <1>4
  <2>3. queue' \in Seq(Ids)
    BY <1>2, <1>3 DEF WithoutStands
  <2>4. requests' \in Nat
    <3>1. requests \in Nat
      BY DEF IInv, ExchangeTypeOK
    <3> QED
      BY <1>1, <3>1
  <2> QED
    BY <1>1, <2>1, <2>2, <2>3, <2>4 DEF IInv, ExchangeTypeOK
<1>9. Phases' /\ RowsPlaced' /\ RowsExist'
  BY <1>1, <1>5, <1>6 DEF IInv, Phases, RowsPlaced, RowsExist
<1>10. ResultStands'
  <2>1. result' = <<>> /\ DOMAIN result' = {}
    BY <1>1 DEF IInv, ResultStands
  <2> QED
    BY <2>1 DEF ResultStands
<1>11. QueueStands'
  <2>1. \A o \in Ids : o \in Resting' <=> o \in Resting /\ o # x
    BY <1>2, <1>3 DEF WithoutStands, Resting
  <2>2. ASSUME NEW j \in DOMAIN queue'
        PROVE  Has(queue'[j]) /\ open'[queue'[j]] > 0
    <3>1. queue'[j] \in Resting \ {x}
      BY <1>2, <1>3, <2>2 DEF WithoutStands
    <3>2. queue'[j] \in Ids /\ Has(queue'[j]) /\ open[queue'[j]] > 0
      BY <3>1, MembersTypes DEF IInv, QueueStands, Resting
    <3> QED
      BY <1>7, <3>1, <3>2
  <2>3. \A i, j \in DOMAIN queue' : queue'[i] = queue'[j] => i = j
    BY <1>2, <1>3 DEF WithoutStands
  <2>4. ASSUME NEW o \in Ids, open'[o] > 0
        PROVE  o \in Resting' \/ o = matching'
    <3>1. o # x /\ open[o] > 0
      BY <1>7, <2>4
    <3> QED
      BY <1>1, <2>1, <3>1 DEF IInv, QueueStands
  <2>5. \A j \in DOMAIN queue' : Has(queue[j])'
    BY <1>1, <2>2 DEF Has
  <2> QED
    BY <2>2, <2>3, <2>4, <2>5 DEF QueueStands
<1>12. CallsStand' /\ Paired'
  <2>1. object[x].onMarket > 0
    <3>1. open[x] > 0
      BY <1>2 DEF IInv, QueueStands
    <3>2. object[x].onMarket \in Nat /\ Owes(x, <<>>, object[x].onMarket, open[x])
      BY <1>1, ChoicesType DEF IInv, Balanced
    <3> QED
      BY <3>1, <3>2, LedgerEmpty
  <2>2. CallStands(1)'
    BY <1>1, <1>4, <2>1 DEF CallStands, Has
  <2> QED
    BY <1>4, <2>2 DEF CallsStand, Paired
<1>13. Within'
  BY <1>1, <1>6 DEF IInv, Within, ExchangeTypeOK
<1>14. Balanced'
  <2>1. ASSUME NEW o \in Ids
        PROVE  Owes(o, calls', object'[o].onMarket, open'[o])
    <3>1. Owes(o, <<>>, object[o].onMarket, open[o]) /\ open[o] \in Nat
      BY <1>1, <1>7 DEF IInv, Balanced
    <3>2. AfterCall(open[o], c, o) = open'[o]
      BY <1>4, <1>7 DEF AfterCall
    <3>3. open'[o] \in Nat
      BY <1>7, <3>1
    <3>4. <<>> \in Seq(Call)
      OBVIOUS
    <3>5. Owes(o, Append(<<>>, c), object[o].onMarket, AfterCall(open[o], c, o))
      BY <1>4, <3>1, <3>2, <3>3, <3>4, LedgerAppend
    <3> QED
      BY <1>1, <1>4, <3>2, <3>5
  <2> QED
    BY <2>1 DEF Balanced
<1>15. \A o \in Ids : ~AcceptDue(o) /\ ~AcceptDue(o)'
  BY <1>1, <1>4 DEF AcceptDue
<1>16. RowsAgree' /\ TradedOnce'
  BY <1>1, <1>6, <1>15 DEF IInv, RowsAgree, RowSays, Live, TradedOnce, TradesWithin
<1>17. SidesInv'
  <2>1. \A o \in Ids : Choices(o)' \subseteq Choices(o)
    BY <1>1 DEF Choices, Booked
  <2>2. Due = 0 /\ Due' = 0
    BY <1>1, <1>4 DEF Due
  <2>3. lost \in Nat /\ lost' = lost
    BY <1>1 DEF IInv, ExchangeTypeOK
  <2>4. Due' - Due \in -(lost' - lost)..(lost' - lost)
    BY <2>2, <2>3
  <2> QED
    BY <2>1, <2>2, <2>3, <2>4, SidesKept DEF IInv
<1> QED
  BY <1>8, <1>9, <1>10, <1>11, <1>12, <1>13, <1>14, <1>16, <1>17 DEF IInv

(* What a trade of qty with the k-th order in the queue does. *)
Trade(k, m, p, qty) ==
  /\ k \in DOMAIN queue /\ p = queue[k] /\ p \in Ids /\ Has(p) /\ p \in Resting
  /\ m = matching /\ m = adding /\ m \in Ids /\ m # p /\ m \notin Resting /\ m # NoId /\ Has(m)
  /\ (m \in Buys <=> p \notin Buys)
  /\ qty \in Nat /\ qty > 0
  /\ open \in [Ids -> Nat] /\ qty <= open[m] /\ qty <= open[p]
  /\ open' = [open EXCEPT ![m] = @ - qty, ![p] = @ - qty]
  /\ calls' = calls \o <<Told("fill", m, qty), Told("fill", p, qty)>>
  /\ queue' = IF open[p] = qty THEN Without(k) ELSE queue
  /\ matching' = IF open[m] = qty THEN NoId ELSE matching
  /\ UNCHANGED <<row, placed, server, result, known, object, adding, requests, crashes, failures,
                 behind, excused, traded, lost>>

(* A match, read through Trade: the fields that the engine changes. *)
LEMMA MatchIsTrade ==
  ASSUME ExchangeAssumption, IInv, Match
  PROVE  \E k, m, p, qty : Trade(k, m, p, qty)
<1>1. PICK k \in DOMAIN queue :
        /\ IsBest(k)
        /\ open' = [open EXCEPT ![matching] = @ - TradeQty(queue[k]), ![queue[k]] = @ - TradeQty(queue[k])]
        /\ calls' = calls \o <<Told("fill", matching, TradeQty(queue[k])),
                               Told("fill", queue[k], TradeQty(queue[k]))>>
        /\ queue' = IF open[queue[k]] = TradeQty(queue[k]) THEN Without(k) ELSE queue
        /\ matching' = IF open[matching] = TradeQty(queue[k]) THEN NoId ELSE matching
  BY DEF Match
<1> DEFINE m == matching
           p == queue[k]
           qty == TradeQty(p)
<1>2. /\ p \in Ids /\ Has(p) /\ p \in Resting /\ open[p] > 0
  BY MembersTypes DEF IInv, QueueStands, Resting
<1>3. m # NoId /\ m = adding /\ m \in Ids /\ m \notin Resting /\ m # p /\ Has(m) /\ open[m] > 0
  BY <1>2 DEF Match, IInv, Phases, Has
<1>4. m \in Buys <=> p \notin Buys
  BY <1>1 DEF IsBest, Crosses
<1>5. open \in [Ids -> Nat]
  BY DEF IInv, ExchangeTypeOK
<1>6. qty \in Nat /\ qty > 0 /\ qty <= open[m] /\ qty <= open[p]
  BY <1>2, <1>3, <1>5 DEF TradeQty
<1>7. UNCHANGED <<row, placed, server, result, known, object, adding, requests, crashes, failures,
                  behind, excused, traded, lost>>
  BY DEF Match, database, bounds, history
<1>8. Trade(k, m, p, qty)
  BY <1>1, <1>2, <1>3, <1>4, <1>5, <1>6, <1>7 DEF Trade
<1> QED
  BY <1>8

(* The calls after a trade. *)
LEMMA TradeCalls ==
  ASSUME ExchangeAssumption, IInv, NEW k, NEW m, NEW p, NEW qty, Trade(k, m, p, qty)
  PROVE  /\ Told("fill", m, qty) \in Call /\ Told("fill", p, qty) \in Call
         /\ calls' \in Seq(Call)
         /\ calls' = Append(Append(calls, Told("fill", m, qty)), Told("fill", p, qty))
         /\ Len(calls) \in Nat /\ DOMAIN calls = 1..Len(calls)
         /\ Len(calls') = Len(calls) + 2 /\ DOMAIN calls' = 1..(Len(calls) + 2)
         /\ \A j \in 1..Len(calls) : calls'[j] = calls[j]
         /\ calls'[Len(calls) + 1] = Told("fill", m, qty)
         /\ calls'[Len(calls) + 2] = Told("fill", p, qty)
         /\ Len(calls) # 0 => Head(calls') = Head(calls)
<1> DEFINE c == Told("fill", m, qty)
           d == Told("fill", p, qty)
<1>1. c \in Call /\ d \in Call /\ calls \in Seq(Call) /\ calls' = calls \o <<c, d>>
  BY DEF Told, Call, Trade, IInv, ExchangeTypeOK
<1> HIDE DEF c, d
<1>2. /\ calls' \in Seq(Call) /\ calls' = Append(Append(calls, c), d)
      /\ Len(calls) \in Nat /\ DOMAIN calls = 1..Len(calls)
      /\ Len(calls') = Len(calls) + 2 /\ DOMAIN calls' = 1..(Len(calls) + 2)
      /\ \A j \in 1..Len(calls) : calls'[j] = calls[j]
      /\ calls'[Len(calls) + 1] = c /\ calls'[Len(calls) + 2] = d
  BY <1>1
<1>3. Len(calls) # 0 => Head(calls') = Head(calls)
  BY <1>1, <1>2
<1> QED
  BY <1>1, <1>2, <1>3 DEF c, d

(* What is open after a trade. *)
LEMMA TradeOpens ==
  ASSUME NEW k, NEW m, NEW p, NEW qty, Trade(k, m, p, qty)
  PROVE  /\ open' \in [Ids -> Nat] /\ open'[m] = open[m] - qty /\ open'[p] = open[p] - qty
         /\ \A o \in (Ids \ {m}) \ {p} : open'[o] = open[o]
         /\ open[m] - qty \in Nat /\ open[p] - qty \in Nat
<1>1. /\ m \in Ids /\ p \in Ids /\ m # p /\ qty \in Nat /\ open \in [Ids -> Nat]
      /\ qty <= open[m] /\ qty <= open[p]
      /\ open' = [open EXCEPT ![m] = @ - qty, ![p] = @ - qty]
  BY DEF Trade
<1>2. open[m] \in Nat /\ open[p] \in Nat
  BY <1>1
<1>3. open[m] - qty \in Nat /\ open[p] - qty \in Nat
  BY <1>1, <1>2
<1> QED
  BY ONLY <1>1, <1>3

(* What rests after a trade. *)
LEMMA TradeQueue ==
  ASSUME ExchangeAssumption, IInv, NEW k, NEW m, NEW p, NEW qty, Trade(k, m, p, qty)
  PROVE  queue' \in Seq(Ids) /\ QueueStands' /\ Phases'
<1>1. /\ open' \in [Ids -> Nat] /\ open'[m] = open[m] - qty /\ open'[p] = open[p] - qty
      /\ \A o \in (Ids \ {m}) \ {p} : open'[o] = open[o]
      /\ open[m] - qty \in Nat /\ open[p] - qty \in Nat
  BY TradeOpens
<1>2. /\ k \in DOMAIN queue /\ p = queue[k] /\ p \in Ids /\ Has(p) /\ p \in Resting
      /\ m = matching /\ m = adding /\ m \in Ids /\ m # p /\ m \notin Resting /\ m # NoId
      /\ queue' = (IF open[p] = qty THEN Without(k) ELSE queue)
      /\ matching' = (IF open[m] = qty THEN NoId ELSE matching)
      /\ qty \in Nat /\ open \in [Ids -> Nat]
      /\ UNCHANGED <<server, known, adding>>
  BY DEF Trade
<1>3. \A o : Has(o)' <=> Has(o)
  BY <1>2 DEF Has
<1>4. /\ queue' \in Seq(Ids)
      /\ \A i, j \in DOMAIN queue' : queue'[i] = queue'[j] => i = j
      /\ \A o : o \in Resting' <=> o \in Resting /\ ~(o = p /\ open[p] = qty)
  <2>1. CASE open[p] = qty
    <3>1. queue' = Without(k) /\ WithoutStands(k)
      BY <1>2, <2>1, WithoutKeepsTheRest
    <3>2. \A o : o \in Resting' <=> o \in Resting /\ o # p
      <4>1. \A o : o \in Resting' <=> \E j \in DOMAIN queue' : queue'[j] = o
        BY DEF Resting
      <4>2. \A o : (\E j \in DOMAIN queue' : queue'[j] = o) <=> o \in Resting \ {queue[k]}
        BY <3>1 DEF WithoutStands
      <4> QED
        BY <1>2, <4>1, <4>2
    <3>3. /\ queue' \in Seq(Ids)
          /\ \A i, j \in DOMAIN queue' : queue'[i] = queue'[j] => i = j
      BY <3>1 DEF WithoutStands
    <3> QED
      BY <2>1, <3>2, <3>3
  <2>2. CASE open[p] # qty
    <3>1. queue' = queue
      BY <1>2, <2>2
    <3> QED
      BY <2>2, <3>1 DEF IInv, ExchangeTypeOK, QueueStands, Resting
  <2> QED
    BY <2>1, <2>2
<1>5. \A o \in Resting : o \in Ids /\ Has(o) /\ open[o] > 0
  BY MembersTypes DEF IInv, QueueStands, Resting
<1>6. ASSUME NEW o, o \in Resting'
      PROVE  Has(o) /\ open'[o] > 0
  <2>1. o \in Resting /\ o \in Ids /\ Has(o) /\ open[o] > 0 /\ o # m
    BY <1>2, <1>4, <1>5, <1>6
  <2>2. CASE o = p
    <3>1. open[p] # qty
      BY <1>4, <1>6, <2>2
    <3> QED
      BY <1>1, <1>2, <2>1, <2>2, <3>1
  <2>3. CASE o # p
    BY <1>1, <2>1, <2>3
  <2> QED
    BY <2>2, <2>3
<1>7. ASSUME NEW o \in Ids, open'[o] > 0
      PROVE  o \in Resting' \/ o = matching'
  <2>1. CASE o = m
    <3>1. open[m] # qty
      BY <1>1, <1>2, <1>7, <2>1
    <3> QED
      BY <1>2, <2>1, <3>1
  <2>2. CASE o = p
    <3>1. open[p] # qty
      BY <1>1, <1>2, <1>7, <2>2
    <3> QED
      BY <1>2, <1>4, <2>2, <3>1
  <2>3. CASE o # m /\ o # p
    <3>1. open[o] > 0
      BY <1>1, <1>7, <2>3
    <3> QED
      BY <1>2, <1>4, <2>3, <3>1 DEF IInv, QueueStands
  <2> QED
    BY <2>1, <2>2, <2>3
<1>8. QueueStands'
  <2>1. ASSUME NEW j \in DOMAIN queue'
        PROVE  Has(queue[j])' /\ open'[queue'[j]] > 0
    <3>1. queue'[j] \in Resting'
      BY DEF Resting
    <3>2. Has(queue'[j]) /\ open'[queue'[j]] > 0
      BY <1>6, <3>1
    <3> QED
      BY <1>2, <3>2 DEF Has
  <2> QED
    BY <1>4, <1>7, <2>1 DEF QueueStands
<1>9. Phases'
  <2>1. ASSUME matching' # NoId
        PROVE  /\ matching' = adding' /\ adding' \in Ids /\ matching' \notin Resting'
               /\ open'[matching'] > 0
    <3>1. matching' = m /\ open[m] # qty
      BY <1>2, <2>1
    <3>2. m \notin Resting'
      BY <1>2, <1>4
    <3>3. open'[m] > 0
      BY <1>1, <1>2, <3>1
    <3> QED
      BY <1>2, <3>1, <3>2, <3>3
  <2>2. server' # "down" /\ adding' \notin known'
    BY <1>2 DEF IInv, Phases
  <2> QED
    BY <2>1, <2>2 DEF Phases
<1> QED
  BY <1>4, <1>8, <1>9

(* Both orders will be told, and the calls lead to what is open. *)
LEMMA TradeBalances ==
  ASSUME ExchangeAssumption, IInv, NEW k, NEW m, NEW p, NEW qty, Trade(k, m, p, qty)
  PROVE  CallsStand' /\ Paired' /\ Balanced'
<1> DEFINE c == Told("fill", m, qty)
           d == Told("fill", p, qty)
           n == Len(calls)
<1>1. /\ c \in Call /\ d \in Call /\ calls' \in Seq(Call)
      /\ calls' = Append(Append(calls, c), d)
      /\ n \in Nat /\ DOMAIN calls = 1..n
      /\ Len(calls') = n + 2 /\ DOMAIN calls' = 1..(n + 2)
      /\ \A j \in 1..n : calls'[j] = calls[j]
      /\ calls'[n + 1] = c /\ calls'[n + 2] = d
  BY TradeCalls
<1>2. /\ c.kind = "fill" /\ c.order = m /\ c.qty = qty
      /\ d.kind = "fill" /\ d.order = p /\ d.qty = qty
  BY DEF Told
<1> HIDE DEF c, d, n
<1>3. /\ Has(m) /\ Has(p) /\ m # p /\ (m \in Buys <=> p \notin Buys)
      /\ qty \in Nat /\ qty > 0 /\ m \in Ids /\ p \in Ids
      /\ UNCHANGED <<row, server, known, adding, object, behind>>
  BY DEF Trade
<1>4. CallsStand'
  <2>1. ASSUME NEW j \in 1..(n + 2)
        PROVE  CallStands(j)'
    <3>1. CASE j \in 1..n
      <4>1. CallStands(j) /\ calls'[j] = calls[j]
        BY <1>1, <3>1 DEF IInv, CallsStand
      <4> QED
        BY <1>3, <4>1 DEF CallStands, AcceptStands, Has, Live
    <3>2. CASE j \notin 1..n
      <4>1. calls'[j] = c \/ calls'[j] = d
        BY <1>1, <3>2
      <4> QED
        BY <1>2, <1>3, <4>1 DEF CallStands, Has
    <3> QED
      BY <3>1, <3>2
  <2> QED
    BY <1>1, <2>1 DEF CallsStand
<1>5. Paired'
  <2>1. ASSUME NEW j \in 2..(n + 2), (n + 2 - j) % 2 = 0
        PROVE  Opposite(calls'[j - 1], calls'[j])
    <3>1. CASE j = n + 2
      <4>1. calls'[j - 1] = c /\ calls'[j] = d
        BY <1>1, <3>1
      <4> QED
        BY <1>2, <1>3, <4>1 DEF Opposite
    <3>2. CASE j = n + 1
      <4>1. (n + 2 - j) % 2 = 1
        BY <1>1, <3>2
      <4> QED
        BY <2>1, <4>1
    <3>3. CASE j \in 2..n
      <4>1. (n - j) % 2 = 0
        BY <1>1, <2>1, <3>3
      <4>2. Opposite(calls[j - 1], calls[j])
        BY <3>3, <4>1 DEF IInv, Paired, n
      <4>3. calls'[j - 1] = calls[j - 1] /\ calls'[j] = calls[j]
        BY <1>1, <3>3
      <4> QED
        BY <4>2, <4>3
    <3> QED
      BY <1>1, <3>1, <3>2, <3>3
  <2> QED
    BY <1>1, <2>1 DEF Paired
<1>6. Balanced'
  <2>0. /\ open' \in [Ids -> Nat] /\ open'[m] = open[m] - qty /\ open'[p] = open[p] - qty
        /\ \A o \in (Ids \ {m}) \ {p} : open'[o] = open[o]
        /\ open \in [Ids -> Nat]
    <3>1. open \in [Ids -> Nat]
      BY DEF Trade
    <3>2. /\ open' \in [Ids -> Nat] /\ open'[m] = open[m] - qty /\ open'[p] = open[p] - qty
          /\ \A o \in (Ids \ {m}) \ {p} : open'[o] = open[o]
      BY TradeOpens
    <3> QED
      BY <3>1, <3>2
  <2>1. ASSUME NEW o \in Ids
        PROVE  Owes(o, calls', object'[o].onMarket, open'[o])
    <3> DEFINE a == object[o].onMarket
               b == open[o]
               b1 == AfterCall(b, c, o)
               b2 == AfterCall(b1, d, o)
    <3>1. Owes(o, calls, a, b) /\ calls \in Seq(Call)
      BY DEF IInv, Balanced, ExchangeTypeOK
    <3>2. /\ b1 = IF o = m THEN open'[m] ELSE open[o]
          /\ b2 = open'[o] /\ open'[o] \in Nat /\ open[o] \in Nat /\ open'[m] \in Nat
      BY <1>2, <1>3, <2>0 DEF AfterCall
    <3>3. b1 \in Nat /\ b2 \in Nat
      BY <3>2
    <3>4. Owes(o, Append(calls, c), a, b1)
      BY <1>1, <3>1, <3>3, LedgerAppend
    <3>5. Append(calls, c) \in Seq(Call)
      BY <1>1, <3>1
    <3> HIDE DEF a, b1, b
    <3>6. Owes(o, Append(Append(calls, c), d), a, b2)
      BY <1>1, <3>3, <3>4, <3>5, LedgerAppend
    <3>7. object'[o].onMarket = a
      BY <1>3 DEF a
    <3> QED
      BY <1>1, <3>2, <3>6, <3>7
  <2> QED
    BY <2>1 DEF Balanced
<1> QED
  BY <1>4, <1>5, <1>6

(* A trade of two orders: the engine's part of it, told to nobody yet. *)
LEMMA MatchKeepsIInv ==
  ASSUME ExchangeAssumption, IInv, Match
  PROVE  IInv'
<1> PICK k, m, p, qty : Trade(k, m, p, qty)
  BY MatchIsTrade
<1>1. UNCHANGED <<row, placed, server, result, known, object, adding, requests, crashes, failures,
                  behind, excused, traded, lost>>
  BY DEF Trade
<1>2. /\ calls' \in Seq(Call) /\ Len(calls) \in Nat /\ Len(calls') = Len(calls) + 2
      /\ calls'[1] = IF Len(calls) = 0 THEN Told("fill", m, qty) ELSE calls[1]
      /\ Len(calls) # 0 => Head(calls') = Head(calls)
  BY TradeCalls
<1>3. \A o : AcceptDue(o)' <=> AcceptDue(o)
  <2>1. CASE Len(calls) = 0
    <3>1. calls = <<>>
      <4>1. calls \in Seq(Call)
        BY DEF IInv, ExchangeTypeOK
      <4> QED
        BY <2>1, <4>1
    <3>2. Head(calls') = Told("fill", m, qty)
      BY <1>2, <2>1
    <3> QED
      BY <3>1, <3>2 DEF AcceptDue, Told
  <2>2. CASE Len(calls) # 0
    <3>1. calls # <<>> /\ calls' # <<>>
      BY <1>2, <2>2
    <3> QED
      BY <1>2, <2>2, <3>1 DEF AcceptDue
  <2> QED
    BY <2>1, <2>2
<1>4. QueueStands' /\ Phases' /\ queue' \in Seq(Ids)
  BY TradeQueue
<1>5. CallsStand' /\ Paired' /\ Balanced'
  BY TradeBalances
<1>6. ExchangeTypeOK'
  <2>1. open' \in [Ids -> Nat]
    BY TradeOpens
  <2>2. matching' \in Ids \cup {NoId}
    BY DEF Trade
  <2> QED
    BY <1>1, <1>2, <1>4, <2>1, <2>2 DEF IInv, ExchangeTypeOK
<1>7. RowsPlaced' /\ RowsExist' /\ ResultStands' /\ Within'
  BY <1>1 DEF IInv, RowsPlaced, RowsExist, ResultStands, RowStands, Has, Within
<1>8. RowsAgree' /\ TradedOnce'
  BY <1>1, <1>3 DEF IInv, RowsAgree, RowSays, Live, Has, TradedOnce, TradesWithin
<1>9. SidesInv'
  <2>1. Due' = Due
    <3>1. (Len(calls) + 2) % 2 = Len(calls) % 2
      BY <1>2
    <3>2. Len(calls) = 0 => Len(calls) % 2 = 0
      OBVIOUS
    <3> QED
      BY <1>2, <3>1, <3>2 DEF Due
  <2> QED
    BY <1>1, <2>1 DEF IInv, SidesInv, Choices, Booked
<1> QED
  BY <1>4, <1>5, <1>6, <1>7, <1>8, <1>9 DEF IInv

(* The first call is made. *)
Telling(c) ==
  /\ calls # <<>> /\ c = Head(calls) /\ calls' = Tail(calls) /\ matching = NoId
  /\ UNCHANGED <<placed, server, result, known, queue, open, adding, matching, requests, crashes>>

(* What the call says, and what the calls are after it. *)
LEMMA CallsAfterOne ==
  ASSUME ExchangeAssumption, IInv, NEW c, Telling(c)
  PROVE  /\ c \in Call /\ Has(c.order) /\ c.order \in Ids /\ c.qty \in Nat
         /\ c.kind = "accept" => AcceptStands(c.order, c.qty)
         /\ c.kind = "fill" => c.qty > 0
         /\ c.kind = "cancel" => object[c.order].onMarket > 0
         /\ calls' \in Seq(Call) /\ CallsStand' /\ Paired'
         /\ \A o : ~AcceptDue(o)'
         /\ Due' = Due - IF c.kind = "fill" THEN Signed(c.order, c.qty) ELSE 0
<1> DEFINE n == Len(calls)
<1>1. /\ calls \in Seq(Call) /\ calls # <<>> /\ c = Head(calls) /\ calls' = Tail(calls)
      /\ UNCHANGED <<known, adding>>
  BY DEF Telling, IInv, ExchangeTypeOK
<1>2. /\ c \in Call /\ c = calls[1] /\ n \in Nat /\ n >= 1 /\ DOMAIN calls = 1..n
      /\ calls' \in Seq(Call) /\ Len(calls') = n - 1 /\ DOMAIN calls' = 1..(n - 1)
      /\ \A k \in 1..(n - 1) : calls'[k] = calls[k + 1]
      /\ n - 1 # 0 => Head(calls') = calls[2]
  <2>1. /\ c \in Call /\ c = calls[1] /\ n \in Nat /\ n >= 1 /\ DOMAIN calls = 1..n
        /\ calls' \in Seq(Call) /\ Len(calls') = n - 1
    BY <1>1
  <2>2. /\ DOMAIN calls' = 1..(n - 1)
        /\ \A k \in 1..(n - 1) : calls'[k] = calls[k + 1]
    BY <1>1, <2>1
  <2>3. ASSUME n - 1 # 0
        PROVE  Head(calls') = calls[2]
    <3>1. 1 \in 1..(n - 1) /\ calls' # <<>>
      BY <2>1, <2>3
    <3>2. Head(calls') = calls'[1] /\ calls'[1] = calls[1 + 1]
      BY <2>1, <2>2, <3>1
    <3> QED
      BY <3>2
  <2> QED
    BY <2>1, <2>2, <2>3
<1> HIDE DEF n
<1>3. CallStands(1)
  <2>1. 1 \in DOMAIN calls
    BY <1>2
  <2> QED
    BY <2>1 DEF IInv, CallsStand
<1>4. c.order \in Ids /\ c.qty \in Nat /\ c.kind \in {"accept", "fill", "cancel"}
  BY <1>2 DEF Call
<1>5. ASSUME NEW k \in 1..(n - 1)
      PROVE  /\ calls'[k].kind = "fill" /\ calls'[k].qty > 0 /\ Has(calls'[k].order)
             /\ Has(calls[k].order)'
  <2>1. k + 1 \in DOMAIN calls /\ k + 1 # 1 /\ calls'[k] = calls[k + 1]
    BY <1>2
  <2>2. CallStands(k + 1)
    BY <2>1 DEF IInv, CallsStand
  <2>3. calls[k + 1].kind = "fill"
    BY <2>1, <2>2, MembersTypes DEF IInv, CallStands
  <2>4. Has(calls'[k].order) /\ calls'[k].qty > 0
    BY <2>1, <2>2, <2>3 DEF CallStands
  <2>5. Has(calls[k].order)'
    BY <1>1, <2>4 DEF Has
  <2> QED
    BY <2>1, <2>3, <2>4, <2>5
<1>6. CallsStand'
  BY <1>2, <1>5 DEF CallsStand, CallStands
<1>7. Paired'
  <2>1. ASSUME NEW k \in 2..(n - 1), (n - 1 - k) % 2 = 0
        PROVE  Opposite(calls'[k - 1], calls'[k])
    <3>1. k + 1 \in 2..n /\ n - (k + 1) = n - 1 - k /\ (k + 1) - 1 = k
      BY <1>2
    <3>2. Opposite(calls[k], calls[k + 1])
      <4>1. \A j \in 2..n : (n - j) % 2 = 0 => Opposite(calls[j - 1], calls[j])
        BY DEF IInv, Paired, n
      <4>2. (n - (k + 1)) % 2 = 0
        BY ONLY <3>1, <2>1
      <4>3. Opposite(calls[(k + 1) - 1], calls[k + 1])
        BY ONLY <3>1, <4>1, <4>2
      <4> QED
        BY ONLY <3>1, <4>3
    <3>3. calls'[k - 1] = calls[k] /\ calls'[k] = calls[k + 1]
      BY <1>2
    <3> QED
      BY <3>2, <3>3
  <2> QED
    BY <1>2, <2>1 DEF Paired
<1>8. \A o : ~AcceptDue(o)'
  <2>1. CASE n - 1 = 0
    BY <1>2, <2>1 DEF AcceptDue
  <2>2. CASE n - 1 # 0
    <3>1. 1 \in 1..(n - 1) /\ Head(calls') = calls'[1]
      BY <1>2, <2>2
    <3> QED
      BY <1>5, <3>1 DEF AcceptDue
  <2> QED
    BY <2>1, <2>2
<1>9. Due' = Due - IF c.kind = "fill" THEN Signed(c.order, c.qty) ELSE 0
  <2> DEFINE s == Signed(c.order, c.qty)
  <2>0. s \in Int
    BY <1>4 DEF Signed
  <2>1. CASE n % 2 = 1
    <3>1. (n - 1) % 2 = 0
      <4>1. \A i \in Nat : i % 2 = 1 => (i - 1) % 2 = 0
        OBVIOUS
      <4> QED
        BY <1>2, <2>1, <4>1
    <3>2. Due' = 0
      BY <1>2, <3>1 DEF Due
    <3>3. Due = IF c.kind = "fill" THEN s ELSE 0
      BY <1>1, <2>1 DEF Due, n
    <3> QED
      BY <2>0, <3>2, <3>3
  <2>2. CASE n % 2 # 1
    <3>1. n % 2 = 0 /\ (n - 1) % 2 = 1 /\ n >= 2 /\ (n - 2) % 2 = 0
      <4>1. \A i \in Nat : i % 2 # 1 => i % 2 = 0
        OBVIOUS
      <4>2. \A i \in Nat : i >= 1 /\ i % 2 = 0 => (i - 1) % 2 = 1 /\ i >= 2 /\ (i - 2) % 2 = 0
        OBVIOUS
      <4> QED
        BY <1>2, <2>2, <4>1, <4>2
    <3>2. Opposite(calls[2 - 1], calls[2])
      <4>1. 2 \in 2..n
        BY <1>2, <3>1
      <4> QED
        BY <3>1, <4>1 DEF IInv, Paired, n
    <3> DEFINE d == calls[2]
    <3>3. Opposite(c, d) /\ Head(calls') = d
      BY <1>2, <3>1, <3>2
    <3>4. d.order \in Ids /\ d.qty \in Nat
      <4>1. 2 \in DOMAIN calls
        BY <1>2, <3>1
      <4> QED
        BY <4>1, MembersTypes DEF IInv
    <3> HIDE DEF d
    <3>5. Due = 0
      BY <2>2 DEF Due, n
    <3>6. Due' = Signed(d.order, d.qty)
      BY <1>2, <3>1, <3>3 DEF Due, Opposite
    <3>7. Signed(d.order, d.qty) = -s
      BY <1>4, <3>3, <3>4 DEF Opposite, Signed
    <3>8. c.kind = "fill"
      BY <3>3 DEF Opposite
    <3> QED
      BY <2>0, <3>5, <3>6, <3>7, <3>8
  <2> QED
    BY <2>1, <2>2
<1> QED
  BY <1>1, <1>2, <1>3, <1>4, <1>6, <1>7, <1>8, <1>9 DEF CallStands

(* The object that is called has on the market what the call says. *)
LEMMA CallBalances ==
  ASSUME ExchangeAssumption, IInv, NEW c, Telling(c),
         \A o \in Ids : object'[o].onMarket = AfterCall(object[o].onMarket, c, o)
  PROVE  Balanced'
<1>1. calls \in Seq(Call) /\ calls # <<>> /\ c = Head(calls) /\ calls' = Tail(calls) /\ open' = open
  BY DEF Telling, IInv, ExchangeTypeOK
<1>2. ASSUME NEW o \in Ids
      PROVE  Owes(o, calls', object'[o].onMarket, open'[o])
  <2> DEFINE a == object[o].onMarket
             b == open[o]
  <2>1. Owes(o, calls, a, b)
    BY DEF IInv, Balanced
  <2> HIDE DEF a, b
  <2>2. Owes(o, Tail(calls), AfterCall(a, Head(calls), o), b)
    BY <1>1, <2>1, LedgerTail
  <2>3. object'[o].onMarket = AfterCall(a, c, o)
    BY DEF a
  <2>4. open'[o] = b
    BY <1>1 DEF b
  <2> QED
    BY <1>1, <2>2, <2>3, <2>4
<1> QED
  BY <1>2 DEF Balanced

(* What remains on the market after a fill is not below zero. *)
LEMMA FillIsCovered ==
  ASSUME ExchangeAssumption, IInv, NEW c, Telling(c), c.kind = "fill"
  PROVE  /\ object[c.order].onMarket \in Nat /\ c.qty <= object[c.order].onMarket
         /\ object[c.order].onMarket > 0
<1> DEFINE x == c.order
           a == object[x].onMarket
<1>1. calls \in Seq(Call) /\ calls # <<>> /\ c = Head(calls)
  BY DEF Telling, IInv, ExchangeTypeOK
<1>2. x \in Ids /\ c.qty \in Nat /\ c.qty > 0
  BY CallsAfterOne
<1>3. Owes(x, calls, a, open[x])
  BY <1>2 DEF IInv, Balanced
<1>4. AfterCall(a, c, x) = a - c.qty
  BY DEF AfterCall
<1> HIDE DEF x, a
<1>5. a \in Nat /\ AfterCall(a, Head(calls), x) \in Nat
  BY <1>1, <1>3, LedgerTail
<1>6. c.qty <= a /\ a > 0
  BY <1>1, <1>2, <1>4, <1>5
<1> QED
  BY <1>5, <1>6 DEF x, a

(* A call leaves the queue, and the rows of other orders. *)
LEMMA OrdersAfterCall ==
  ASSUME ExchangeAssumption, IInv, NEW c, Telling(c),
         \A o \in Ids \ {c.order} : row'[o] = row[o],
         row'[c.order].status # "none"
  PROVE  Phases' /\ RowsPlaced' /\ RowsExist' /\ ResultStands' /\ QueueStands'
<1>1. Has(c.order) /\ c.order \in Ids
  BY CallsAfterOne
<1>2. /\ UNCHANGED <<placed, server, result, known, queue, open, adding, matching>>
      /\ calls # <<>>
  BY DEF Telling
<1>3. \A o : Has(o)' <=> Has(o)
  BY <1>2 DEF Has
<1>4. \A o \in Ids : row[o].status # "none" => row'[o].status # "none"
  BY <1>1
<1>5. Phases' /\ QueueStands'
  BY <1>2, <1>3 DEF IInv, Phases, Resting, QueueStands, Has
<1>6. RowsPlaced' /\ RowsExist'
  <2>1. \A k \in DOMAIN placed : placed[k] \in Ids
    <3>1. placed \in Seq(Ids)
      BY DEF IInv, ExchangeTypeOK
    <3> QED
      BY <3>1
  <2> QED
    BY <1>2, <1>3, <1>4, <2>1 DEF IInv, RowsPlaced, RowsExist
<1>7. ResultStands'
  <2>1. ASSUME NEW k \in DOMAIN result
        PROVE  RowStands(result[k])'
    <3>1. RowStands(result[k]) /\ result[k].order \in Ids
      BY MembersTypes DEF IInv, ResultStands
    <3>2. result[k].order # c.order
      BY <1>1, <3>1 DEF RowStands
    <3>3. row'[result[k].order] = row[result[k].order]
      BY <3>1, <3>2
    <3> QED
      BY <1>2, <3>1, <3>3 DEF RowStands, Has
  <2> QED
    BY <1>2, <2>1 DEF IInv, ResultStands
<1> QED
  BY <1>5, <1>6, <1>7

(* What a call changes of its order, and nothing of the others. *)
OnlyChanges(x) ==
  /\ \A o \in Ids \ {x} : /\ row'[o] = row[o] /\ object'[o] = object[o] /\ traded'[o] = traded[o]
                          /\ o \in behind' <=> o \in behind
  /\ excused \subseteq excused'

(* What is said of the rows and of the trades has to be shown of the order *)
(* that is called alone.                                                   *)
LEMMA OthersAfterCall ==
  ASSUME ExchangeAssumption, IInv, NEW c, Telling(c), OnlyChanges(c.order),
         c.order \notin behind' => RowSays(c.order)',
         c.order \notin excused' => TradesWithin(c.order)'
  PROVE  /\ RowsAgree' /\ TradedOnce'
         /\ \A o \in Ids \ {c.order} : Choices(o)' \subseteq Choices(o)
<1>1. /\ \A o : ~AcceptDue(o)' /\ (o # c.order => ~AcceptDue(o))
      /\ \A o : Has(o)' <=> Has(o)
  BY CallsAfterOne DEF AcceptDue, Telling, Has
<1>2. \A o \in Ids \ {c.order} :
         /\ row'[o] = row[o] /\ object'[o] = object[o] /\ traded'[o] = traded[o]
         /\ o \in behind' <=> o \in behind
         /\ o \in excused => o \in excused'
  BY DEF OnlyChanges
<1>3. RowsAgree'
  <2>1. ASSUME NEW o \in Ids, Has(o)', o \notin behind', o # c.order
        PROVE  RowSays(o)'
    <3>1. RowSays(o)
      BY <1>1, <1>2, <2>1 DEF IInv, RowsAgree
    <3> QED
      BY <1>2, <2>1, <3>1 DEF RowSays, Live
  <2> QED
    BY <2>1 DEF RowsAgree
<1>4. TradedOnce'
  <2>1. ASSUME NEW o \in Ids, o \notin excused', o # c.order
        PROVE  TradesWithin(o)'
    <3>1. TradesWithin(o)
      BY <1>2, <2>1 DEF IInv, TradedOnce
    <3> QED
      BY <1>1, <1>2, <2>1, <3>1 DEF TradesWithin
  <2> QED
    BY <2>1 DEF TradedOnce
<1>5. ASSUME NEW o \in Ids \ {c.order}
      PROVE  Choices(o)' \subseteq Choices(o)
  <2>1. row'[o] = row[o] /\ object'[o] = object[o] /\ (o \in behind' <=> o \in behind)
    BY <1>2
  <2>2. Booked(o)' = Booked(o)
    BY <2>1 DEF Booked
  <2> QED
    BY <2>1, <2>2 DEF Choices
<1> QED
  BY <1>3, <1>4, <1>5

(* An order is told that it was accepted. *)
Accepting(c) ==
  /\ Telling(c) /\ c.kind = "accept"
  /\ object' = [object EXCEPT ![c.order] = OnAccepted(@, c.qty)]
  /\ IF StartsAnew(c.order)
     THEN /\ behind' = behind \cup {c.order} /\ excused' = excused \cup {c.order}
          /\ lost' = lost + Booked(c.order)
     ELSE UNCHANGED <<behind, excused, lost>>
  /\ UNCHANGED <<row, traded, failures>>

(* If it does not start anew, its row says what it is accepted with. *)
LEMMA AcceptedFromRow ==
  ASSUME ExchangeAssumption, IInv, NEW c, Accepting(c)
  PROVE  /\ ~StartsAnew(c.order) => Live(c.order) /\ Units(row[c.order].amount) = c.qty
         /\ StartsAnew(c.order) => c.qty = Units(Amount[c.order])
         /\ c.order \in Ids /\ c.order \notin behind /\ Has(c.order)
         /\ c.qty \in Nat /\ c.qty > 0 /\ c.qty <= Units(Amount[c.order])
         /\ Booked(c.order) \in 0..Units(Amount[c.order])
<1> DEFINE x == c.order
<1>1. Telling(c) /\ c.kind = "accept" /\ calls # <<>>
  BY DEF Accepting, Telling
<1>2. AcceptStands(x, c.qty) /\ Has(x) /\ x \in Ids /\ c.qty \in Nat
  BY <1>1, CallsAfterOne
<1>3. x \notin behind /\ c.qty > 0 /\ c.qty <= Units(Amount[x])
  BY <1>2 DEF AcceptStands
<1>4. server \in {"loading", "serving"}
  BY <1>1 DEF IInv, Phases, ExchangeTypeOK
<1>5. Units(Amount[x]) \in Nat /\ Units(row[x].amount) \in Nat /\ Units(row[x].amount) <= Units(Amount[x])
  BY <1>2, ChoicesType DEF IInv, Within
<1>6. Booked(x) \in 0..Units(Amount[x])
  BY <1>5 DEF Booked
<1>7. ASSUME ~StartsAnew(x)
      PROVE  Live(x) /\ Units(row[x].amount) = c.qty
  <2>1. CASE server = "loading"
    BY <1>2, <2>1 DEF AcceptStands
  <2>2. CASE server = "serving"
    <3>1. c.qty = Units(Amount[x])
      BY <1>2, <2>2 DEF AcceptStands
    <3>2. row[x].status \notin Final /\ ~(Booked(x) > 0)
      BY <1>7, <2>2 DEF StartsAnew
    <3>3. row[x].status \in {"Pending", "Processing"}
      BY <1>2, <3>2 DEF IInv, RowsExist, ExchangeTypeOK, Final
    <3>4. Booked(x) = Units(Amount[x]) - Units(row[x].amount)
      BY <3>3 DEF Booked
    <3>5. Units(row[x].amount) = Units(Amount[x])
      BY <1>5, <3>2, <3>4
    <3> QED
      BY <1>3, <3>1, <3>3, <3>5 DEF Live
  <2> QED
    BY <1>4, <2>1, <2>2
<1>8. StartsAnew(x) => c.qty = Units(Amount[x])
  BY <1>2 DEF AcceptStands, StartsAnew
<1> QED
  BY <1>2, <1>3, <1>6, <1>7, <1>8

(* The acceptance of an order is told, and its row is written. *)
LEMMA AcceptKeepsIInv ==
  ASSUME ExchangeAssumption, IInv, NEW c, Accepting(c)
  PROVE  IInv'
<1> DEFINE x == c.order
           A == Units(Amount[x])
<1>1. /\ ~StartsAnew(x) => Live(x) /\ Units(row[x].amount) = c.qty
      /\ StartsAnew(x) => c.qty = A
      /\ x \in Ids /\ x \notin behind /\ Has(x)
      /\ c.qty \in Nat /\ c.qty > 0 /\ c.qty <= A /\ Booked(x) \in 0..A
  BY AcceptedFromRow
<1>2. /\ Telling(c) /\ c.kind = "accept"
      /\ object' = [object EXCEPT ![x] = OnAccepted(@, c.qty)]
      /\ UNCHANGED <<row, traded, failures>>
      /\ \/ /\ StartsAnew(x) /\ behind' = behind \cup {x} /\ excused' = excused \cup {x}
            /\ lost' = lost + Booked(x)
         \/ ~StartsAnew(x) /\ UNCHANGED <<behind, excused, lost>>
  BY DEF Accepting
<1>3. UNCHANGED <<placed, server, result, known, queue, open, adding, matching, requests, crashes>>
  BY <1>2 DEF Telling
<1>4. A \in Nat /\ Units(row[x].amount) \in Nat /\ Units(row[x].amount) <= A
  BY <1>1, ChoicesType DEF IInv, Within
<1>5. /\ object' \in [Ids -> [status : {"", "Pending", "Processing"}, state : State, onMarket : Nat]]
      /\ object'[x].onMarket = c.qty /\ \A o \in Ids \ {x} : object'[o] = object[o]
  <2>1. object \in [Ids -> [status : {"", "Pending", "Processing"}, state : State, onMarket : Nat]]
    BY DEF IInv, ExchangeTypeOK
  <2>2. OnAccepted(object[x], c.qty) \in
          [status : {"", "Pending", "Processing"}, state : State, onMarket : Nat]
        /\ OnAccepted(object[x], c.qty).onMarket = c.qty
    BY <1>1, <2>1 DEF OnAccepted, State
  <2> QED
    BY <1>1, <1>2, <2>1, <2>2
<1>6. /\ calls' \in Seq(Call) /\ CallsStand' /\ Paired' /\ Due' = Due /\ Due \in Int
      /\ \A o : Has(o)' <=> Has(o)
  <2>1. /\ calls' \in Seq(Call) /\ CallsStand' /\ Paired' /\ Due' = Due - 0 /\ Due \in Int
    BY <1>2, CallsAfterOne, DueType DEF IInv
  <2> QED
    BY <1>3, <2>1 DEF Has
<1> HIDE DEF A
<1>7. lost \in Nat /\ lost' \in Nat
  <2>1. lost \in Nat
    BY DEF IInv, ExchangeTypeOK
  <2> QED
    BY <1>1, <1>2, <1>4, <2>1
<1>8. ExchangeTypeOK'
  <2>1. behind' \in SUBSET Ids /\ excused' \in SUBSET Ids
    BY <1>1, <1>2 DEF IInv, ExchangeTypeOK
  <2> QED
    BY <1>2, <1>3, <1>5, <1>6, <1>7, <2>1 DEF IInv, ExchangeTypeOK
<1>9. Phases' /\ RowsPlaced' /\ RowsExist' /\ ResultStands' /\ QueueStands'
  <2>1. row[x].status # "none"
    BY <1>1 DEF IInv, RowsExist
  <2> QED
    BY <1>2, <2>1, OrdersAfterCall
<1>10. Within'
  <2>1. \A o \in Ids : object'[o].onMarket <= Units(Amount[o])
    BY <1>1, <1>5 DEF IInv, Within, A
  <2>2. \A o \in behind' : Has(o)
    BY <1>1, <1>2 DEF IInv, Within
  <2> QED
    BY <1>2, <1>6, <2>1, <2>2 DEF IInv, Within
<1>11. Balanced'
  <2>1. \A o \in Ids : object'[o].onMarket = AfterCall(object[o].onMarket, c, o)
    BY <1>2, <1>5 DEF AfterCall
  <2> QED
    BY <1>2, <2>1, CallBalances
<1>12. /\ RowsAgree' /\ TradedOnce'
       /\ \A o \in Ids \ {x} : Choices(o)' \subseteq Choices(o)
  <2>1. OnlyChanges(x)
    BY <1>2, <1>5 DEF OnlyChanges
  <2>2. ASSUME x \notin behind'
        PROVE  RowSays(x)'
    <3>1. Live(x) /\ Units(row[x].amount) = c.qty
      BY <1>1, <1>2, <2>2
    <3>2. Live(x)' /\ row'[x] = row[x]
      BY <1>2, <3>1 DEF Live
    <3>3. object'[x].onMarket = c.qty /\ c.qty # 0
      <4>1. c.qty \in Nat /\ c.qty > 0
        BY <1>1
      <4>2. c.qty # 0
        BY ONLY <4>1
      <4> QED
        BY <1>5, <4>2
    <3> QED
      BY <3>1, <3>2, <3>3 DEF RowSays
  <2>3. ASSUME x \notin excused'
        PROVE  TradesWithin(x)'
    <3>1. /\ ~StartsAnew(x) /\ x \notin excused
          /\ Live(x) /\ Units(row[x].amount) = c.qty /\ row[x].status \notin Final
      BY <1>1, <1>2, <2>3 DEF Live, Final
    <3>2. TradesWithin(x)
      BY <1>1, <3>1 DEF IInv, TradedOnce
    <3>3. traded[x] <= A /\ traded[x] + c.qty <= A /\ traded[x] + Units(row[x].amount) <= A
      BY <1>1, <3>1, <3>2 DEF TradesWithin, A
    <3> QED
      BY <1>2, <1>5, <3>3 DEF TradesWithin, A
  <2> QED
    BY <1>2, <2>1, <2>2, <2>3, OthersAfterCall
<1>13. SidesInv'
  <2>1. Booked(x)' = Booked(x)
    BY <1>2 DEF Booked
  <2>2. ASSUME NEW v \in Choices(x)'
        PROVE  v - Booked(x) \in -(lost' - lost)..(lost' - lost)
    <3>1. CASE StartsAnew(x)
      <4>1. lost' = lost + Booked(x)
        BY <1>2, <3>1
      <4>2. v = Booked(x) \/ v = A - c.qty \/ v = A - Units(row[x].amount)
        BY <1>2, <1>5, <2>1, <2>2 DEF Choices, A
      <4>3. Booked(x) = A \/ Booked(x) = A - Units(row[x].amount)
        BY <1>4 DEF Booked, A
      <4> HIDE DEF x
      <4> QED
        BY <1>1, <1>4, <1>7, <3>1, <4>1, <4>2, <4>3
    <3>2. CASE ~StartsAnew(x)
      <4>1. v = Booked(x) /\ lost' = lost
        BY <1>1, <1>2, <2>1, <2>2, <3>2 DEF Choices
      <4> QED
        BY <1>1, <1>7, <4>1
    <3> QED
      BY <3>1, <3>2
  <2>3. ASSUME NEW v \in Choices(x)'
        PROVE  \E w \in Choices(x) :
                 Signed(x, v - w) + Due' - Due \in -(lost' - lost)..(lost' - lost)
    <3>1. Booked(x) \in Choices(x)
      BY DEF Choices
    <3>2. Signed(x, v - Booked(x)) + Due' - Due \in -(lost' - lost)..(lost' - lost)
      <4> DEFINE g == v - Booked(x)
                 e == lost' - lost
      <4>1. g \in -e..e /\ e \in Int
        BY <1>7, <2>2
      <4>2. g \in Int
        BY <4>1
      <4> HIDE DEF g, e
      <4>3. Signed(x, g) \in -e..e
        BY <4>1, <4>2 DEF Signed
      <4>4. Signed(x, g) + Due' - Due \in -e..e
        BY <1>6, <4>1, <4>3
      <4> QED
        BY <4>4 DEF g, e
    <3> QED
      BY <3>1, <3>2
  <2>4. SidesMove(x)
    BY <1>6, <1>7, <1>12, <2>3 DEF SidesMove
  <2> QED
    BY <1>1, <2>4, SidesStep DEF IInv
<1> QED
  BY <1>6, <1>8, <1>9, <1>10, <1>11, <1>12, <1>13 DEF IInv

(* An order is told of a fill or a cancel: its object becomes y, and its   *)
(* row follows unless the statement fails and qty is lost.                 *)
Updating(c, y, qty) ==
  /\ Telling(c) /\ c.kind # "accept"
  /\ object' = [object EXCEPT ![c.order] = y]
  /\ \/ /\ row' = [row EXCEPT ![c.order] = Written(@, y)]
        /\ behind' = behind \ {c.order}
        /\ UNCHANGED <<lost, failures>>
     \/ /\ failures' = failures + 1
        /\ behind' = behind \cup {c.order}
        /\ lost' = lost + qty
        /\ UNCHANGED row
  /\ UNCHANGED excused

(* What has to be shown of the order. *)
UpdateStands(c, y) ==
  /\ y \in [status : {"", "Pending", "Processing"}, state : State, onMarket : Nat]
  /\ y.onMarket = AfterCall(object[c.order].onMarket, c, c.order)
  /\ y.onMarket <= Units(Amount[c.order])
  /\ traded' \in [Ids -> Nat] /\ \A o \in Ids \ {c.order} : traded'[o] = traded[o]
  /\ Written(row[c.order], y)
       \in [status : {"none", "Pending", "Processing"} \cup Final, amount : Nat]
  /\ Written(row[c.order], y).status # "none"
  /\ Units(Written(row[c.order], y).amount) <= Units(Amount[c.order])
  /\ c.order \notin behind' => RowSays(c.order)'
  /\ c.order \notin excused => TradesWithin(c.order)'
  /\ \A v \in Choices(c.order)' : \E w \in Choices(c.order) :
       Signed(c.order, v - w) + Due' - Due \in -(lost' - lost)..(lost' - lost)

(* A fill or a cancel is told, and the row of its order is updated. *)
LEMMA UpdateKeepsIInv ==
  ASSUME ExchangeAssumption, IInv, NEW c, NEW y, NEW qty \in Nat,
         Updating(c, y, qty), UpdateStands(c, y)
  PROVE  IInv'
<1> DEFINE x == c.order
           R == [status : {"none", "Pending", "Processing"} \cup Final, amount : Nat]
<1>1. /\ Telling(c) /\ c.kind # "accept" /\ excused' = excused
      /\ object' = [object EXCEPT ![x] = y]
      /\ \/ /\ row' = [row EXCEPT ![x] = Written(@, y)] /\ behind' = behind \ {x}
            /\ UNCHANGED <<lost, failures>>
         \/ /\ row' = row /\ failures' = failures + 1 /\ behind' = behind \cup {x}
            /\ lost' = lost + qty
  BY DEF Updating
<1>2. /\ UNCHANGED <<placed, server, result, known, queue, open, adding, matching, requests, crashes>>
  BY <1>1 DEF Telling
<1>3. /\ x \in Ids /\ Has(x) /\ calls' \in Seq(Call) /\ CallsStand' /\ Paired'
      /\ \A o : Has(o)' <=> Has(o)
  BY <1>1, <1>2, CallsAfterOne DEF Has
<1>4. /\ object' \in [Ids -> [status : {"", "Pending", "Processing"}, state : State, onMarket : Nat]]
      /\ object'[x] = y /\ \A o \in Ids \ {x} : object'[o] = object[o]
  BY <1>1, <1>3 DEF UpdateStands, IInv, ExchangeTypeOK
<1>5. /\ row' \in [Ids -> R] /\ \A o \in Ids \ {x} : row'[o] = row[o]
      /\ row'[x] = row[x] \/ row'[x] = Written(row[x], y)
  <2>1. row \in [Ids -> R]
    BY DEF IInv, ExchangeTypeOK
  <2>2. Written(row[x], y) \in R
    BY DEF UpdateStands
  <2> HIDE DEF R
  <2> QED
    BY <1>1, <1>3, <2>1, <2>2
<1>6. lost \in Nat /\ lost' \in Nat /\ failures' \in Nat
  <2>1. lost \in Nat /\ failures \in Nat
    BY DEF IInv, ExchangeTypeOK
  <2> QED
    BY <1>1, <2>1
<1>7. ExchangeTypeOK'
  <2>1. behind' \in SUBSET Ids
    BY <1>1, <1>3 DEF IInv, ExchangeTypeOK
  <2>2. traded' \in [Ids -> Nat]
    BY DEF UpdateStands
  <2> QED
    BY <1>1, <1>2, <1>3, <1>4, <1>5, <1>6, <2>1, <2>2 DEF IInv, ExchangeTypeOK
<1> HIDE DEF R
<1>8. Phases' /\ RowsPlaced' /\ RowsExist' /\ ResultStands' /\ QueueStands'
  <2>1. row'[x].status # "none"
    BY <1>3, <1>5 DEF IInv, RowsExist, UpdateStands
  <2> QED
    BY <1>1, <1>5, <2>1, OrdersAfterCall
<1>9. Within'
  <2>1. \A o \in Ids : Units(row'[o].amount) <= Units(Amount[o])
    BY <1>5 DEF IInv, Within, UpdateStands
  <2>2. \A o \in Ids : object'[o].onMarket <= Units(Amount[o])
    BY <1>4 DEF IInv, Within, UpdateStands
  <2>3. \A o \in behind' : Has(o)
    BY <1>1, <1>3 DEF IInv, Within
  <2> QED
    BY <1>3, <2>1, <2>2, <2>3 DEF Within
<1>10. Balanced'
  <2>1. \A o \in Ids : object'[o].onMarket = AfterCall(object[o].onMarket, c, o)
    BY <1>4 DEF AfterCall, UpdateStands
  <2> QED
    BY <1>1, <2>1, CallBalances
<1>11. /\ RowsAgree' /\ TradedOnce'
       /\ \A o \in Ids \ {x} : Choices(o)' \subseteq Choices(o)
  <2>1. OnlyChanges(x)
    BY <1>1, <1>4, <1>5 DEF OnlyChanges, UpdateStands
  <2>2. /\ x \notin behind' => RowSays(x)'
        /\ x \notin excused' => TradesWithin(x)'
    BY <1>1 DEF UpdateStands
  <2> QED
    BY <1>1, <2>1, <2>2, OthersAfterCall
<1>12. SidesInv'
  <2>1. Due \in Int /\ Due' \in Int
    <3>1. Due \in Int
      BY DueType DEF IInv
    <3>2. Due' = Due - IF c.kind = "fill" THEN Signed(c.order, c.qty) ELSE 0
      BY <1>1, CallsAfterOne
    <3>3. Signed(c.order, c.qty) \in Int
      BY <1>1, CallsAfterOne DEF Signed
    <3> QED
      BY <3>1, <3>2, <3>3
  <2>2. SidesMove(x)
    BY <1>6, <1>11, <2>1 DEF SidesMove, UpdateStands
  <2> QED
    BY <1>3, <2>2, SidesStep DEF IInv
<1> QED
  BY <1>3, <1>7, <1>8, <1>9, <1>10, <1>11, <1>12 DEF IInv

(* What is to be shown of an order that is told of a fill. *)
LEMMA FillStands ==
  ASSUME ExchangeAssumption, IInv, NEW c, NEW y,
         c.kind = "fill", y = OnFilled(object[c.order], c.qty), Updating(c, y, c.qty),
         traded' = [traded EXCEPT ![c.order] = @ + c.qty]
  PROVE  UpdateStands(c, y)
<1> DEFINE x == c.order
           q == c.qty
           n == object[x].onMarket
           A == Units(Amount[x])
           r == row[x]
<1>1. /\ Telling(c) /\ excused' = excused /\ object' = [object EXCEPT ![x] = y]
      /\ \/ /\ row' = [row EXCEPT ![x] = Written(@, y)] /\ behind' = behind \ {x}
            /\ UNCHANGED <<lost, failures>>
         \/ /\ row' = row /\ failures' = failures + 1 /\ behind' = behind \cup {x}
            /\ lost' = lost + q
  BY DEF Updating
<1>2. /\ x \in Ids /\ Has(x) /\ q \in Nat /\ q > 0
      /\ Due' = Due - Signed(x, q)
      /\ n \in Nat /\ q <= n /\ n > 0
  BY <1>1, CallsAfterOne, FillIsCovered
<1>3. /\ A \in Nat /\ Units(r.amount) \in Nat /\ Units(r.amount) <= A /\ n <= A
      /\ r \in [status : {"none", "Pending", "Processing"} \cup Final, amount : Nat]
      /\ r.status # "none"
  <2>1. r \in [status : {"none", "Pending", "Processing"} \cup Final, amount : Nat]
    BY <1>2 DEF IInv, ExchangeTypeOK
  <2> QED
    BY <1>2, <2>1, ChoicesType DEF IInv, Within, RowsExist
<1>4. x \notin behind => Live(x) /\ Units(r.amount) = n
  <2>1. ~AcceptDue(x)
    BY <1>1 DEF AcceptDue, Telling
  <2> QED
    BY <1>2, <2>1 DEF IInv, RowsAgree, RowSays
<1>5. /\ y.onMarket = n - q /\ n - q \in Nat /\ n - q <= A
      /\ y.state = IF n > q THEN "PartialFilled" ELSE "Filled"
      /\ y \in [status : {"", "Pending", "Processing"}, state : State, onMarket : Nat]
  <2>1. n - q \in Nat /\ n - q <= A
    BY <1>2, <1>3
  <2>2. object[x] \in [status : {"", "Pending", "Processing"}, state : State, onMarket : Nat]
    BY <1>2 DEF IInv, ExchangeTypeOK
  <2>3. /\ y.onMarket = n - q
        /\ y.state = IF n > q THEN "PartialFilled" ELSE "Filled"
        /\ y \in [status : {"", "Pending", "Processing"}, state : State, onMarket : Nat]
    BY <2>1, <2>2 DEF OnFilled, State
  <2> QED
    BY <2>1, <2>3
<1>6. y.onMarket = AfterCall(n, c, x)
  BY <1>5 DEF AfterCall
<1>7. /\ traded \in [Ids -> Nat] /\ traded' \in [Ids -> Nat] /\ traded'[x] = traded[x] + q
      /\ \A o \in Ids \ {x} : traded'[o] = traded[o]
  <2>1. traded \in [Ids -> Nat] /\ traded' = [traded EXCEPT ![x] = @ + q]
    BY DEF IInv, ExchangeTypeOK
  <2> HIDE DEF x, q
  <2> QED
    BY <1>2, <2>1
<1> DEFINE s == Written(r, y)
<1>8. \/ /\ n > q /\ s = [status |-> "Processing", amount |-> (n - q) * Unit]
      \/ /\ n = q /\ s = [r EXCEPT !.status = "Completed"]
  <2>1. CASE n > q
    <3>1. y.state = "PartialFilled" /\ y.onMarket = n - q
      BY <1>5, <2>1
    <3>2. s = [status |-> "Processing", amount |-> y.onMarket * Unit]
      BY <3>1 DEF Written
    <3> QED
      BY <2>1, <3>1, <3>2
  <2>2. CASE ~(n > q)
    <3>1. y.state = "Filled"
      BY <1>5, <2>2
    <3>2. s = [r EXCEPT !.status = "Completed"]
      BY <3>1 DEF Written
    <3> QED
      BY <1>2, <2>2, <3>2
  <2> QED
    BY <2>1, <2>2
<1>9. /\ s \in [status : {"none", "Pending", "Processing"} \cup Final, amount : Nat]
      /\ s.status # "none" /\ Units(s.amount) \in Nat /\ Units(s.amount) <= A
      /\ \/ n > q /\ s.status = "Processing" /\ Units(s.amount) = n - q
         \/ n = q /\ s.status = "Completed"
  <2>1. CASE n > q /\ s = [status |-> "Processing", amount |-> (n - q) * Unit]
    <3> DEFINE a == (n - q) * Unit
    <3>1. a \in Nat /\ Units(a) = n - q
      BY <1>5, UnitsAreQuantities
    <3>2. s = [status |-> "Processing", amount |-> a]
      BY <2>1
    <3> HIDE DEF a, s
    <3>3. s.status = "Processing" /\ s.amount = a
      BY <3>2
    <3>4. s \in [status : {"none", "Pending", "Processing"} \cup Final, amount : Nat]
      BY <3>1, <3>2
    <3> QED
      BY <1>5, <2>1, <3>1, <3>3, <3>4
  <2>2. CASE n = q /\ s = [r EXCEPT !.status = "Completed"]
    <3>1. s.amount = r.amount /\ s.status = "Completed"
      BY <1>3, <2>2
    <3>2. s \in [status : {"none", "Pending", "Processing"} \cup Final, amount : Nat]
      BY <1>3, <2>2 DEF Final
    <3> QED
      BY <1>3, <2>2, <3>1, <3>2
  <2> QED
    BY <1>8, <2>1, <2>2
<1>10. /\ object'[x].onMarket = n - q
       /\ \/ row'[x] = s /\ behind' = behind \ {x} /\ lost' = lost
          \/ row'[x] = r /\ behind' = behind \cup {x} /\ lost' = lost + q
  <2>1. object'[x] = y
    BY <1>1, <1>2 DEF IInv, ExchangeTypeOK
  <2>2. row \in [Ids -> [status : {"none", "Pending", "Processing"} \cup Final, amount : Nat]]
    BY DEF IInv, ExchangeTypeOK
  <2>3. row' = [row EXCEPT ![x] = Written(@, y)] => row'[x] = s
    BY <1>2, <2>2
  <2>4. object'[x].onMarket = n - q
    BY <1>5, <2>1
  <2> HIDE DEF s, n
  <2> QED
    BY <1>1, <2>3, <2>4
<1> HIDE DEF x, q, n, A, r, s
<1>11. ASSUME x \notin behind'
       PROVE  RowSays(x)'
  <2>1. row'[x] = s
    BY <1>10, <1>11
  <2>2. CASE n > q
    <3>1. s.status = "Processing" /\ Units(s.amount) = n - q /\ n - q # 0 /\ n - q > 0
      BY <1>2, <1>9, <2>2
    <3> QED
      BY <1>10, <2>1, <3>1 DEF RowSays, Live
  <2>3. CASE n = q
    <3>1. s.status = "Completed" /\ n - q = 0
      BY <1>2, <1>9, <2>3
    <3> QED
      BY <1>10, <2>1, <3>1 DEF RowSays, Live
  <2> QED
    BY <1>9, <2>2, <2>3
<1>12. ASSUME x \notin excused
       PROVE  TradesWithin(x)'
  <2>1. TradesWithin(x) /\ ~AcceptDue(x)
    BY <1>1, <1>2, <1>12 DEF IInv, TradedOnce, AcceptDue, Telling, x
  <2>2. traded[x] + n <= A /\ traded[x] \in Nat
    BY <1>2, <1>7, <2>1 DEF TradesWithin, n, A
  <2>3. traded[x] + q <= A /\ traded[x] + q + (n - q) <= A
    BY <1>2, <1>3, <2>2
  <2>4. ASSUME x \notin behind', row'[x].status \notin Final
        PROVE  traded'[x] + Units(row'[x].amount) <= A
    <3>1. row'[x] = s
      BY <1>10, <2>4
    <3>2. s.status # "Completed"
      BY <2>4, <3>1 DEF Final
    <3>3. Units(s.amount) = n - q
      BY <1>9, <3>2
    <3> QED
      BY <1>7, <2>3, <3>1, <3>3
  <2> QED
    BY <1>7, <1>10, <2>3, <2>4 DEF TradesWithin, A
<1>13. Booked(x) = A - IF r.status = "Completed" THEN 0 ELSE Units(r.amount)
  BY DEF Booked, A, r
<1>14. A - n \in Choices(x) /\ Booked(x) \in Choices(x)
       /\ (x \in behind => A - Units(r.amount) \in Choices(x))
       /\ (x \notin behind => A - Units(r.amount) = Booked(x))
  <2>1. CASE x \in behind
    BY <1>2, <2>1 DEF Choices, A, n, r
  <2>2. CASE x \notin behind
    <3>1. Units(r.amount) = n /\ r.status # "Completed"
      BY <1>4, <2>2 DEF Live, r
    <3>2. Booked(x) = A - n
      BY <1>13, <3>1
    <3> QED
      BY <2>2, <3>1, <3>2 DEF Choices
  <2> QED
    BY <2>1, <2>2
<1>15. ASSUME NEW v \in Choices(x)'
       PROVE  \/ v - q \in Choices(x) /\ v \in Int
              \/ lost' = lost + q /\ v \in Choices(x) /\ v \in Int
  <2>1. CASE row'[x] = s /\ behind' = behind \ {x}
    <3>1. v = Booked(x)'
      BY <2>1 DEF Choices
    <3>2. Booked(x)' = A - IF s.status = "Completed" THEN 0 ELSE Units(s.amount)
      BY <2>1 DEF Booked, A
    <3>3. v = A - (n - q)
      BY <1>2, <1>3, <1>9, <3>1, <3>2
    <3>4. v - q = A - n /\ v \in Int
      BY <1>2, <1>3, <3>3
    <3> QED
      BY <1>14, <3>4
  <2>2. CASE row'[x] = r /\ behind' = behind \cup {x} /\ lost' = lost + q
    <3>1. Booked(x)' = Booked(x)
      BY <1>13, <2>2 DEF Booked, A
    <3>2. v = Booked(x) \/ v = A - (n - q) \/ v = A - Units(r.amount)
      BY <1>10, <2>2, <3>1 DEF Choices, A
    <3>3. Booked(x) \in Int /\ A - Units(r.amount) \in Int
      BY <1>3, <1>13
    <3>4. CASE v = A - (n - q)
      <4>1. v - q = A - n /\ v \in Int
        BY <1>2, <1>3, <3>4
      <4> QED
        BY <1>14, <4>1
    <3>5. CASE v = Booked(x) \/ v = A - Units(r.amount)
      BY <1>14, <2>2, <3>3, <3>5
    <3> QED
      BY <3>2, <3>4, <3>5
  <2> QED
    BY <1>10, <2>1, <2>2
<1>16. ASSUME NEW v \in Choices(x)'
       PROVE  \E w \in Choices(x) :
                Signed(x, v - w) + Due' - Due \in -(lost' - lost)..(lost' - lost)
  <2>0. lost \in Nat /\ Due \in Int /\ (lost' = lost \/ lost' = lost + q)
    BY <1>10, DueType DEF IInv, ExchangeTypeOK
  <2>1. Due' - Due = -Signed(x, q)
    <3>1. Signed(x, q) \in Int
      BY <1>2 DEF Signed
    <3> QED
      BY <1>2, <2>0, <3>1
  <2>2. CASE v - q \in Choices(x) /\ v \in Int
    <3>1. v - (v - q) = q /\ Signed(x, q) \in Int
      BY <1>2, <2>2 DEF Signed
    <3>2. Signed(x, v - (v - q)) + Due' - Due = 0
      BY <1>2, <2>0, <3>1
    <3>3. 0 \in -(lost' - lost)..(lost' - lost)
      BY <1>2, <2>0
    <3> QED
      BY <2>2, <3>2, <3>3
  <2>3. CASE lost' = lost + q /\ v \in Choices(x) /\ v \in Int
    <3>1. /\ Signed(x, v - v) = 0 /\ Signed(x, q) \in Int
          /\ -Signed(x, q) \in -q..q
      <4>1. v - v = 0 /\ v - v \in Int /\ q \in Int /\ q >= 0
        BY <1>2, <2>3
      <4> QED
        BY <4>1, SignedType
    <3>2. Signed(x, v - v) + Due' - Due = -Signed(x, q) /\ lost' - lost = q
      BY <1>2, <2>0, <2>3, <3>1
    <3> QED
      BY <2>3, <3>1, <3>2
  <2> QED
    BY <1>15, <2>2, <2>3
<1>17. /\ y.onMarket = AfterCall(object[x].onMarket, c, x)
       /\ y.onMarket <= Units(Amount[x])
  BY <1>5, <1>6 DEF n, A
<1>18. /\ Written(row[x], y) \in [status : {"none", "Pending", "Processing"} \cup Final, amount : Nat]
       /\ Written(row[x], y).status # "none"
       /\ Units(Written(row[x], y).amount) <= Units(Amount[x])
  BY <1>9 DEF s, r, A
<1> QED
  BY <1>5, <1>7, <1>11, <1>12, <1>16, <1>17, <1>18 DEF UpdateStands, x

(* What is to be shown of an order that is told of a cancel. *)
LEMMA CancelStands ==
  ASSUME ExchangeAssumption, IInv, NEW c, NEW y,
         c.kind = "cancel", y = OnCancelled(object[c.order]), Updating(c, y, 0),
         UNCHANGED traded
  PROVE  UpdateStands(c, y)
<1> DEFINE x == c.order
           n == object[x].onMarket
           A == Units(Amount[x])
           r == row[x]
           s == Written(r, y)
<1>1. /\ Telling(c) /\ excused' = excused /\ object' = [object EXCEPT ![x] = y]
      /\ \/ /\ row' = [row EXCEPT ![x] = Written(@, y)] /\ behind' = behind \ {x}
            /\ UNCHANGED <<lost, failures>>
         \/ /\ row' = row /\ failures' = failures + 1 /\ behind' = behind \cup {x}
            /\ lost' = lost + 0
  BY DEF Updating
<1>2. x \in Ids /\ Has(x) /\ Due' = Due - 0 /\ n > 0
  BY <1>1, CallsAfterOne
<1>3. /\ A \in Nat /\ Units(r.amount) \in Nat /\ Units(r.amount) <= A /\ n \in Nat
      /\ r \in [status : {"none", "Pending", "Processing"} \cup Final, amount : Nat]
  <2>1. r \in [status : {"none", "Pending", "Processing"} \cup Final, amount : Nat]
    BY <1>2 DEF IInv, ExchangeTypeOK
  <2> QED
    BY <1>2, <2>1, ChoicesType DEF IInv, Within
<1>4. x \notin behind => Live(x)
  <2>1. ~AcceptDue(x)
    BY <1>1 DEF AcceptDue, Telling
  <2> QED
    BY <1>2, <2>1 DEF IInv, RowsAgree, RowSays
<1>5. /\ y.onMarket = 0 /\ y.state = "Cancelled"
      /\ y \in [status : {"", "Pending", "Processing"}, state : State, onMarket : Nat]
  <2>1. object[x] \in [status : {"", "Pending", "Processing"}, state : State, onMarket : Nat]
    BY <1>2 DEF IInv, ExchangeTypeOK
  <2> QED
    BY <2>1 DEF OnCancelled, State
<1>6. y.onMarket = AfterCall(n, c, x)
  BY <1>5 DEF AfterCall
<1>7. s = [r EXCEPT !.status = "Cancelled"]
  BY <1>5 DEF Written
<1>8. /\ s \in [status : {"none", "Pending", "Processing"} \cup Final, amount : Nat]
      /\ s.status = "Cancelled" /\ s.amount = r.amount
  <2> HIDE DEF r, s
  <2> QED
    BY <1>3, <1>7 DEF Final
<1>9. /\ object'[x].onMarket = 0 /\ lost' = lost /\ lost \in Nat
      /\ \/ row'[x] = s /\ behind' = behind \ {x}
         \/ row'[x] = r /\ behind' = behind \cup {x}
  <2>1. object'[x] = y
    BY <1>1, <1>2 DEF IInv, ExchangeTypeOK
  <2>2. row \in [Ids -> [status : {"none", "Pending", "Processing"} \cup Final, amount : Nat]]
    BY DEF IInv, ExchangeTypeOK
  <2>3. row' = [row EXCEPT ![x] = Written(@, y)] => row'[x] = s
    BY <1>2, <2>2
  <2>4. lost \in Nat /\ lost + 0 = lost
    <3>1. lost \in Nat
      BY DEF IInv, ExchangeTypeOK
    <3> QED
      BY <3>1
  <2> HIDE DEF s
  <2> QED
    BY <1>1, <1>5, <2>1, <2>3, <2>4
<1> HIDE DEF x, n, A, r, s
<1>10. ASSUME x \notin behind'
       PROVE  RowSays(x)'
  <2>1. row'[x] = s
    BY <1>9, <1>10
  <2> QED
    BY <1>8, <1>9, <2>1 DEF RowSays, Live
<1>11. ASSUME x \notin excused
       PROVE  TradesWithin(x)'
  <2>1. TradesWithin(x)
    BY <1>2, <1>11 DEF IInv, TradedOnce
  <2>2. traded[x] <= A /\ traded[x] \in Nat
    BY <1>2, <2>1 DEF TradesWithin, A, IInv, ExchangeTypeOK
  <2>3. x \in behind' \/ row'[x].status \in Final
    BY <1>8, <1>9 DEF Final
  <2>4. traded[x] + 0 <= A
    BY <1>3, <2>2
  <2> QED
    BY <1>9, <2>2, <2>3, <2>4 DEF TradesWithin, A
<1>12. Booked(x) = A - IF r.status = "Completed" THEN 0 ELSE Units(r.amount)
  BY DEF Booked, A, r
<1>13. ASSUME NEW v \in Choices(x)'
       PROVE  v \in Choices(x) /\ v \in Int
  <2>1. CASE row'[x] = s /\ behind' = behind \ {x}
    <3>1. v = Booked(x)'
      BY <2>1 DEF Choices
    <3>2. Booked(x)' = A - Units(r.amount)
      BY <1>8, <2>1 DEF Booked, A
    <3>3. A - Units(r.amount) \in Choices(x)
      <4>1. CASE x \in behind
        BY <1>2, <4>1 DEF Choices, A, n, r
      <4>2. CASE x \notin behind
        <5>1. r.status # "Completed"
          BY <1>4, <4>2 DEF Live, r
        <5> QED
          BY <1>12, <5>1 DEF Choices
      <4> QED
        BY <4>1, <4>2
    <3> QED
      BY <1>3, <3>1, <3>2, <3>3
  <2>2. CASE row'[x] = r /\ behind' = behind \cup {x}
    <3>1. Booked(x)' = Booked(x)
      BY <1>12, <2>2 DEF Booked, A
    <3>2. v = Booked(x)
      BY <1>9, <3>1 DEF Choices
    <3> QED
      BY <1>3, <1>12, <3>2 DEF Choices
  <2> QED
    BY <1>9, <2>1, <2>2
<1>14. ASSUME NEW v \in Choices(x)'
       PROVE  \E w \in Choices(x) :
                Signed(x, v - w) + Due' - Due \in -(lost' - lost)..(lost' - lost)
  <2>1. v \in Choices(x) /\ Signed(x, v - v) = 0
    <3>1. v \in Choices(x) /\ v - v = 0 /\ v - v \in Int
      BY <1>13
    <3> QED
      BY <3>1, SignedType
  <2>2. Due \in Int
    BY DueType DEF IInv
  <2>3. lost' - lost = 0 /\ 0 + Due' - Due = 0 /\ 0 \in -0..0
    BY <1>2, <1>9, <2>2
  <2>4. Signed(x, v - v) + Due' - Due = 0
    BY <2>1, <2>3
  <2> QED
    BY <2>1, <2>3, <2>4
<1>15. /\ y.onMarket = AfterCall(object[x].onMarket, c, x)
       /\ y.onMarket <= Units(Amount[x])
  <2>1. y.onMarket <= A
    <3>1. A \in Nat /\ y.onMarket = 0
      BY <1>3, <1>5
    <3> QED
      BY ONLY <3>1
  <2> QED
    BY <1>6, <2>1 DEF n, A
<1>16. /\ Written(row[x], y) \in [status : {"none", "Pending", "Processing"} \cup Final, amount : Nat]
       /\ Written(row[x], y).status # "none"
       /\ Units(Written(row[x], y).amount) <= Units(Amount[x])
  BY <1>3, <1>8 DEF s, r, A
<1>17. traded' \in [Ids -> Nat] /\ \A o \in Ids \ {x} : traded'[o] = traded[o]
  BY DEF IInv, ExchangeTypeOK
<1> QED
  BY <1>5, <1>10, <1>11, <1>14, <1>15, <1>16, <1>17 DEF UpdateStands, x

(* One of the calls that are due is made. *)
LEMMA TellKeepsIInv ==
  ASSUME ExchangeAssumption, IInv, Tell
  PROVE  IInv'
<1> PICK c : c = Head(calls)
  OBVIOUS
<1>1. Telling(c)
  BY DEF Tell, Telling
<1>2. c.qty \in Nat
  BY <1>1, CallsAfterOne
<1>3. CASE TellAccept
  <2>1. Accepting(c)
    BY <1>1, <1>3 DEF TellAccept, Accepting
  <2> QED
    BY <2>1, AcceptKeepsIInv
<1>4. CASE TellFill
  <2> PICK y : y = OnFilled(object[c.order], c.qty)
    OBVIOUS
  <2>1. /\ c.kind = "fill" /\ Update(c.order, y, c.qty) /\ UNCHANGED excused
        /\ traded' = [traded EXCEPT ![c.order] = @ + c.qty]
    BY <1>4 DEF TellFill
  <2>2. Updating(c, y, c.qty)
    BY <1>1, <2>1 DEF Update, Updating
  <2>3. UpdateStands(c, y)
    BY <2>1, <2>2, FillStands
  <2> QED
    BY <1>2, <2>2, <2>3, UpdateKeepsIInv
<1>5. CASE TellCancel
  <2> PICK y : y = OnCancelled(object[c.order])
    OBVIOUS
  <2>1. c.kind = "cancel" /\ Update(c.order, y, 0) /\ UNCHANGED <<excused, traded>>
    BY <1>5 DEF TellCancel
  <2>2. Updating(c, y, 0)
    BY <1>1, <2>1 DEF Update, Updating
  <2>3. UpdateStands(c, y)
    BY <2>1, <2>2, CancelStands
  <2> QED
    BY <2>2, <2>3, UpdateKeepsIInv
<1> QED
  BY <1>3, <1>4, <1>5 DEF Tell

(* Nothing happens. *)
LEMMA StutterKeepsIInv ==
  ASSUME IInv, UNCHANGED vars
  PROVE  IInv'
<1> USE DEF vars, database, memory, bounds, history
<1>0. ExchangeTypeOK'
  BY DEF IInv, ExchangeTypeOK
<1>1. Phases' /\ RowsPlaced' /\ RowsExist' /\ ResultStands' /\ QueueStands'
  BY DEF IInv, Phases, Resting, RowsPlaced, RowsExist, Has, ResultStands, RowStands, QueueStands
<1>2. CallsStand' /\ Paired' /\ Within' /\ Balanced'
  BY DEF IInv, CallsStand, CallStands, Has, AcceptStands, Live, Paired, Within, Balanced
<1>3. RowsAgree' /\ TradedOnce'
  BY DEF IInv, RowsAgree, RowSays, Live, AcceptDue, Has, TradedOnce, TradesWithin
<1>4. SidesInv'
  BY DEF IInv, SidesInv, Choices, Booked, Due
<1> QED
  BY <1>0, <1>1, <1>2, <1>3, <1>4 DEF IInv

(* The steps taken together. *)
LEMMA NextKeepsIInv ==
  ASSUME ExchangeAssumption, IInv, [Next]_vars
  PROVE  IInv'
<1>1. ASSUME NEW o \in Ids, Place(o) \/ NewOrder(o) \/ CancelOrder(o)
      PROVE  IInv'
  BY <1>1, PlaceKeepsIInv, NewOrderKeepsIInv, CancelOrderKeepsIInv
<1>2. CASE Match \/ Rest \/ Tell \/ Added
  BY <1>2, MatchKeepsIInv, RestKeepsIInv, TellKeepsIInv, AddedKeepsIInv
<1>3. CASE Crash \/ Start \/ Load
  BY <1>3, CrashKeepsIInv, StartKeepsIInv, LoadKeepsIInv
<1>4. CASE LoadFails \/ Serve
  BY <1>4, ServeKeepsIInv
<1>5. CASE UNCHANGED vars
  BY <1>5, StutterKeepsIInv
<1> QED
  BY <1>1, <1>2, <1>3, <1>4, <1>5 DEF Next

(* The invariant holds in every state that can be reached. *)
LEMMA IInvAlways ==
  ASSUME ExchangeAssumption
  PROVE  Spec => []IInv
<1>1. Init => IInv
  BY InitIInv
<1>2. IInv /\ [Next]_vars => IInv'
  BY NextKeepsIInv
<1> QED
  BY <1>1, <1>2, PTL DEF Spec

-----------------------------------------------------------------------------
(* What the invariant says *)

(* Every variable keeps to its type: no fill takes more from an object     *)
(* than it has on the market, and no trade more than the book has open.    *)
THEOREM TypesAlways ==
  ASSUME ExchangeAssumption
  PROVE  Spec => []ExchangeTypeOK
<1>1. IInv => ExchangeTypeOK
  BY DEF IInv
<1> QED
  BY <1>1, IInvAlways, PTL

(* Between requests the book is what the rows say, through any sequence of *)
(* matches, cancels, failed statements, crashes and reloads.               *)
THEOREM BookAlways ==
  ASSUME ExchangeAssumption
  PROVE  Spec => []BookIsWhatRowsSay
<1>1. ASSUME IInv
      PROVE  BookIsWhatRowsSay
  <2> SUFFICES ASSUME Idle, NEW o \in known \ behind
               PROVE  /\ o \in Resting <=> Live(o)
                      /\ o \in Resting => open[o] = Units(row[o].amount)
                      /\ Cardinality({k \in DOMAIN queue : queue[k] = o}) <= 1
    BY DEF BookIsWhatRowsSay
  <2>1. calls = <<>> /\ matching = NoId /\ o \in Ids /\ Has(o) /\ ~AcceptDue(o)
    BY <1>1 DEF Idle, IInv, Phases, ExchangeTypeOK, Has, AcceptDue, ExchangeAssumption
  <2>2. open[o] = object[o].onMarket /\ open[o] \in Nat
    <3>1. Owes(o, <<>>, object[o].onMarket, open[o]) /\ object[o].onMarket \in Nat
      BY <1>1, <2>1, ChoicesType DEF IInv, Balanced
    <3> QED
      BY <3>1, LedgerEmpty
  <2>3. RowSays(o)
    BY <1>1, <2>1 DEF IInv, RowsAgree
  <2>4. o \in Resting <=> open[o] > 0
    <3>1. o \in Resting => open[o] > 0
      BY <1>1 DEF IInv, QueueStands, Resting
    <3>2. open[o] > 0 => o \in Resting
      BY <1>1, <2>1 DEF IInv, QueueStands, ExchangeAssumption
    <3> QED
      BY <3>1, <3>2
  <2>5. (o \in Resting <=> Live(o)) /\ (o \in Resting => open[o] = Units(row[o].amount))
    BY <2>2, <2>3, <2>4 DEF RowSays
  <2>6. Cardinality({k \in DOMAIN queue : queue[k] = o}) <= 1
    <3> DEFINE K == {k \in DOMAIN queue : queue[k] = o}
    <3>1. CASE K = {}
      <4>1. Cardinality(K) = 0
        BY <3>1, FS_EmptySet
      <4> QED
        BY <4>1
    <3>2. CASE K # {}
      <4> PICK k \in K : TRUE
        BY <3>2
      <4>1. K = {k}
        BY <1>1 DEF IInv, QueueStands
      <4>2. Cardinality(K) = 1
        BY ONLY <4>1, FS_Singleton
      <4>3. Cardinality(K) <= 1
        BY ONLY <4>2
      <4> QED
        BY <4>3
    <3> QED
      BY <3>1, <3>2
  <2> QED
    BY <2>5, <2>6
<1> QED
  BY <1>1, IInvAlways, PTL

(* No more of an order is traded than was ordered, however often it is     *)
(* loaded, unless its row missed an update or it was sent again.           *)
THEOREM TradedAlways ==
  ASSUME ExchangeAssumption
  PROVE  Spec => []NoOrderTradesTwice
<1>1. IInv => NoOrderTradesTwice
  BY DEF IInv, TradedOnce, TradesWithin, NoOrderTradesTwice
<1> QED
  BY <1>1, IInvAlways, PTL

(* A sum with signs is the difference of the two sides. *)
LEMMA SignedSumIsDifference ==
  ASSUME ExchangeAssumption, NEW h \in [Ids -> Int]
  PROVE  /\ SignedSum(h) = Sum(h, Buys) - Sum(h, Ids \ Buys)
         /\ Sum(h, Buys) \in Int /\ Sum(h, Ids \ Buys) \in Int
<1> DEFINE f == [o \in Ids |-> Signed(o, h[o])]
           S == Ids \ Buys
<1>1. /\ f \in [Ids -> Int] /\ IsFiniteSet(Ids)
      /\ Buys \in SUBSET Ids /\ S \in SUBSET Ids /\ Buys \cap S = {} /\ Buys \cup S = Ids
  BY DEF Signed, ExchangeAssumption
<1>2. (\A o \in Buys : f[o] = h[o]) /\ (\A o \in S : f[o] = -h[o])
  BY <1>1 DEF Signed
<1>3. SignedSum(h) = Sum(f, Ids)
  BY DEF SignedSum
<1> HIDE DEF f, S
<1>4. Sum(f, Ids) = Sum(f, Buys) + Sum(f, S)
  BY <1>1, SumOfUnion
<1>5. Sum(f, Buys) = Sum(h, Buys)
  BY <1>1, <1>2, SumOfSame
<1>6. Sum(f, S) = -Sum(h, S)
  BY <1>1, <1>2, SumOfNegative
<1>7. Sum(h, Buys) \in Int /\ Sum(h, S) \in Int
  BY <1>1, SumType
<1>8. SignedSum(h) = Sum(h, Buys) - Sum(h, S)
  BY <1>3, <1>4, <1>5, <1>6, <1>7
<1> QED
  BY <1>7, <1>8 DEF S

(* The sides of the table book the same quantity, up to what crashes       *)
(* between the two rows of a trade and failed statements lost.             *)
THEOREM SidesAlways ==
  ASSUME ExchangeAssumption
  PROVE  Spec => []SidesBalance
<1>1. ASSUME IInv
      PROVE  SidesBalance
  <2> DEFINE h == [o \in Ids |-> Booked(o)]
             Total(S) == FoldFunctionOnSet(LAMBDA x, y : x + y, 0, h, S)
  <2>1. h \in [Ids -> Int] /\ \A o \in Ids : h[o] \in Choices(o)
    BY <1>1, ChoicesType DEF IInv, Choices
  <2> HIDE DEF h
  <2>2. Total(Buys) = Sum(h, Buys) /\ Total(Ids \ Buys) = Sum(h, Ids \ Buys)
    BY DEF FoldFunctionOnSet, MapThenFoldSet, Sum, IsSum, Pick
  <2> HIDE DEF Total
  <2>3. SignedSum(h) + Due \in -lost..lost
    BY <1>1, <2>1 DEF IInv, SidesInv
  <2>4. /\ SignedSum(h) = Sum(h, Buys) - Sum(h, Ids \ Buys)
        /\ Sum(h, Buys) \in Int /\ Sum(h, Ids \ Buys) \in Int
    BY <2>1, SignedSumIsDifference
  <2>5. Due \in -HalfTold..HalfTold /\ Due \in Int /\ HalfTold \in Nat /\ lost \in Nat
    BY <1>1, DueType DEF IInv, ExchangeTypeOK
  <2> DEFINE d == Sum(h, Buys) - Sum(h, Ids \ Buys)
  <2>6. d \in Int /\ d + Due \in -lost..lost
    BY <2>3, <2>4
  <2> HIDE DEF d
  <2>7. d \in -(lost + HalfTold)..(lost + HalfTold)
    BY <2>5, <2>6
  <2>8. Total(Buys) - Total(Ids \ Buys) \in -(lost + HalfTold)..(lost + HalfTold)
    BY <2>2, <2>7 DEF d
  <2> QED
    BY <2>8 DEF SidesBalance, h, Total
<1> QED
  BY <1>1, IInvAlways, PTL
===============================================================================
