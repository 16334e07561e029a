------------------------------ MODULE SumLemmas ------------------------------
(***************************************************************************)
(* Sums over finite sets.  The specifications write them with the folds of *)
(* the community modules, which are recursive functions over subsets; here *)
(* is what holds of them for every finite set.  The induction is on the    *)
(* smallest subset that would be a counterexample.                         *)
(***************************************************************************)
EXTENDS Integers, FiniteSets, FiniteSetTheorems, TLAPS

-----------------------------------------------------------------------------
(* Smallest members *)

(* A set of natural numbers has a least member. *)
LEMMA LeastMember ==
  ASSUME NEW S \in SUBSET Nat, S # {}
  PROVE  \E m \in S : \A k \in S : m <= k
<1>1. IsWellFoundedOn(OpToRel(<, Nat), Nat)
  BY NatLessThanWellFounded
<1>2. PICK m \in S : \A k \in S : ~(<<k, m>> \in OpToRel(<, Nat))
  BY <1>1, WFMin
<1>3. ASSUME NEW k \in S
      PROVE  m <= k
  <2>1. ~(k < m)
    BY <1>2 DEF OpToRel
  <2> QED
    BY <2>1
<1> QED
  BY <1>2, <1>3

(* Of some subsets of a finite set, one contains none of the others. *)
LEMMA SmallestSubset ==
  ASSUME NEW S, IsFiniteSet(S), NEW W \in SUBSET SUBSET S, W # {}
  PROVE  \E T \in W : \A U \in W : U \subseteq T => U = T
<1> DEFINE Sizes == {Cardinality(T) : T \in W}
<1>1. \A T \in W : IsFiniteSet(T) /\ Cardinality(T) \in Nat
  BY FS_Subset, FS_CardinalityType
<1>2. PICK n \in Sizes : \A k \in Sizes : n <= k
  <2>1. Sizes \in SUBSET Nat /\ Sizes # {}
    BY <1>1
  <2> HIDE DEF Sizes
  <2> QED
    BY <2>1, LeastMember
<1>3. PICK T \in W : n = Cardinality(T)
  BY <1>2
<1>4. ASSUME NEW U \in W, U \subseteq T
      PROVE  U = T
  <2>1. Cardinality(U) <= Cardinality(T) /\ (Cardinality(T) = Cardinality(U) => T = U)
    BY <1>1, <1>4, FS_Subset
  <2>2. Cardinality(T) <= Cardinality(U)
    BY <1>2, <1>3
  <2> QED
    BY <1>1, <2>1, <2>2
<1> QED
  BY <1>4

-----------------------------------------------------------------------------
(* Sums *)

Pick(s) == CHOOSE x \in s : TRUE

(* g[s] is the sum of f over s, for every subset s of S. *)
IsSum(g, f, S) ==
  g = [s \in SUBSET S |-> IF s = {} THEN 0 ELSE f[Pick(s)] + g[s \ {Pick(s)}]]

(* The sum of f over S. *)
Sum(f, S) == (CHOOSE g : IsSum(g, f, S))[S]

LEMMA PickIsMember ==
  ASSUME NEW s, s # {}
  PROVE  Pick(s) \in s
BY DEF Pick

(* What a table of sums says of one subset. *)
LEMMA SumStep ==
  ASSUME NEW S, NEW f, NEW g, IsSum(g, f, S), NEW s \in SUBSET S
  PROVE  /\ s = {} => g[s] = 0
         /\ s # {} => g[s] = f[Pick(s)] + g[s \ {Pick(s)}]
BY DEF IsSum

(* Two tables agree where the functions that they sum agree. *)
LEMMA SumsAgree ==
  ASSUME NEW S, NEW T, NEW f, NEW e, NEW g, NEW h,
         IsSum(g, f, S), IsSum(h, e, T),
         NEW r \in SUBSET (S \cap T), IsFiniteSet(r),
         \A x \in r : f[x] = e[x]
  PROVE  g[r] = h[r]
<1> DEFINE Wrong == {s \in SUBSET r : g[s] # h[s]}
<1>1. CASE Wrong = {}
  BY <1>1
<1>2. CASE Wrong # {}
  <2>1. PICK s \in Wrong : \A u \in Wrong : u \subseteq s => u = s
    <3>1. Wrong \in SUBSET SUBSET r
      OBVIOUS
    <3> HIDE DEF Wrong
    <3> QED
      BY <1>2, <3>1, SmallestSubset
  <2>2. s \in SUBSET S /\ s \in SUBSET T /\ s \in SUBSET r /\ g[s] # h[s]
    OBVIOUS
  <2>3. s # {}
    BY <2>2, SumStep
  <2> PICK p \in s : p = Pick(s)
    BY <2>3, PickIsMember
  <2>4. g[s] = f[p] + g[s \ {p}] /\ h[s] = e[p] + h[s \ {p}]
    BY <2>2, <2>3, SumStep
  <2>5. g[s \ {p}] = h[s \ {p}]
    <3>1. s \ {p} \notin Wrong
      BY <2>1
    <3> QED
      BY <3>1
  <2>6. f[p] = e[p]
    BY <2>2
  <2> QED
    BY <2>2, <2>4, <2>5, <2>6
<1> QED
  BY <1>1, <1>2

(* Every finite set has a table of sums. *)
LEMMA SumExists ==
  ASSUME NEW S, IsFiniteSet(S), NEW f \in [S -> Int]
  PROVE  \E g \in [SUBSET S -> Int] : IsSum(g, f, S)
<1> DEFINE Has(T) == \E g \in [SUBSET T -> Int] : IsSum(g, f, T)
           Without == {T \in SUBSET S : ~Has(T)}
<1>1. CASE Without = {}
  BY <1>1
<1>2. CASE Without # {}
  <2>1. PICK T \in Without : \A U \in Without : U \subseteq T => U = T
    <3>1. Without \in SUBSET SUBSET S
      OBVIOUS
    <3> HIDE DEF Without
    <3> QED
      BY <1>2, <3>1, SmallestSubset
  <2>2. T \in SUBSET S /\ IsFiniteSet(T)
    BY FS_Subset
  <2> DEFINE Table(U) == CHOOSE g \in [SUBSET U -> Int] : IsSum(g, f, U)
             Value(U) == Table(U)[U]
             g == [s \in SUBSET T |-> IF s = {} THEN 0 ELSE f[Pick(s)] + Value(s \ {Pick(s)})]
  <2>3. ASSUME NEW U \in SUBSET T, U # T
        PROVE  /\ Table(U) \in [SUBSET U -> Int] /\ IsSum(Table(U), f, U)
               /\ IsFiniteSet(U)
    <3>1. U \in SUBSET S /\ IsFiniteSet(U)
      BY <2>2, FS_Subset
    <3>2. U \notin Without
      BY <2>1, <2>3
    <3>3. Has(U)
      BY <3>1, <3>2
    <3> QED
      BY <3>1, <3>3
  <2> HIDE DEF Table
  <2>4. ASSUME NEW U \in SUBSET T, U # T
        PROVE  /\ Value(U) \in Int
               /\ U = {} => Value(U) = 0
               /\ U # {} => Value(U) = f[Pick(U)] + Value(U \ {Pick(U)})
    <3>1. Table(U) \in [SUBSET U -> Int] /\ IsSum(Table(U), f, U) /\ IsFiniteSet(U)
      BY <2>3, <2>4
    <3>2. U = {} => Value(U) = 0
      BY <3>1, SumStep
    <3>3. ASSUME U # {}
          PROVE  Value(U) = f[Pick(U)] + Value(U \ {Pick(U)})
      <4> PICK p \in U : p = Pick(U)
        BY <3>3, PickIsMember
      <4> DEFINE V == U \ {p}
      <4>1. V \in SUBSET T /\ V # T /\ V \in SUBSET U
        BY <2>4
      <4>2. Table(V) \in [SUBSET V -> Int] /\ IsSum(Table(V), f, V) /\ IsFiniteSet(V)
        BY <2>3, <4>1
      <4>3. Table(U)[U] = f[p] + Table(U)[V]
        BY <3>1, <3>3, SumStep
      <4>4. V \in SUBSET (U \cap V)
        BY <4>1
      <4>5. Table(U)[V] = Table(V)[V]
        BY <3>1, <4>2, <4>4, SumsAgree
      <4> QED
        BY <4>3, <4>5
    <3> QED
      BY <3>1, <3>2, <3>3
  <2> HIDE DEF Value
  <2>5. ASSUME NEW s \in SUBSET T, s # {}
        PROVE  /\ Pick(s) \in s /\ f[Pick(s)] \in Int
               /\ s \ {Pick(s)} \in SUBSET T /\ s \ {Pick(s)} # T
    BY <2>2, <2>5, PickIsMember
  <2>6. g \in [SUBSET T -> Int]
    <3>1. ASSUME NEW s \in SUBSET T, s # {}
          PROVE  f[Pick(s)] + Value(s \ {Pick(s)}) \in Int
      <4>1. f[Pick(s)] \in Int /\ Value(s \ {Pick(s)}) \in Int
        BY <2>4, <2>5, <3>1
      <4> QED
        BY <4>1
    <3> QED
      BY <3>1
  <2>7. ASSUME NEW U \in SUBSET T, U # T
        PROVE  g[U] = Value(U)
    BY <2>4, <2>7
  <2>8. IsSum(g, f, T)
    <3>1. \A s \in SUBSET T : s # {} => g[s \ {Pick(s)}] = Value(s \ {Pick(s)})
      BY <2>5, <2>7
    <3> QED
      BY <3>1 DEF IsSum
  <2>9. Has(T)
    <3> HIDE DEF g
    <3> QED
      BY <2>6, <2>8
  <2> QED
    BY <2>9
<1> QED
  BY <1>1, <1>2

Summable(f, S) == IsFiniteSet(S) /\ f \in [S -> Int]

Tabled(f, S) ==
  \E g \in [SUBSET S -> Int] : IsSum(g, f, S) /\ \A T \in SUBSET S : Sum(f, T) = g[T]

(* The table that Sum chooses is one. *)
LEMMA SumIsChosen ==
  ASSUME NEW S, NEW f, Summable(f, S)
  PROVE  Tabled(f, S)
<1> USE DEF Summable
<1> PICK g \in [SUBSET S -> Int] : IsSum(g, f, S)
  BY SumExists
<1>1. ASSUME NEW T \in SUBSET S
      PROVE  Sum(f, T) = g[T]
  <2>1. IsFiniteSet(T)
    BY FS_Subset
  <2> DEFINE e == [x \in T |-> f[x]]
             h == CHOOSE h : IsSum(h, f, T)
  <2>2. e \in [T -> Int] /\ \A x \in T : e[x] = f[x]
    OBVIOUS
  <2> HIDE DEF e
  <2> PICK d \in [SUBSET T -> Int] : IsSum(d, e, T)
    BY <2>1, <2>2, SumExists
  <2>3. IsSum(d, f, T)
    <3>1. \A s \in SUBSET T : s # {} => e[Pick(s)] = f[Pick(s)]
      BY <2>2, PickIsMember
    <3>2. d = [s \in SUBSET T |-> IF s = {} THEN 0 ELSE e[Pick(s)] + d[s \ {Pick(s)}]]
      BY DEF IsSum
    <3>3. d = [s \in SUBSET T |-> IF s = {} THEN 0 ELSE f[Pick(s)] + d[s \ {Pick(s)}]]
      BY <3>1, <3>2
    <3> QED
      BY <3>3 DEF IsSum
  <2>4. IsSum(h, f, T)
    BY <2>3
  <2> HIDE DEF h
  <2>5. T \in SUBSET (T \cap S)
    OBVIOUS
  <2>6. h[T] = g[T]
    BY <2>1, <2>4, <2>5, SumsAgree
  <2> QED
    BY <2>6 DEF Sum, h
<1> QED
  BY <1>1 DEF Tabled

LEMMA SumType ==
  ASSUME NEW S, IsFiniteSet(S), NEW f \in [S -> Int], NEW T \in SUBSET S
  PROVE  Sum(f, T) \in Int
<1>0. Tabled(f, S)
  BY SumIsChosen DEF Summable
<1> PICK g \in [SUBSET S -> Int] : IsSum(g, f, S) /\ \A U \in SUBSET S : Sum(f, U) = g[U]
  BY <1>0 DEF Tabled
<1> QED
  OBVIOUS

LEMMA SumOfNone ==
  ASSUME NEW f
  PROVE  Sum(f, {}) = 0
<1> DEFINE e == [x \in {} |-> 0]
<1>1. PICK g : IsSum(g, e, {})
  <2>1. IsFiniteSet({}) /\ e \in [{} -> Int]
    BY FS_EmptySet
  <2> HIDE DEF e
  <2> QED
    BY <2>1, SumExists
<1>2. IsSum(g, f, {})
  BY <1>1 DEF IsSum
<1> DEFINE h == CHOOSE h : IsSum(h, f, {})
<1>3. IsSum(h, f, {})
  BY <1>2
<1> HIDE DEF h
<1>4. h[{}] = 0
  BY <1>3, SumStep
<1> QED
  BY <1>4 DEF Sum, h

(* It does not matter which member is taken out first. *)
LEMMA SumWithout ==
  ASSUME NEW S, IsFiniteSet(S), NEW f \in [S -> Int], NEW T \in SUBSET S, NEW x \in T
  PROVE  Sum(f, T) = f[x] + Sum(f, T \ {x})
<1>0. Tabled(f, S)
  BY SumIsChosen DEF Summable
<1> PICK g \in [SUBSET S -> Int] : IsSum(g, f, S) /\ \A U \in SUBSET S : Sum(f, U) = g[U]
  BY <1>0 DEF Tabled
<1> DEFINE Wrong == {U \in SUBSET S : \E y \in U : g[U] # f[y] + g[U \ {y}]}
<1>1. CASE Wrong = {}
  <2>1. g[T] = f[x] + g[T \ {x}]
    BY <1>1
  <2>2. T \ {x} \in SUBSET S
    OBVIOUS
  <2> QED
    BY <2>1, <2>2
<1>2. CASE Wrong # {}
  <2>1. PICK U \in Wrong : \A V \in Wrong : V \subseteq U => V = U
    <3>1. Wrong \in SUBSET SUBSET S
      OBVIOUS
    <3> HIDE DEF Wrong
    <3> QED
      BY <1>2, <3>1, SmallestSubset
  <2> PICK y \in U : g[U] # f[y] + g[U \ {y}]
    OBVIOUS
  <2> PICK p \in U : p = Pick(U)
    BY PickIsMember
  <2>2. U \in SUBSET S
    OBVIOUS
  <2>3. g[U] = f[p] + g[U \ {p}]
    BY <2>2, SumStep
  <2>4. p # y
    BY <2>3
  <2>5. ASSUME NEW z \in U, NEW w \in U, z # w
        PROVE  g[U \ {z}] = f[w] + g[(U \ {z}) \ {w}]
    <3>1. U \ {z} \in SUBSET S /\ U \ {z} \notin Wrong /\ w \in U \ {z}
      BY <2>1, <2>2, <2>5
    <3> QED
      BY <3>1
  <2> DEFINE R == (U \ {p}) \ {y}
  <2>6. R = (U \ {y}) \ {p} /\ R \in SUBSET S
    BY <2>2
  <2>7. g[U \ {p}] = f[y] + g[R] /\ g[U \ {y}] = f[p] + g[R]
    BY <2>4, <2>5, <2>6
  <2>8. g[R] \in Int /\ f[y] \in Int /\ f[p] \in Int
    BY <2>2, <2>6
  <2> HIDE DEF R
  <2>9. g[U] = f[y] + g[U \ {y}]
    BY <2>3, <2>7, <2>8
  <2> QED
    BY <2>9
<1> QED
  BY <1>1, <1>2

(* Another member adds its value. *)
LEMMA SumWith ==
  ASSUME NEW S, IsFiniteSet(S), NEW f \in [S -> Int],
         NEW T \in SUBSET S, NEW x \in S \ T
  PROVE  Sum(f, T \cup {x}) = f[x] + Sum(f, T)
<1>1. T \cup {x} \in SUBSET S /\ x \in T \cup {x} /\ (T \cup {x}) \ {x} = T
  OBVIOUS
<1> QED
  BY <1>1, SumWithout

(* The sum depends on the values at the members alone. *)
LEMMA SumOfSame ==
  ASSUME NEW S, NEW R, IsFiniteSet(S), IsFiniteSet(R), NEW f \in [S -> Int], NEW e \in [R -> Int],
         NEW T \in SUBSET S, T \subseteq R, \A x \in T : f[x] = e[x]
  PROVE  Sum(f, T) = Sum(e, T)
<1>0. Tabled(f, S) /\ Tabled(e, R)
  BY SumIsChosen DEF Summable
<1>1. PICK g \in [SUBSET S -> Int] : IsSum(g, f, S) /\ \A U \in SUBSET S : Sum(f, U) = g[U]
  BY <1>0 DEF Tabled
<1>2. PICK h \in [SUBSET R -> Int] : IsSum(h, e, R) /\ \A U \in SUBSET R : Sum(e, U) = h[U]
  BY <1>0 DEF Tabled
<1>3. T \in SUBSET (S \cap R) /\ IsFiniteSet(T)
  BY FS_Subset
<1>4. g[T] = h[T]
  BY <1>1, <1>2, <1>3, SumsAgree
<1> QED
  BY <1>1, <1>2, <1>3, <1>4

(* Changing the value of one member changes the sum by as much. *)
LEMMA SumAfterChange ==
  ASSUME NEW S, IsFiniteSet(S), NEW f \in [S -> Int], NEW e \in [S -> Int],
         NEW T \in SUBSET S, NEW x \in T, \A y \in T \ {x} : e[y] = f[y]
  PROVE  Sum(e, T) = Sum(f, T) - f[x] + e[x]
<1>1. T \ {x} \in SUBSET S
  OBVIOUS
<1>2. Sum(e, T \ {x}) = Sum(f, T \ {x})
  BY <1>1, SumOfSame
<1>3. Sum(f, T) = f[x] + Sum(f, T \ {x}) /\ Sum(e, T) = e[x] + Sum(e, T \ {x})
  BY SumWithout
<1>4. Sum(f, T \ {x}) \in Int /\ f[x] \in Int /\ e[x] \in Int
  BY <1>1, SumType
<1> QED
  BY <1>2, <1>3, <1>4

(* Of numbers that are not negative, no part is more than the whole. *)
LEMMA SumBound ==
  ASSUME NEW S, IsFiniteSet(S), NEW f \in [S -> Nat], NEW T \in SUBSET S, NEW U \in SUBSET T
  PROVE  Sum(f, U) \in Nat /\ Sum(f, T) \in Nat /\ Sum(f, U) <= Sum(f, T)
<1>0. f \in [S -> Int]
  OBVIOUS
<1> DEFINE Wrong == {V \in SUBSET T : ~(Sum(f, V) \in Nat)}
<1>1. ASSUME NEW V \in SUBSET T
      PROVE  Sum(f, V) \in Nat
  <2>1. CASE Wrong = {}
    BY <2>1
  <2>2. CASE Wrong # {}
    <3>0. IsFiniteSet(T)
      BY FS_Subset
    <3>1. PICK P \in Wrong : \A Q \in Wrong : Q \subseteq P => Q = P
      <4>1. Wrong \in SUBSET SUBSET T
        OBVIOUS
      <4> HIDE DEF Wrong
      <4> QED
        BY <2>2, <3>0, <4>1, SmallestSubset
    <3>2. P # {}
      BY SumOfNone
    <3> PICK x \in P : TRUE
      BY <3>2
    <3>3. P \in SUBSET S /\ P \ {x} \in SUBSET T
      OBVIOUS
    <3>4. Sum(f, P) = f[x] + Sum(f, P \ {x})
      BY <1>0, <3>3, SumWithout
    <3>5. Sum(f, P \ {x}) \in Nat
      BY <3>1, <3>3
    <3>6. f[x] \in Nat
      BY <3>3
    <3>7. Sum(f, P) \in Nat
      BY <3>4, <3>5, <3>6
    <3> QED
      BY <3>7
  <2> QED
    BY <2>1, <2>2
<1> DEFINE More == {V \in SUBSET T : U \subseteq V /\ ~(Sum(f, U) <= Sum(f, V))}
<1>2. CASE More = {}
  BY <1>1, <1>2
<1>3. CASE More # {}
  <2>0. IsFiniteSet(T)
    BY FS_Subset
  <2>1. PICK P \in More : \A Q \in More : Q \subseteq P => Q = P
    <3>1. More \in SUBSET SUBSET T
      OBVIOUS
    <3> HIDE DEF More
    <3> QED
      BY <1>3, <2>0, <3>1, SmallestSubset
  <2>2. P # U
    BY <1>1
  <2> PICK x \in P \ U : TRUE
    BY <2>2
  <2>3. P \in SUBSET S /\ P \ {x} \in SUBSET T /\ P \in SUBSET T
    OBVIOUS
  <2>4. Sum(f, P) = f[x] + Sum(f, P \ {x})
    BY <1>0, <2>3, SumWithout
  <2>5. Sum(f, U) <= Sum(f, P \ {x})
    <3>1. P \ {x} \notin More
      BY <2>1
    <3> QED
      BY <2>3, <3>1
  <2>6. Sum(f, U) \in Nat /\ Sum(f, P) \in Nat /\ Sum(f, P \ {x}) \in Nat /\ f[x] \in Nat
    BY <1>1, <2>3
  <2>7. Sum(f, U) <= Sum(f, P)
    BY <2>4, <2>5, <2>6
  <2> QED
    BY <2>7
<1> QED
  BY <1>2, <1>3

(* Zeros add up to zero. *)
LEMMA SumOfZeros ==
  ASSUME NEW S, IsFiniteSet(S)
  PROVE  Sum([x \in S |-> 0], S) = 0
<1> DEFINE f == [x \in S |-> 0]
           Wrong == {T \in SUBSET S : Sum(f, T) # 0}
<1>0. f \in [S -> Int] /\ \A x \in S : f[x] = 0
  OBVIOUS
<1> HIDE DEF f
<1>1. CASE Wrong = {}
  <2>1. Sum(f, S) = 0
    BY <1>1
  <2> QED
    BY <2>1 DEF f
<1>2. CASE Wrong # {}
  <2>1. PICK T \in Wrong : \A U \in Wrong : U \subseteq T => U = T
    <3>1. Wrong \in SUBSET SUBSET S
      OBVIOUS
    <3> HIDE DEF Wrong
    <3> QED
      BY <1>2, <3>1, SmallestSubset
  <2>2. T # {}
    BY SumOfNone
  <2> PICK x \in T : TRUE
    BY <2>2
  <2>3. Sum(f, T) = f[x] + Sum(f, T \ {x})
    BY <1>0, SumWithout
  <2>4. Sum(f, T \ {x}) = 0
    BY <2>1
  <2>5. Sum(f, T) = 0
    BY <1>0, <2>3, <2>4
  <2> QED
    BY <2>5
<1> QED
  BY <1>1, <1>2

(* The sum over two disjoint sets. *)
LEMMA SumOfUnion ==
  ASSUME NEW S, IsFiniteSet(S), NEW f \in [S -> Int],
         NEW A \in SUBSET S, NEW B \in SUBSET S, A \cap B = {}
  PROVE  Sum(f, A \cup B) = Sum(f, A) + Sum(f, B)
<1> DEFINE Wrong == {T \in SUBSET B : Sum(f, A \cup T) # Sum(f, A) + Sum(f, T)}
<1>1. CASE Wrong = {}
  BY <1>1
<1>2. CASE Wrong # {}
  <2>0. IsFiniteSet(B)
    BY FS_Subset
  <2>1. PICK T \in Wrong : \A U \in Wrong : U \subseteq T => U = T
    <3>1. Wrong \in SUBSET SUBSET B
      OBVIOUS
    <3> HIDE DEF Wrong
    <3> QED
      BY <1>2, <2>0, <3>1, SmallestSubset
  <2>2. T # {}
    <3>1. A \cup {} = A /\ Sum(f, A) \in Int
      BY SumType
    <3> QED
      BY <3>1, SumOfNone
  <2> PICK x \in T : TRUE
    BY <2>2
  <2> DEFINE U == T \ {x}
  <2>3. /\ A \cup T \in SUBSET S /\ x \in A \cup T /\ (A \cup T) \ {x} = A \cup U
        /\ T \in SUBSET S /\ U \in SUBSET S /\ U \in SUBSET B /\ A \cup U \in SUBSET S
    OBVIOUS
  <2>4. Sum(f, A \cup T) = f[x] + Sum(f, A \cup U) /\ Sum(f, T) = f[x] + Sum(f, U)
    BY <2>3, SumWithout
  <2>5. Sum(f, A \cup U) = Sum(f, A) + Sum(f, U)
    <3>1. U \notin Wrong
      BY <2>1
    <3> QED
      BY <2>3, <3>1
  <2>6. Sum(f, A) \in Int /\ Sum(f, U) \in Int /\ f[x] \in Int
    BY <2>3, SumType
  <2>7. Sum(f, A \cup T) = Sum(f, A) + Sum(f, T)
    BY <2>4, <2>5, <2>6
  <2> QED
    BY <2>7
<1> QED
  BY <1>1, <1>2

(* Turning the sign of the values turns the sign of the sum. *)
LEMMA SumOfNegative ==
  ASSUME NEW S, IsFiniteSet(S), NEW f \in [S -> Int], NEW g \in [S -> Int],
         NEW B \in SUBSET S, \A x \in B : g[x] = -f[x]
  PROVE  Sum(g, B) = -Sum(f, B)
<1> DEFINE Wrong == {T \in SUBSET B : Sum(g, T) # -Sum(f, T)}
<1>1. CASE Wrong = {}
  BY <1>1
<1>2. CASE Wrong # {}
  <2>0. IsFiniteSet(B)
    BY FS_Subset
  <2>1. PICK T \in Wrong : \A U \in Wrong : U \subseteq T => U = T
    <3>1. Wrong \in SUBSET SUBSET B
      OBVIOUS
    <3> HIDE DEF Wrong
    <3> QED
      BY <1>2, <2>0, <3>1, SmallestSubset
  <2>2. T # {}
    BY SumOfNone
  <2> PICK x \in T : TRUE
    BY <2>2
  <2> DEFINE U == T \ {x}
  <2>3. T \in SUBSET S /\ U \in SUBSET S /\ U \in SUBSET B /\ x \in B
    OBVIOUS
  <2>4. Sum(f, T) = f[x] + Sum(f, U) /\ Sum(g, T) = g[x] + Sum(g, U)
    BY <2>3, SumWithout
  <2>5. Sum(g, U) = -Sum(f, U)
    <3>1. U \notin Wrong
      BY <2>1
    <3> QED
      BY <2>3, <3>1
  <2>6. Sum(f, U) \in Int /\ f[x] \in Int /\ g[x] = -f[x]
    BY <2>3, SumType
  <2>7. Sum(g, T) = -Sum(f, T)
    BY <2>4, <2>5, <2>6
  <2> QED
    BY <2>7
<1> QED
  BY <1>1, <1>2

(* What only some of the members have is at most what all have. *)
LEMMA SumOfSome ==
  ASSUME NEW S, IsFiniteSet(S), NEW f \in [S -> Nat], NEW g \in [S -> Nat],
         \A x \in S : g[x] \in {0, f[x]}
  PROVE  Sum(g, S) \in Nat /\ Sum(f, S) \in Nat /\ Sum(g, S) <= Sum(f, S)
<1> DEFINE A == {x \in S : g[x] = f[x]}
           B == S \ A
           z == [x \in S |-> 0]
<1>1. A \in SUBSET S /\ B \in SUBSET S /\ A \cap B = {} /\ A \cup B = S
  OBVIOUS
<1>2. f \in [S -> Int] /\ g \in [S -> Int] /\ z \in [S -> Int] /\ z \in [S -> Nat]
  OBVIOUS
<1>3. \A x \in B : g[x] = z[x]
  OBVIOUS
<1>4. \A x \in A : g[x] = f[x]
  OBVIOUS
<1>5. Sum(z, S) = 0
  BY SumOfZeros
<1> HIDE DEF A, B, z
<1>6. Sum(g, S) = Sum(g, A) + Sum(g, B)
  BY <1>1, <1>2, SumOfUnion
<1>7. Sum(g, A) = Sum(f, A)
  BY <1>1, <1>2, <1>4, SumOfSame
<1>8. Sum(g, B) = Sum(z, B)
  BY <1>1, <1>2, <1>3, SumOfSame
<1>9. Sum(z, B) \in Nat /\ Sum(z, B) <= Sum(z, S)
  BY <1>1, <1>2, SumBound
<1>10. Sum(f, A) \in Nat /\ Sum(f, S) \in Nat /\ Sum(f, A) <= Sum(f, S)
  BY <1>1, SumBound
<1> QED
  BY <1>5, <1>6, <1>7, <1>8, <1>9, <1>10
===============================================================================
