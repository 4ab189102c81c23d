--------------------------- MODULE OrderingsProofs ---------------------------
(***************************************************************************)
(* What is sorted or picked is a sequence that has each element once, and  *)
(* in its order; and the least-number principle, which stands for an       *)
(* induction over sequences.                                               *)
(***************************************************************************)
EXTENDS Orderings, FiniteSetTheorems, FunctionTheorems, SequenceTheorems, WellFoundedInduction, TLAPS

LEMMA LeastNumber ==
    ASSUME NEW T \in SUBSET Nat, T # {}
    PROVE  \E m \in T : \A n \in T : m <= n
  <1> DEFINE R == OpToRel(<, Nat)
  <1>1. \A y, x \in Nat : y < x => <<y, x>> \in R
    BY DEF OpToRel
  <1>2. IsWellFoundedOn(R, Nat)
    BY NatLessThanWellFounded
  <1> HIDE DEF R
  <1>3. \E x \in T : \A y \in T : ~(<<y, x>> \in R)
    BY <1>2, WFMin
  <1>4. \A x, y \in T : <<y, x>> \notin R => x <= y
    BY <1>1
  <1> QED
    BY <1>3, <1>4

(* As many elements as a set has, all different, are that set.            *)
LEMMA InjectionIsOnto ==
    ASSUME NEW S, IsFiniteSet(S), NEW T, IsFiniteSet(T), Cardinality(S) = Cardinality(T),
           NEW f \in [S -> T], \A x, y \in S : f[x] = f[y] => x = y
    PROVE  \A t \in T : \E x \in S : f[x] = t
  <1> DEFINE image == {f[x] : x \in S}
  <1>1. f \in Bijection(S, image)
    <2>1. f \in [S -> image] /\ \A y \in image : \E x \in S : f[x] = y
      OBVIOUS
    <2> QED
      BY <2>1, Fun_IsBij
  <1>2. ExistsBijection(S, image)
    BY <1>1 DEF ExistsBijection
  <1>3. IsFiniteSet(image) /\ Cardinality(image) = Cardinality(S)
    BY <1>2, FS_Bijection
  <1>4. image \in SUBSET T
    OBVIOUS
  <1>5. image = T
    BY <1>3, <1>4, FS_Subset
  <1> QED
    BY <1>5

(* Two sequences of the same elements in the same order are one.           *)
LEMMA OneOrder ==
    ASSUME NEW n \in Nat, NEW S, NEW R, NEW s, Lists(s, n, S, R), NEW t, Lists(t, n, S, R),
           \A x, y \in S : ~(<<x, y>> \in R /\ <<y, x>> \in R)
    PROVE  s = t
  <1> USE DEF Lists
  <1>1. SUFFICES ASSUME {i \in 1..n : s[i] # t[i]} # {} PROVE FALSE
    <2>1. \A i \in 1..n : s[i] = t[i]
      BY <1>1
    <2> QED
      BY <2>1
  <1>2. PICK i \in 1..n : s[i] # t[i] /\ \A k \in 1..n : s[k] # t[k] => i <= k
    <2>1. {i \in 1..n : s[i] # t[i]} \in SUBSET Nat
      OBVIOUS
    <2> QED
      BY <1>1, <2>1, LeastNumber
  <1>3. PICK j \in 1..n : t[j] = s[i]
    OBVIOUS
  <1>4. PICK k \in 1..n : s[k] = t[i]
    OBVIOUS
  <1>5. j > i
    <2>1. j < i => s[j] = t[j] /\ <<s[j], s[i]>> \in R
      BY <1>2
    <2>2. ~(j < i)
      BY <1>3, <2>1
    <2> QED
      BY <1>2, <1>3, <2>2
  <1>6. k > i
    <2>1. k < i => s[k] = t[k] /\ <<t[k], t[i]>> \in R
      BY <1>2
    <2>2. ~(k < i)
      BY <1>4, <2>1
    <2> QED
      BY <1>2, <1>4, <2>2
  <1>7. <<t[i], s[i]>> \in R /\ <<s[i], t[i]>> \in R
    BY <1>3, <1>4, <1>5, <1>6
  <1> QED
    BY <1>7

(* What a function makes of a finite set is finite.                        *)
LEMMA FiniteImage ==
    ASSUME NEW S, IsFiniteSet(S), NEW f, DOMAIN f = S
    PROVE  IsFiniteSet({f[x] : x \in S})
  <1> DEFINE g == [x \in S |-> f[x]]
             T == {f[x] : x \in S}
  <1>1. g \in [S -> T] /\ \A y \in T : \E x \in S : g[x] = y
    OBVIOUS
  <1>2. g \in Surjection(S, T)
    BY <1>1, Fun_IsSurj
  <1> QED
    BY <1>2, FS_Surjection

(* Where a rank goes up along a total order, the rank is the order.        *)
LEMMA RankIsOrder ==
    ASSUME NEW S, NEW R, NEW rank \in [S -> Nat],
           \A x, y \in S : <<x, y>> \in R => rank[x] < rank[y],
           \A x, y \in S : x = y \/ <<x, y>> \in R \/ <<y, x>> \in R
    PROVE  /\ \A x, y \in S : rank[x] < rank[y] <=> <<x, y>> \in R
           /\ \A x, y \in S : rank[x] = rank[y] => x = y
  <1>1. ASSUME NEW x \in S, NEW y \in S
        PROVE  /\ rank[x] < rank[y] <=> <<x, y>> \in R
               /\ rank[x] = rank[y] => x = y
    <2>1. rank[x] \in Nat /\ rank[y] \in Nat
      OBVIOUS
    <2>2. CASE x = y
      BY <2>1, <2>2
    <2>3. CASE <<x, y>> \in R
      BY <2>1, <2>3
    <2>4. CASE <<y, x>> \in R
      <3>1. rank[y] < rank[x]
        BY <2>4
      <3>2. ~(rank[x] < rank[y])
        BY <2>1, <3>1
      <3> QED
        BY <2>1, <3>1, <3>2
    <2> QED
      BY <2>2, <2>3, <2>4
  <1> QED
    BY <1>1

(* An order numbers the elements of a finite set.                          *)
THEOREM InOrderSorts ==
    ASSUME NEW S, IsFiniteSet(S), NEW R, IsOrder(R, S)
    PROVE  LET n == Cardinality(S) o == InOrder(S, R)
           IN  /\ n \in Nat
               /\ o \in [1..n -> S]
               /\ \A x \in S : \E k \in 1..n : o[k] = x
               /\ \A j, k \in 1..n : j < k <=> <<o[j], o[k]>> \in R
               /\ \A j, k \in 1..n : o[j] = o[k] => j = k
  <1> DEFINE n == Cardinality(S)
             o == InOrder(S, R)
             Below(x) == {y \in S : <<y, x>> \in R}
             Rank(x) == Cardinality(Below(x))
             f == [x \in S |-> Rank(x) + 1]
  <1>1. n \in Nat
    BY FS_CardinalityType
  <1>2. \A x \in S : IsFiniteSet(Below(x)) /\ Rank(x) \in Nat
    <2> TAKE x \in S
    <2>1. IsFiniteSet(Below(x))
      BY FS_Subset
    <2> QED
      BY <2>1, FS_CardinalityType
  <1>3. ASSUME NEW x \in S, NEW T \in SUBSET S, Below(x) \subseteq T, x \in T
        PROVE  Rank(x) + 1 <= Cardinality(T)
    <2>1. x \notin Below(x)
      BY DEF IsOrder
    <2>2. IsFiniteSet(Below(x) \cup {x}) /\ Cardinality(Below(x) \cup {x}) = Rank(x) + 1
      BY <1>2, <2>1, FS_AddElement
    <2>3. IsFiniteSet(T) /\ Below(x) \cup {x} \in SUBSET T
      BY <1>3, FS_Subset
    <2>4. Cardinality(Below(x) \cup {x}) <= Cardinality(T)
      BY <2>3, FS_Subset
    <2> QED
      BY <2>2, <2>4
  <1>4. \A x \in S : Rank(x) + 1 <= n
    BY <1>3
  <1>5. ASSUME NEW x \in S, NEW y \in S, <<x, y>> \in R
        PROVE  Rank(x) < Rank(y)
    <2>1. Below(x) \subseteq Below(y) /\ x \in Below(y) /\ Below(y) \in SUBSET S
      BY <1>5 DEF IsOrder
    <2>2. Rank(x) + 1 <= Cardinality(Below(y))
      BY <1>3, <2>1
    <2> QED
      BY <1>2, <2>2
  <1>6. \A x, y \in S : <<x, y>> \in R => Rank(x) < Rank(y)
    BY <1>5
  <1>7. \A x \in S : Rank(x) \in Nat
    BY <1>2
  <1>8. \A x, y \in S : x = y \/ <<x, y>> \in R \/ <<y, x>> \in R
    BY DEF IsOrder
  <1> HIDE DEF Rank
  <1> DEFINE rank == [x \in S |-> Rank(x)]
  <1>9. rank \in [S -> Nat]
    BY <1>7
  <1>10. \A x \in S : rank[x] = Rank(x)
    OBVIOUS
  <1>11. \A x, y \in S : <<x, y>> \in R => rank[x] < rank[y]
    BY <1>6, <1>10
  <1> HIDE DEF rank
  <1>12. /\ \A x, y \in S : rank[x] < rank[y] <=> <<x, y>> \in R
         /\ \A x, y \in S : rank[x] = rank[y] => x = y
    BY <1>8, <1>9, <1>11, RankIsOrder
  <1>13. \A x, y \in S : Rank(x) < Rank(y) <=> <<x, y>> \in R
    BY <1>10, <1>12
  <1>14. \A x, y \in S : Rank(x) = Rank(y) => x = y
    BY <1>10, <1>12
  <1>15. f \in [S -> 1..n] /\ \A x, y \in S : f[x] = f[y] => x = y
    BY <1>1, <1>7, <1>4, <1>14
  <1>16. \A k \in 1..n : \E x \in S : Rank(x) = k - 1
    <2>1. \A k \in 1..n : \E x \in S : f[x] = k
      <3> DEFINE T == 1..n
      <3>1. IsFiniteSet(T) /\ Cardinality(S) = Cardinality(T)
        BY <1>1, FS_Interval
      <3>2. f \in [S -> T] /\ \A x, y \in S : f[x] = f[y] => x = y
        BY <1>15
      <3>3. IsFiniteSet(S)
        OBVIOUS
      <3> HIDE DEF f, T
      <3>4. \A t \in T : \E x \in S : f[x] = t
        BY <3>1, <3>2, <3>3, InjectionIsOnto
      <3> QED
        BY <3>4 DEF T
    <2> QED
      BY <1>1, <1>7, <2>1
  <1>17. \A k \in 1..n : o[k] \in S /\ Rank(o[k]) = k - 1
    <2> TAKE k \in 1..n
    <2>1. o[k] = CHOOSE x \in S : Rank(x) = k - 1
      BY DEF InOrder, Rank
    <2>2. \E x \in S : Rank(x) = k - 1
      BY <1>16
    <2> QED
      BY <2>1, <2>2
  <1>18. DOMAIN o = 1..n
    BY DEF InOrder
  <1>19. o \in [1..n -> S]
    BY <1>17 DEF InOrder
  <1>20. \A x \in S : \E k \in 1..n : o[k] = x
    <2> TAKE x \in S
    <2>1. Rank(x) + 1 \in 1..n
      BY <1>1, <1>7, <1>4
    <2> HIDE DEF o
    <2>2. o[Rank(x) + 1] \in S /\ Rank(o[Rank(x) + 1]) = Rank(x)
      BY <1>7, <1>17, <2>1
    <2>3. o[Rank(x) + 1] = x
      BY <1>14, <2>2
    <2> QED
      BY <2>1, <2>3
  <1>21. \A j, k \in 1..n : j < k <=> <<o[j], o[k]>> \in R
    <2> TAKE j, k \in 1..n
    <2>1. Rank(o[j]) = j - 1 /\ Rank(o[k]) = k - 1 /\ o[j] \in S /\ o[k] \in S
      BY <1>17
    <2> HIDE DEF o
    <2> QED
      BY <1>1, <1>13, <2>1
  <1>22. \A j, k \in 1..n : o[j] = o[k] => j = k
    <2> TAKE j, k \in 1..n
    <2>1. Rank(o[j]) = j - 1 /\ Rank(o[k]) = k - 1
      BY <1>17
    <2> HIDE DEF o
    <2> QED
      BY <1>1, <2>1
  <1> QED
    BY <1>1, <1>19, <1>20, <1>21, <1>22

(* Indices are picked from the lowest to the highest.                      *)
THEOREM PickedInOrder ==
    ASSUME NEW I \in SUBSET Nat, IsFiniteSet(I), NEW s
    PROVE  LET n == Cardinality(I) at == InOrder(I, Upwards(I))
           IN  /\ n \in Nat /\ DOMAIN Picked(s, I) = 1..n
               /\ at \in [1..n -> I]
               /\ \A k \in 1..n : Picked(s, I)[k] = s[at[k]]
               /\ \A i \in I : \E k \in 1..n : at[k] = i
               /\ \A j, k \in 1..n : j < k <=> at[j] < at[k]
  <1> DEFINE n == Cardinality(I)
             at == InOrder(I, Upwards(I))
  <1>1. IsOrder(Upwards(I), I)
    BY DEF IsOrder, Upwards
  <1>2. /\ n \in Nat
        /\ at \in [1..n -> I]
        /\ \A x \in I : \E k \in 1..n : at[k] = x
        /\ \A j, k \in 1..n : j < k <=> <<at[j], at[k]>> \in Upwards(I)
    BY <1>1, InOrderSorts
  <1>3. \A j, k \in 1..n : j < k <=> at[j] < at[k]
    <2> HIDE DEF at
    <2> QED
      BY <1>2 DEF Upwards
  <1>4. DOMAIN Picked(s, I) = 1..n /\ \A k \in 1..n : Picked(s, I)[k] = s[at[k]]
    BY DEF Picked
  <1> QED
    BY <1>2, <1>3, <1>4

-----------------------------------------------------------------------------
(* Lists, and what is made of them. *)

LEMMA ListFacts ==
    ASSUME NEW s, IsList(s)
    PROVE  Len(s) \in Nat /\ DOMAIN s = 1..Len(s) /\ s = [i \in 1..Len(s) |-> s[i]]
BY DEF IsList

LEMMA AList ==
    ASSUME NEW n \in Nat, NEW s, s = [i \in 1..n |-> s[i]]
    PROVE  IsList(s) /\ Len(s) = n /\ DOMAIN s = 1..n
  <1>1. DOMAIN s = 1..n
    OBVIOUS
  <1>2. \A i \in 1..n : s[i] \in Range(s)
    BY <1>1 DEF Range
  <1> DEFINE R == Range(s)
  <1>3. s \in [1..n -> R]
    <2>1. \A i \in 1..n : s[i] \in R
      BY <1>2
    <2> HIDE DEF R
    <2> QED
      BY <2>1
  <1>4. s \in Seq(R)
    <2> HIDE DEF R
    <2> QED
      BY <1>3
  <1>5. Len(s) = n
    BY <1>1, <1>4
  <1> QED
    BY <1>1, <1>4, <1>5 DEF IsList

LEMMA EmptyIsList == IsList(<<>>) /\ DOMAIN <<>> = {}
BY DEF IsList

LEMMA ListsJoined ==
    ASSUME NEW s, IsList(s), NEW t, IsList(t)
    PROVE  /\ IsList(s \o t)
           /\ DOMAIN (s \o t) = 1..(Len(s) + Len(t))
           /\ \A i \in 1..(Len(s) + Len(t)) : (s \o t)[i] = IF i <= Len(s) THEN s[i] ELSE t[i - Len(s)]
  <1> DEFINE S == Range(s) \cup Range(t)
             u == s \o t
  <1>1. s \in Seq(S) /\ t \in Seq(S)
    <2>1. s \in Seq(Range(s)) /\ t \in Seq(Range(t)) /\ Range(s) \subseteq S /\ Range(t) \subseteq S
      BY DEF IsList
    <2> HIDE DEF S
    <2>2. \A i \in 1..Len(s) : s[i] \in S
      BY <2>1
    <2>3. \A i \in 1..Len(t) : t[i] \in S
      BY <2>1
    <2>4. s \in [1..Len(s) -> S] /\ t \in [1..Len(t) -> S] /\ Len(s) \in Nat /\ Len(t) \in Nat
      BY <2>2, <2>3, ListFacts
    <2> QED
      BY <2>4
  <1> HIDE DEF S
  <1>2. /\ u \in Seq(S) /\ Len(u) = Len(s) + Len(t)
        /\ \A i \in 1..(Len(s) + Len(t)) : u[i] = IF i <= Len(s) THEN s[i] ELSE t[i - Len(s)]
    BY <1>1, ConcatProperties
  <1> HIDE DEF u
  <1>3. Len(u) \in Nat /\ u = [i \in 1..Len(u) |-> u[i]] /\ DOMAIN u = 1..Len(u)
    BY <1>2
  <1>4. IsList(u)
    BY <1>3, AList
  <1> QED
    BY <1>2, <1>3, <1>4 DEF u

LEMMA FiniteDomain ==
    ASSUME NEW s, IsList(s)
    PROVE  IsFiniteSet(DOMAIN s) /\ DOMAIN s \in SUBSET Nat
  <1>1. Len(s) \in Nat /\ DOMAIN s = 1..Len(s)
    BY ListFacts
  <1>2. IsFiniteSet(1..Len(s))
    BY <1>1, FS_Interval
  <1> QED
    BY <1>1, <1>2

LEMMA PickedIsList ==
    ASSUME NEW s, IsList(s), NEW I \in SUBSET DOMAIN s
    PROVE  /\ IsList(Picked(s, I))
           /\ \A k \in DOMAIN Picked(s, I) : \E i \in I : Picked(s, I)[k] = s[i]
           /\ \A j, k \in DOMAIN Picked(s, I) : j # k =>
                 \E x, y \in I : x # y /\ Picked(s, I)[j] = s[x] /\ Picked(s, I)[k] = s[y]
  <1> DEFINE u == Picked(s, I)
             n == Cardinality(I)
             place == InOrder(I, Upwards(I))
  <1>1. I \in SUBSET Nat /\ IsFiniteSet(I)
    BY FiniteDomain, FS_Subset
  <1>2. /\ n \in Nat /\ DOMAIN u = 1..n /\ place \in [1..n -> I]
        /\ \A k \in 1..n : u[k] = s[place[k]]
        /\ \A j, k \in 1..n : j < k <=> place[j] < place[k]
    BY <1>1, PickedInOrder
  <1>3. u = [k \in 1..n |-> u[k]]
    BY DEF Picked
  <1> HIDE DEF u, n, place
  <1>4. IsList(u)
    BY <1>2, <1>3, AList
  <1>5. \A k \in DOMAIN u : \E i \in I : u[k] = s[i]
    BY <1>2
  <1>6. ASSUME NEW j \in DOMAIN u, NEW k \in DOMAIN u, j # k
        PROVE  \E x, y \in I : x # y /\ u[j] = s[x] /\ u[k] = s[y]
    <2>1. j \in 1..n /\ k \in 1..n /\ (j < k \/ k < j)
      BY <1>2, <1>6
    <2>2. place[j] \in I /\ place[k] \in I /\ (place[j] < place[k] \/ place[k] < place[j])
      BY <1>2, <2>1
    <2>3. place[j] # place[k]
      BY <1>1, <2>2
    <2> QED
      BY <1>2, <2>1, <2>2, <2>3
  <1> QED
    BY <1>4, <1>5, <1>6 DEF u

LEMMA CapIsList ==
    ASSUME NEW s, IsList(s), NEW n \in Int
    PROVE  /\ IsList(Cap(s, n)) /\ DOMAIN Cap(s, n) \subseteq DOMAIN s
           /\ \A i \in DOMAIN Cap(s, n) : Cap(s, n)[i] = s[i]
  <1> DEFINE m == IF Len(s) <= n THEN Len(s) ELSE IF n < 0 THEN 0 ELSE n
             u == Cap(s, n)
  <1>1. Len(s) \in Nat /\ DOMAIN s = 1..Len(s)
    BY ListFacts
  <1>2. {k \in DOMAIN s : k <= n} = 1..m
    BY <1>1
  <1>3. m \in Nat
    BY <1>1
  <1>4. u = [i \in 1..m |-> s[i]]
    BY <1>2 DEF Cap
  <1>5. u = [i \in 1..m |-> u[i]] /\ DOMAIN u = 1..m /\ \A i \in 1..m : u[i] = s[i]
    BY <1>4
  <1>6. 1..m \subseteq DOMAIN s
    BY <1>1
  <1> HIDE DEF u, m
  <1>7. IsList(u)
    BY <1>3, <1>5, AList
  <1> QED
    BY <1>5, <1>6, <1>7 DEF u

\* A function along a list is one.
LEMMA MappedIsList ==
    ASSUME NEW s, IsList(s), NEW u, DOMAIN u = DOMAIN s, u = [i \in DOMAIN u |-> u[i]]
    PROVE  IsList(u) /\ Len(u) = Len(s)
BY ListFacts, AList

-----------------------------------------------------------------------------
(* What is defined by recursion along 1..n exists: no k is the least up to *)
(* which it does not.                                                      *)
StepsOver(n, A) == [(1..n) \X A -> A]
Recursive(g, n, A, first, F) ==
    /\ g \in [1..n -> A]
    /\ \A k \in 1..n : g[k] = IF k = 1 THEN first ELSE F[<<k, g[k - 1]>>]

LEMMA RecursionExists ==
    ASSUME NEW n \in Nat, NEW A, NEW first \in A, NEW F \in StepsOver(n, A)
    PROVE  \E g : Recursive(g, n, A, first, F)
  <1> USE DEF StepsOver, Recursive
  <1> DEFINE Till(k, g) == /\ g \in [1..k -> A]
                           /\ \A j \in 1..k : g[j] = IF j = 1 THEN first ELSE F[<<j, g[j - 1]>>]
             T == {k \in 0..n : ~ \E g : Till(k, g)}
  <1>1. SUFFICES T = {}
    <2>1. n \notin T
      BY <1>1
    <2>2. PICK g : Till(n, g)
      BY <2>1
    <2> QED
      BY <2>2
  <1>2. SUFFICES ASSUME T # {} PROVE FALSE
    OBVIOUS
  <1>3. PICK k \in T : \A j \in T : k <= j
    <2>1. T \in SUBSET Nat
      OBVIOUS
    <2> HIDE DEF T
    <2> QED
      BY <1>2, <2>1, LeastNumber
  <1>4. k # 0
    <2>1. Till(0, [j \in 1..0 |-> first])
      OBVIOUS
    <2> QED
      BY <2>1
  <1>5. PICK g : Till(k - 1, g)
    <2>1. k \in 0..n
      OBVIOUS
    <2>2. k - 1 \in 0..n /\ ~(k <= k - 1)
      BY <1>4, <2>1
    <2>3. k - 1 \notin T
      <3> HIDE DEF T
      <3> QED
        BY <1>3, <2>2
    <2> QED
      BY <2>2, <2>3
  <1> DEFINE h == [j \in 1..k |-> IF j = k THEN (IF k = 1 THEN first ELSE F[<<k, g[k - 1]>>]) ELSE g[j]]
  <1>6. k \in 1..n /\ k - 1 \in Nat
    BY <1>4
  <1>7. h \in [1..k -> A]
    <2>1. k # 1 => g[k - 1] \in A
      BY <1>5, <1>6
    <2>2. k # 1 => F[<<k, g[k - 1]>>] \in A
      BY <1>6, <2>1
    <2>3. \A j \in 1..k : j # k => g[j] \in A
      BY <1>5, <1>6
    <2> QED
      BY <2>2, <2>3
  <1>8. ASSUME NEW j \in 1..k PROVE h[j] = IF j = 1 THEN first ELSE F[<<j, h[j - 1]>>]
    <2>1. CASE j = k
      <3>1. k # 1 => h[k - 1] = g[k - 1]
        BY <1>6
      <3> QED
        BY <2>1, <3>1
    <2>2. CASE j # k
      <3>1. j \in 1..(k - 1) /\ (j # 1 => h[j - 1] = g[j - 1])
        BY <1>6, <2>2
      <3>2. g[j] = IF j = 1 THEN first ELSE F[<<j, g[j - 1]>>]
        BY <1>5, <3>1
      <3> QED
        BY <2>2, <3>1, <3>2
    <2> QED
      BY <2>1, <2>2
  <1>9. Till(k, h)
    <2> HIDE DEF h
    <2> QED
      BY <1>7, <1>8
  <1>10. k \notin T
    BY <1>9
  <1> QED
    BY <1>10

LEMMA SoonerIsOrder ==
    ASSUME NEW P \in SUBSET [from: Int, to: Int]
    PROVE  IsOrder(Sooner(P), P)
  <1>1. \A p, q \in P : <<p, q>> \in Sooner(P) <=> p.from < q.from \/ (p.from = q.from /\ p.to < q.to)
    BY DEF Sooner
  <1>2. \A p \in P : p.from \in Int /\ p.to \in Int
    OBVIOUS
  <1>3. \A p, q \in P : p.from = q.from /\ p.to = q.to => p = q
    OBVIOUS
  <1>4. \A p \in P : <<p, p>> \notin Sooner(P)
    BY <1>1, <1>2
  <1>5. \A p, q, r \in P : <<p, q>> \in Sooner(P) /\ <<q, r>> \in Sooner(P) => <<p, r>> \in Sooner(P)
    BY <1>1, <1>2
  <1>6. \A p, q \in P : p # q => <<p, q>> \in Sooner(P) \/ <<q, p>> \in Sooner(P)
    <2> TAKE p, q \in P
    <2> HAVE p # q
    <2>1. p.from \in Int /\ p.to \in Int /\ q.from \in Int /\ q.to \in Int
      BY <1>2
    <2>2. p.from # q.from \/ p.to # q.to
      BY <1>3
    <2> QED
      BY <1>1, <2>1, <2>2
  <1> QED
    BY <1>4, <1>5, <1>6 DEF IsOrder

\* The state of the loop of Merged when it has passed the k-th period.
MergesTo(s, n, c, at) ==
    \A k \in 1..n :
        at[k] = IF k = 1 THEN [total |-> 0, from |-> s[1].from, to |-> s[1].to]
                ELSE IF s[k].from > at[k - 1].to + c
                THEN [total |-> at[k - 1].total + at[k - 1].to - at[k - 1].from + c,
                      from |-> s[k].from, to |-> s[k].to]
                ELSE IF s[k].to > at[k - 1].to THEN [at[k - 1] EXCEPT !.to = s[k].to]
                ELSE at[k - 1]

LEMMA MergedLoops ==
    ASSUME NEW P, NEW c \in Int, Cardinality(P) \in Nat \ {0},
           InOrder(P, Sooner(P)) \in [1..Cardinality(P) -> [from: Int, to: Int]]
    PROVE  LET n == Cardinality(P)
           IN  \E at : /\ MergesTo(InOrder(P, Sooner(P)), n, c, at)
                       /\ Merged(P, c) = at[n].total + at[n].to - at[n].from + c
  <1> DEFINE n == Cardinality(P)
             s == InOrder(P, Sooner(P))
             A == [total: Int, from: Int, to: Int]
             first == [total |-> 0, from |-> s[1].from, to |-> s[1].to]
             next(k, cur) ==
                 IF s[k].from > cur.to + c
                 THEN [total |-> cur.total + cur.to - cur.from + c, from |-> s[k].from, to |-> s[k].to]
                 ELSE IF s[k].to > cur.to THEN [cur EXCEPT !.to = s[k].to] ELSE cur
             F == [p \in (1..n) \X A |-> next(p[1], p[2])]
             Loop(h) == [k \in 1..n |-> IF k = 1 THEN first ELSE next(k, h[k - 1])]
             at == CHOOSE h : h = Loop(h)
  <1>1. \A k \in 1..n : s[k].from \in Int /\ s[k].to \in Int
    OBVIOUS
  <1>2. first \in A
    BY <1>1
  <1>3. \A k \in 1..n, cur \in A : next(k, cur) \in A
    BY <1>1
  <1>4. F \in [(1..n) \X A -> A] /\ \A k \in 1..n, cur \in A : F[<<k, cur>>] = next(k, cur)
    BY <1>3
  <1>5. PICK g : Recursive(g, n, A, first, F)
    <2>1. n \in Nat /\ first \in A /\ F \in StepsOver(n, A)
      BY <1>2, <1>4 DEF StepsOver
    <2> HIDE DEF F, A, first, n
    <2> QED
      BY <2>1, RecursionExists
  <1>6. \A k \in 1..n : g[k] = IF k = 1 THEN first ELSE next(k, g[k - 1])
    <2> TAKE k \in 1..n
    <2>1. k # 1 => g[k - 1] \in A
      BY <1>5 DEF Recursive
    <2>2. k # 1 => F[<<k, g[k - 1]>>] = next(k, g[k - 1])
      BY <1>4, <2>1
    <2> HIDE DEF F, first, next
    <2> QED
      BY <1>5, <2>2 DEF Recursive
  <1>7. g = Loop(g)
    BY <1>5, <1>6 DEF Recursive
  <1>8. at = Loop(at)
    BY <1>7
  <1>9. Merged(P, c) = at[n].total + at[n].to - at[n].from + c
    BY DEF Merged
  <1>10. MergesTo(s, n, c, at)
    <2>1. \A k \in 1..n : at[k] = Loop(at)[k]
      <3> HIDE DEF at, Loop
      <3> QED
        BY <1>8
    <2>2. \A k \in 1..n : at[k] = IF k = 1 THEN first ELSE next(k, at[k - 1])
      <3> HIDE DEF at, first, next
      <3> QED
        BY <2>1
    <2> HIDE DEF at, n, s
    <2> QED
      BY <2>2 DEF MergesTo
  <1> HIDE DEF at
  <1> QED
    BY <1>9, <1>10

(* What the first k of the periods s cover.                               *)
Covered(s, k, c) == UNION {s[j].from..(s[j].to - 1 + c) : j \in 1..k}

LEMMA AddInterval ==
    ASSUME NEW C, IsFiniteSet(C), NEW a \in Int, NEW b \in Int, a <= b + 1,
           \A x \in C : ~(x >= a /\ x <= b)
    PROVE  /\ IsFiniteSet(C \cup (a..b))
           /\ Cardinality(C \cup (a..b)) = Cardinality(C) + b - a + 1
  <1>1. IsFiniteSet(a..b) /\ Cardinality(a..b) = b - a + 1
    BY FS_Interval
  <1>2. C \cap (a..b) = {}
    OBVIOUS
  <1>3. Cardinality(C \cap (a..b)) = 0
    BY <1>2, FS_EmptySet
  <1>4. /\ IsFiniteSet(C \cup (a..b))
        /\ Cardinality(C \cup (a..b)) = Cardinality(C) + Cardinality(a..b) - Cardinality(C \cap (a..b))
    BY <1>1, FS_Union
  <1>5. Cardinality(C) \in Nat
    BY FS_CardinalityType
  <1> QED
    BY <1>1, <1>3, <1>4, <1>5

(* What is known of the loop once it has passed the k-th period: it holds  *)
(* the last stretch of what is covered, and has counted the ones before.   *)
LoopInv(s, c, at, k) ==
    /\ at[k] \in [total: Int, from: Int, to: Int]
    /\ at[k].from <= s[k].from /\ at[k].from < at[k].to + c
    /\ \A j \in 1..k : s[j].to <= at[k].to
    /\ (at[k].from)..(at[k].to - 1 + c) \subseteq Covered(s, k, c)
    /\ IsFiniteSet(Covered(s, k, c))
    /\ Cardinality(Covered(s, k, c)) = at[k].total + at[k].to - at[k].from + c

LEMMA LoopKeeps ==
    ASSUME NEW n \in Nat, NEW c \in Int, 0 <= c, c <= 1, NEW s \in [1..n -> [from: Int, to: Int]], NEW at,
           \A j \in 1..n : s[j].from < s[j].to + c,
           \A j, k \in 1..n : j < k => s[j].from <= s[k].from,
           MergesTo(s, n, c, at),
           NEW k \in 1..n, k = 1 \/ LoopInv(s, c, at, k - 1)
    PROVE  LoopInv(s, c, at, k)
  <1>00. \A j \in 1..n : s[j].from \in Int /\ s[j].to \in Int
    OBVIOUS
  <1>0. s[k].from \in Int /\ s[k].to \in Int /\ s[k].from < s[k].to + c
    OBVIOUS
  <1>1. CASE k = 1
    <2>1. at[k] = [total |-> 0, from |-> s[k].from, to |-> s[k].to]
      BY <1>1 DEF MergesTo
    <2>2. Covered(s, k, c) = {} \cup ((s[k].from)..(s[k].to - 1 + c))
      <3>1. 1..k = {k}
        BY <1>1
      <3> QED
        BY <3>1 DEF Covered
    <2>3. /\ IsFiniteSet(Covered(s, k, c))
          /\ Cardinality(Covered(s, k, c)) = Cardinality({}) + s[k].to - 1 + c - s[k].from + 1
      <3> DEFINE a == s[k].from
                 b == s[k].to - 1 + c
      <3>1. a \in Int /\ b \in Int /\ a <= b + 1
        BY <1>0
      <3>2. IsFiniteSet({})
        BY FS_EmptySet
      <3>3. Covered(s, k, c) = {} \cup (a..b)
        BY <2>2
      <3> HIDE DEF a, b
      <3>4. /\ IsFiniteSet({} \cup (a..b))
            /\ Cardinality({} \cup (a..b)) = Cardinality({}) + b - a + 1
        BY <3>1, <3>2, AddInterval
      <3>5. Cardinality({}) = 0
        BY FS_EmptySet
      <3> QED
        BY <1>0, <3>3, <3>4, <3>5 DEF a, b
    <2>4. Cardinality({}) = 0
      BY FS_EmptySet
    <2> QED
      BY <1>0, <1>1, <2>1, <2>2, <2>3, <2>4 DEF LoopInv
  <1>2. CASE k # 1
    <2> DEFINE i == k - 1
               C == Covered(s, i, c)
               from == at[i].from
               to == at[i].to
               total == at[i].total
    <2>1. i \in 1..n /\ LoopInv(s, c, at, i) /\ i < k /\ i = k - 1
      BY <1>2
    <2> HIDE DEF i
    <2>2. /\ from \in Int /\ to \in Int /\ total \in Int
          /\ at[i] = [total |-> total, from |-> from, to |-> to]
      BY <2>1 DEF LoopInv
    <2>3. from <= s[i].from /\ s[i].from <= s[k].from /\ s[i].from \in Int
      BY <2>1 DEF LoopInv
    <2>4. from <= s[k].from /\ from < to + c
      <3>1. from < to + c
        BY <2>1 DEF LoopInv
      <3> HIDE DEF from, to
      <3> QED
        BY <1>0, <2>2, <2>3, <3>1
    <2>5. Covered(s, k, c) = C \cup ((s[k].from)..(s[k].to - 1 + c))
      <3>1. 1..k = (1..i) \cup {k}
        BY <2>1
      <3> QED
        BY <3>1 DEF Covered
    <2>6. IsFiniteSet(C) /\ Cardinality(C) = total + to - from + c /\ (from..(to - 1 + c)) \subseteq C
      BY <2>1 DEF LoopInv
    <2>7. \A x \in C : x \in Int /\ x <= to - 1 + c
      <3> TAKE x \in C
      <3>1. PICK j \in 1..i : x \in (s[j].from)..(s[j].to - 1 + c)
        BY DEF Covered
      <3>2. s[j].to <= to /\ s[j].to \in Int /\ s[j].from \in Int
        BY <1>00, <2>1, <3>1 DEF LoopInv
      <3> HIDE DEF to, C
      <3> QED
        BY <2>2, <3>1, <3>2
    <2>8. \A j \in 1..i : s[j].to \in Int /\ s[j].to <= to
      <3>1. \A j \in 1..i : j \in 1..n
        BY <2>1
      <3> QED
        BY <1>00, <2>1, <3>1 DEF LoopInv
    <2>9. \A j \in 1..k : j = k \/ j \in 1..i
      BY <2>1
    <2>10. at[k] = IF s[k].from > to + c
                   THEN [total |-> total + to - from + c, from |-> s[k].from, to |-> s[k].to]
                   ELSE IF s[k].to > to THEN [at[i] EXCEPT !.to = s[k].to] ELSE at[i]
      BY <1>2, <2>1 DEF MergesTo
    <2> HIDE DEF C, from, to, total
    <2>11. CASE s[k].from > to + c
      <3>1. at[k] = [total |-> total + to - from + c, from |-> s[k].from, to |-> s[k].to]
        BY <2>10, <2>11
      <3> DEFINE a == s[k].from
                 b == s[k].to - 1 + c
      <3>2. a \in Int /\ b \in Int /\ a <= b + 1 /\ \A x \in C : ~(x >= a /\ x <= b)
        <4>1. a \in Int /\ b \in Int /\ a <= b + 1
          BY <1>0
        <4>2. a > to + c
          BY <2>11
        <4> HIDE DEF a, b
        <4> QED
          BY <2>2, <2>7, <4>1, <4>2
      <3>3. Covered(s, k, c) = C \cup (a..b)
        BY <2>5
      <3> HIDE DEF a, b
      <3>4. /\ IsFiniteSet(Covered(s, k, c))
            /\ Cardinality(Covered(s, k, c)) = Cardinality(C) + b - a + 1
        <4>1. /\ IsFiniteSet(C \cup (a..b))
              /\ Cardinality(C \cup (a..b)) = Cardinality(C) + b - a + 1
          BY <2>6, <3>2, AddInterval
        <4> QED
          BY <3>3, <4>1
      <3>5. Cardinality(Covered(s, k, c)) = at[k].total + at[k].to - at[k].from + c
        BY <1>0, <2>2, <2>6, <3>1, <3>4 DEF a, b
      <3>6. at[k] \in [total: Int, from: Int, to: Int]
        BY <1>0, <2>2, <3>1
      <3>7. \A j \in 1..k : s[j].to <= at[k].to
        <4> TAKE j \in 1..k
        <4>1. at[k].to = s[k].to
          BY <3>1
        <4>2. to <= s[k].to
          BY <1>0, <2>2, <2>4, <2>11
        <4>3. CASE j = k
          BY <1>0, <4>1, <4>3
        <4>4. CASE j \in 1..i
          <5>1. s[j].to \in Int /\ s[j].to <= to
            BY <2>8, <4>4
          <5> QED
            BY <1>0, <2>2, <4>1, <4>2, <5>1
        <4> QED
          BY <2>9, <4>3, <4>4
      <3>8. at[k].from = s[k].from /\ at[k].to = s[k].to
        BY <3>1
      <3>9. (at[k].from)..(at[k].to - 1 + c) \subseteq Covered(s, k, c)
        BY <2>5, <3>8
      <3> QED
        BY <1>0, <3>4, <3>5, <3>6, <3>7, <3>8, <3>9 DEF LoopInv
    <2>12. CASE ~(s[k].from > to + c) /\ s[k].to > to
      <3>1. at[k] = [total |-> total, from |-> from, to |-> s[k].to]
        BY <2>2, <2>10, <2>12
      <3> DEFINE a == to + c
                 b == s[k].to - 1 + c
      <3>2. a \in Int /\ b \in Int /\ a <= b + 1 /\ \A x \in C : ~(x >= a /\ x <= b)
        <4>1. a \in Int /\ b \in Int /\ a <= b + 1
          BY <1>0, <2>2, <2>12
        <4>2. a - 1 = to - 1 + c
          BY <2>2
        <4> HIDE DEF a, b
        <4> QED
          BY <2>2, <2>7, <4>1, <4>2
      <3>3. Covered(s, k, c) = C \cup (a..b)
        <4>1. \A x \in Int : x >= s[k].from /\ x <= b => x \in C \/ (x >= a /\ x <= b)
          <5> TAKE x \in Int
          <5> HAVE x >= s[k].from /\ x <= b
          <5>1. ~(x >= a) => x >= from /\ x <= to - 1 + c
            BY <1>0, <2>2, <2>4
          <5>2. ~(x >= a) => x \in C
            BY <2>2, <2>6, <5>1
          <5> QED
            BY <5>2
        <4>2. \A x \in Int : x >= a /\ x <= b => x >= s[k].from /\ x <= b
          BY <1>0, <2>2, <2>12
        <4>3. Covered(s, k, c) = C \cup ((s[k].from)..b)
          BY <2>5
        <4>4. b \in Int /\ a \in Int
          BY <3>2
        <4> HIDE DEF a, b
        <4> QED
          BY <1>0, <4>1, <4>2, <4>3, <4>4
      <3> HIDE DEF a, b
      <3>4. /\ IsFiniteSet(Covered(s, k, c))
            /\ Cardinality(Covered(s, k, c)) = Cardinality(C) + b - a + 1
        <4>1. /\ IsFiniteSet(C \cup (a..b))
              /\ Cardinality(C \cup (a..b)) = Cardinality(C) + b - a + 1
          BY <2>6, <3>2, AddInterval
        <4> QED
          BY <3>3, <4>1
      <3>5. Cardinality(Covered(s, k, c)) = at[k].total + at[k].to - at[k].from + c
        BY <1>0, <2>2, <2>6, <3>1, <3>4 DEF a, b
      <3>6. at[k] \in [total: Int, from: Int, to: Int]
        BY <1>0, <2>2, <3>1
      <3>7. \A j \in 1..k : s[j].to <= at[k].to
        <4> TAKE j \in 1..k
        <4>1. at[k].to = s[k].to
          BY <3>1
        <4>2. to <= s[k].to
          BY <1>0, <2>2, <2>4, <2>12
        <4>3. CASE j = k
          BY <1>0, <4>1, <4>3
        <4>4. CASE j \in 1..i
          <5>1. s[j].to \in Int /\ s[j].to <= to
            BY <2>8, <4>4
          <5> QED
            BY <1>0, <2>2, <4>1, <4>2, <5>1
        <4> QED
          BY <2>9, <4>3, <4>4
      <3>8. at[k].from = from /\ at[k].to = s[k].to
        BY <3>1
      <3>9. \A x \in Int : x >= from /\ x <= b => x \in C \cup (a..b)
        <4> TAKE x \in Int
        <4> HAVE x >= from /\ x <= b
        <4>1. ~(x >= a) => x \in from..(to - 1 + c)
          BY <2>2 DEF a
        <4> QED
          BY <2>6, <3>2, <4>1
      <3>10. (at[k].from)..(at[k].to - 1 + c) \subseteq Covered(s, k, c)
        BY <2>2, <3>2, <3>3, <3>8, <3>9 DEF b
      <3>11. at[k].from <= s[k].from /\ at[k].from < at[k].to + c
        BY <1>0, <2>2, <2>4, <2>12, <3>8
      <3> QED
        BY <3>4, <3>5, <3>6, <3>7, <3>10, <3>11 DEF LoopInv
    <2>13. CASE ~(s[k].from > to + c) /\ ~(s[k].to > to)
      <3>1. at[k] = [total |-> total, from |-> from, to |-> to]
        BY <2>2, <2>10, <2>13
      <3>2. \A x \in Int : x >= s[k].from /\ x <= s[k].to - 1 + c => x \in C
        <4> TAKE x \in Int
        <4> HAVE x >= s[k].from /\ x <= s[k].to - 1 + c
        <4>1. x \in from..(to - 1 + c)
          BY <1>0, <2>2, <2>4, <2>13
        <4> QED
          BY <2>6, <4>1
      <3>3. Covered(s, k, c) = C
        BY <1>0, <2>5, <3>2
      <3>4. at[k].from = from /\ at[k].to = to /\ at[k].total = total
        BY <3>1
      <3>5. at[k] \in [total: Int, from: Int, to: Int]
        BY <2>2, <3>1
      <3>6. \A j \in 1..k : s[j].to <= at[k].to
        BY <1>0, <2>2, <2>8, <2>9, <2>13, <3>1
      <3> QED
        BY <2>4, <2>6, <3>3, <3>4, <3>5, <3>6 DEF LoopInv
    <2> QED
      BY <2>11, <2>12, <2>13
  <1> QED
    BY <1>1, <1>2

(* What the loop counts is how many days, or months, are in some period.   *)
THEOREM MergedCounts ==
    ASSUME NEW P \in SUBSET [from: Int, to: Int], IsFiniteSet(P), NEW c \in {0, 1},
           \A p \in P : p.from < p.to + c
    PROVE  /\ Merged(P, c) = Cardinality(UNION {p.from..(p.to - 1 + c) : p \in P})
           /\ Merged(P, c) \in Nat
  <1> DEFINE n == Cardinality(P)
             s == InOrder(P, Sooner(P))
             all == UNION {p.from..(p.to - 1 + c) : p \in P}
  <1>1. /\ n \in Nat
        /\ s \in [1..n -> P]
        /\ \A p \in P : \E k \in 1..n : s[k] = p
        /\ \A j, k \in 1..n : j < k => <<s[j], s[k]>> \in Sooner(P)
    BY SoonerIsOrder, InOrderSorts
  <1>2. CASE n = 0
    <2>1. P = {}
      BY <1>2, FS_EmptySet
    <2>2. all = {} /\ Cardinality({}) = 0
      BY <2>1, FS_EmptySet
    <2>3. Merged(P, c) = 0
      BY <1>2 DEF Merged
    <2> HIDE DEF all
    <2>4. Merged(P, c) = Cardinality(all) /\ Merged(P, c) \in Nat
      BY <2>2, <2>3
    <2> QED
      BY <2>4 DEF all
  <1>3. CASE n # 0
    <2>1. s \in [1..n -> [from: Int, to: Int]] /\ n \in Nat \ {0} /\ c \in Int
      BY <1>1, <1>3
    <2>2. PICK at : /\ MergesTo(s, n, c, at)
                    /\ Merged(P, c) = at[n].total + at[n].to - at[n].from + c
      <3> HIDE DEF s
      <3> QED
        BY <2>1, MergedLoops DEF s
    <2>3. \A j \in 1..n : s[j].from < s[j].to + c
      <3> HIDE DEF s
      <3> QED
        BY <1>1
    <2>4. \A j, k \in 1..n : j < k => s[j].from <= s[k].from
      <3> HIDE DEF s, n
      <3> QED
        <4> TAKE j, k \in 1..n
        <4> HAVE j < k
        <4>1. <<s[j], s[k]>> \in Sooner(P)
          BY <1>1
        <4>2. s[j].from < s[k].from \/ s[j].from = s[k].from
          BY <4>1 DEF Sooner
        <4>3. s[j].from \in Int /\ s[k].from \in Int
          BY <2>1
        <4> QED
          BY <4>2, <4>3
    <2>5. all = Covered(s, n, c)
      <3> HIDE DEF s, n
      <3> QED
        BY <1>1 DEF Covered
    <2> DEFINE T == {k \in 1..n : ~LoopInv(s, c, at, k)}
    <2>6. T = {}
      <3> SUFFICES ASSUME T # {} PROVE FALSE
        OBVIOUS
      <3>1. PICK k \in T : \A j \in T : k <= j
        <4>1. T \in SUBSET Nat
          OBVIOUS
        <4> HIDE DEF T
        <4> QED
          BY <4>1, LeastNumber
      <3>2. k = 1 \/ LoopInv(s, c, at, k - 1)
        <4> HIDE DEF s
        <4>1. k # 1 => k - 1 \in 1..n /\ ~(k <= k - 1)
          BY <1>1
        <4> QED
          BY <3>1, <4>1
      <3>3. LoopInv(s, c, at, k)
        <4> HIDE DEF s, n
        <4> QED
          <5>1. k \in 1..n /\ 0 <= c /\ c <= 1
            BY <3>1
          <5> QED
            BY <1>1, <2>1, <2>2, <2>3, <2>4, <3>2, <5>1, LoopKeeps
      <3> QED
        BY <3>3
    <2>7. LoopInv(s, c, at, n)
      <3> HIDE DEF s
      <3>1. n \in 1..n
        BY <2>1
      <3> QED
        BY <2>6, <3>1
    <2>8. /\ Cardinality(Covered(s, n, c)) = at[n].total + at[n].to - at[n].from + c
          /\ Cardinality(Covered(s, n, c)) \in Nat
      BY <2>7, FS_CardinalityType DEF LoopInv
    <2> HIDE DEF all, s
    <2>9. Merged(P, c) = Cardinality(all) /\ Cardinality(all) \in Nat
      BY <2>2, <2>5, <2>8
    <2> QED
      BY <2>9 DEF all
  <1> QED
    BY <1>2, <1>3
=============================================================================
