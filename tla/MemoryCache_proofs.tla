------------------------- MODULE MemoryCache_proofs -------------------------
(***************************************************************************)
(* Proofs about MemoryCache, for any keys, sizes and limits.  The loop of  *)
(* Set needs two facts that are not first-order: that among the evictions  *)
(* that make room there are smallest ones, and that sizes add up.  Both    *)
(* come from the theorem of the library that the finite subsets of a set   *)
(* are well founded: a claim about finite sets holds if a smallest set for *)
(* which it fails cannot exist.                                            *)
(***************************************************************************)
EXTENDS MemoryCache, FiniteSetTheorems, TLAPS

LEMMA SmallestSet ==
    ASSUME NEW S, IsFiniteSet(S), NEW G, G \subseteq SUBSET S, G # {}
    PROVE  \E T \in G : \A U \in G : U \subseteq T => U = T
<1> DEFINE R == StrictSubsetOrdering(S)
           F == FiniteSubsetsOf(S)
<1>1. IsWellFoundedOn(R, F)
  BY FS_StrictSubsetOrderingWellFounded
<1>2. F = SUBSET S
  BY FS_FiniteSubsetsOfFinite
<1>3. \A U, T \in SUBSET S : U \subseteq T /\ U # T => <<U, T>> \in R
  BY DEF StrictSubsetOrdering
<1> HIDE DEF R, F
<1>4. \E x \in G : \A y \in G : ~ (<<y, x>> \in R)
  BY <1>1, <1>2, WFMin
<1> QED
  BY <1>3, <1>4

LEMMA LeastNatural ==
    ASSUME NEW S \in SUBSET Nat, NEW b \in S
    PROVE  \E n \in S : \A m \in S : n <= m
<1> DEFINE G == {0 .. n : n \in {m \in S : m <= b}}
<1>2. IsFiniteSet(0 .. b)
  BY FS_Interval
<1>3. G \subseteq SUBSET (0 .. b) /\ G # {}
  OBVIOUS
<1>4. PICK T \in G : \A U \in G : U \subseteq T => U = T
  <2> DEFINE B == 0 .. b
  <2>1. IsFiniteSet(B) /\ G \subseteq SUBSET B /\ G # {}
    BY <1>2, <1>3
  <2> HIDE DEF G, B
  <2> QED
    BY <2>1, SmallestSet
<1>5. PICK n \in S : n <= b /\ T = 0 .. n
  OBVIOUS
<1>6. ASSUME NEW m \in S, m < n PROVE FALSE
  <2>1. 0 .. m \in G /\ 0 .. m \subseteq 0 .. n
    BY <1>5, <1>6
  <2>2. n \in 0 .. n /\ n \notin 0 .. m
    BY <1>5, <1>6
  <2> QED
    BY <1>4, <1>5, <2>1, <2>2
<1> QED
  BY <1>5, <1>6

LEMMA NaturalsFrom0 ==
    ASSUME NEW G \in SUBSET Nat, 0 \in G, \A n \in G : n + 1 \in G
    PROVE  G = Nat
<1> SUFFICES ASSUME NEW b \in Nat \ G PROVE FALSE
  OBVIOUS
<1>1. PICK n \in Nat \ G : \A m \in Nat \ G : n <= m
  <2> DEFINE S == Nat \ G
  <2>1. S \in SUBSET Nat /\ b \in S
    OBVIOUS
  <2> HIDE DEF S
  <2>2. \E n \in S : \A m \in S : n <= m
    BY <2>1, LeastNatural
  <2> QED
    BY <2>2 DEF S
<1>2. n - 1 \in Nat /\ n - 1 \notin G
  BY <1>1
<1> QED
  BY <1>1, <1>2
-----------------------------------------------------------------------------
(* Sums.  MapThenSumSet is the value at S of a function on the subsets of  *)
(* S, defined by a recursion that takes out one element after the other.   *)

\* The sizes of the entries S of a map m; SizeOf(S) is Total(items, S).
Total(m, S) == MapThenSumSet(LAMBDA k : m[k].size, S)

First(T) == CHOOSE x \in T : TRUE

Sum(m, f, T) ==
    IF T = {} THEN 0 ELSE m[First(T)].size + f[T \ {First(T)}]

Sums(m, S, f) == f = [T \in SUBSET S |-> Sum(m, f, T)]

Sized(m, S) == \A k \in S : m[k].size \in Int

\* f adds up: one more element adds its size.
Adds(m, S, f) == \A T \in SUBSET S : \A x \in S \ T : f[T \cup {x}] = m[x].size + f[T]

LEMMA FirstIn == \A T : T # {} => First(T) \in T
BY DEF First

LEMMA TotalChoice ==
    ASSUME NEW m, NEW S
    PROVE  Total(m, S) = (CHOOSE f : Sums(m, S, f))[S]
BY DEF Total, Sums, Sum, First, MapThenSumSet, MapThenFoldSet

LEMMA SumsExist ==
    ASSUME NEW m, NEW S, IsFiniteSet(S), Sized(m, S)
    PROVE  \E f \in [SUBSET S -> Int] : Sums(m, S, f)
<1> DEFINE Upto(n, f) == \A T \in SUBSET S : Cardinality(T) <= n => f[T] = Sum(m, f, T)
           G == {n \in Nat : \E f \in [SUBSET S -> Int] : Upto(n, f)}
<1>1. \A T \in SUBSET S : IsFiniteSet(T) /\ Cardinality(T) \in Nat
  BY FS_Subset, FS_CardinalityType
<1>2. \A T \in SUBSET S : T # {} =>
          /\ First(T) \in T /\ T \ {First(T)} \in SUBSET S
          /\ Cardinality(T \ {First(T)}) = Cardinality(T) - 1
  BY <1>1, FirstIn, FS_RemoveElement
<1>3. 0 \in G
  <2> DEFINE f == [T \in SUBSET S |-> 0]
  <2>1. \A T \in SUBSET S : Cardinality(T) <= 0 => T = {}
    BY <1>1, FS_EmptySet
  <2>2. f \in [SUBSET S -> Int] /\ Upto(0, f)
    BY <2>1 DEF Sum
  <2> QED
    BY <2>2
<1>4. ASSUME NEW n \in G PROVE n + 1 \in G
  <2>1. PICK f \in [SUBSET S -> Int] : Upto(n, f)
    OBVIOUS
  <2> DEFINE g == [T \in SUBSET S |-> Sum(m, f, T)]
  <2>2. g \in [SUBSET S -> Int]
    BY <1>2 DEF Sum, Sized
  <2>3. ASSUME NEW T \in SUBSET S, Cardinality(T) <= n + 1
        PROVE  g[T] = Sum(m, g, T)
    <3>1. CASE T = {}
      BY <3>1 DEF Sum
    <3>2. CASE T # {}
      <4> DEFINE U == T \ {First(T)}
      <4>1. U \in SUBSET S /\ Cardinality(U) <= n
        BY <1>1, <1>2, <2>3, <3>2
      <4>2. g[U] = f[U]
        BY <2>1, <4>1
      <4> QED
        BY <3>2, <4>2 DEF Sum
    <3> QED
      BY <3>1, <3>2
  <2> HIDE DEF g
  <2> QED
    BY <2>2, <2>3
<1>5. Cardinality(S) \in G
  <2>1. G \in SUBSET Nat
    OBVIOUS
  <2> HIDE DEF G
  <2> QED
    BY <1>1, <1>3, <1>4, <2>1, NaturalsFrom0
<1>6. PICK f \in [SUBSET S -> Int] : Upto(Cardinality(S), f)
  BY <1>5
<1>7. \A T \in SUBSET S : f[T] = Sum(m, f, T)
  BY <1>1, <1>6, FS_Subset
<1>8. f = [T \in SUBSET S |-> f[T]]
  OBVIOUS
<1>9. f = [T \in SUBSET S |-> Sum(m, f, T)]
  BY <1>7, <1>8
<1> QED
  BY <1>9 DEF Sums

\* The function does not depend on S beyond its domain.
LEMMA SumsAgree ==
    ASSUME NEW m, NEW n, NEW S, NEW U, IsFiniteSet(S), S \subseteq U,
           \A k \in S : m[k].size = n[k].size,
           NEW f, Sums(m, S, f), NEW g, Sums(n, U, g)
    PROVE  f[S] = g[S]
<1> DEFINE G == {T \in SUBSET S : f[T] # g[T]}
<1>1. \A T \in SUBSET S : f[T] = Sum(m, f, T) /\ g[T] = Sum(n, g, T)
  BY DEF Sums
<1>2. SUFFICES ASSUME G # {} PROVE FALSE
  OBVIOUS
<1>3. PICK T \in G : \A V \in G : V \subseteq T => V = T
  <2>1. G \subseteq SUBSET S
    OBVIOUS
  <2> HIDE DEF G
  <2> QED
    BY <1>2, <2>1, SmallestSet
<1>4. CASE T = {}
  BY <1>1, <1>4 DEF Sum
<1>5. CASE T # {}
  <2>1. First(T) \in T /\ T \in SUBSET S
    BY <1>5, FirstIn
  <2>2. f[T \ {First(T)}] = g[T \ {First(T)}]
    BY <1>3, <2>1
  <2> QED
    BY <1>1, <1>5, <2>1, <2>2 DEF Sum
<1> QED
  BY <1>4, <1>5

\* It may take out any element first.
LEMMA SumsSplit ==
    ASSUME NEW m, NEW S, IsFiniteSet(S), Sized(m, S),
           NEW f, Sums(m, S, f), \A T \in SUBSET S : f[T] \in Int
    PROVE  Adds(m, S, f)
<1> DEFINE Splits(T) == \A x \in S \ T : f[T \cup {x}] = m[x].size + f[T]
           G == {T \in SUBSET S : ~Splits(T)}
<1>1. \A T \in SUBSET S : f[T] = Sum(m, f, T)
  BY DEF Sums
<1>2. SUFFICES ASSUME G # {} PROVE FALSE
  BY DEF Adds
<1>3. PICK T \in G : \A V \in G : V \subseteq T => V = T
  <2>1. G \subseteq SUBSET S
    OBVIOUS
  <2> HIDE DEF G
  <2> QED
    BY <1>2, <2>1, SmallestSet
<1>4. PICK x \in S \ T : f[T \cup {x}] # m[x].size + f[T]
  BY <1>3
<1> DEFINE U == T \cup {x}
           p == First(U)
<1>5. U \in SUBSET S /\ p \in U /\ f[U] = m[p].size + f[U \ {p}]
  <2>1. U \in SUBSET S /\ U # {}
    BY <1>3
  <2>2. p \in U
    BY <2>1, FirstIn
  <2> QED
    BY <1>1, <2>1, <2>2 DEF Sum
<1>6. CASE p = x
  <2>1. U \ {p} = T
    BY <1>6
  <2> QED
    BY <1>4, <1>5, <1>6, <2>1
<1>7. CASE p # x
  <2> DEFINE V == T \ {p}
  <2>1. p \in T /\ V \in SUBSET S /\ V # T /\ V \subseteq T
    BY <1>5, <1>7
  <2>2. Splits(V)
    BY <1>3, <2>1
  <2>3. p \in S \ V /\ x \in S \ V
    BY <1>3, <1>4, <2>1
  <2>4. f[V \cup {p}] = m[p].size + f[V] /\ f[V \cup {x}] = m[x].size + f[V]
    BY <2>2, <2>3
  <2>5. V \cup {p} = T /\ V \cup {x} = U \ {p}
    BY <1>7, <2>1
  <2>6. m[p].size \in Int /\ m[x].size \in Int /\ f[V] \in Int
    BY <2>1, <2>3 DEF Sized
  <2>7. f[T] = m[p].size + f[V] /\ f[U \ {p}] = m[x].size + f[V]
    BY <2>4, <2>5
  <2>8. f[U] = m[p].size + (m[x].size + f[V])
    BY <1>5, <2>7
  <2> HIDE DEF V, U, p
  <2>9. f[U] = m[x].size + f[T]
    BY <2>6, <2>7, <2>8
  <2> QED
    BY <1>4, <2>9 DEF U
<1> QED
  BY <1>6, <1>7

\* Whatever function satisfies the recursion gives the total.
LEMMA TotalOf ==
    ASSUME NEW m, NEW S, IsFiniteSet(S), NEW U, S \subseteq U, NEW f, Sums(m, U, f),
           Sized(m, S)
    PROVE  Total(m, S) = f[S]
<1> DEFINE g == CHOOSE h : Sums(m, S, h)
<1>1. Sums(m, S, g)
  BY SumsExist
<1>2. Total(m, S) = g[S]
  BY TotalChoice
<1> HIDE DEF g
<1>3. g[S] = f[S]
  BY <1>1, SumsAgree
<1> QED
  BY <1>2, <1>3

LEMMA TotalInt ==
    ASSUME NEW m, NEW S, IsFiniteSet(S), Sized(m, S)
    PROVE  Total(m, S) \in Int
<1>1. PICK f \in [SUBSET S -> Int] : Sums(m, S, f)
  BY SumsExist
<1> QED
  BY <1>1, TotalOf

LEMMA TotalEmpty ==
    ASSUME NEW m
    PROVE  Total(m, {}) = 0
<1>1. IsFiniteSet({}) /\ Sized(m, {})
  BY FS_EmptySet DEF Sized
<1>2. PICK f \in [SUBSET {} -> Int] : Sums(m, {}, f)
  BY <1>1, SumsExist
<1>3. Total(m, {}) = f[{}]
  BY <1>1, <1>2, TotalOf
<1>4. f[{}] = Sum(m, f, {})
  BY <1>2 DEF Sums
<1> QED
  BY <1>3, <1>4 DEF Sum

LEMMA TotalAdd ==
    ASSUME NEW m, NEW S, IsFiniteSet(S), Sized(m, S), NEW T \in SUBSET S, NEW x \in S \ T
    PROVE  Total(m, T \cup {x}) = m[x].size + Total(m, T)
<1>1. PICK f \in [SUBSET S -> Int] : Sums(m, S, f)
  BY SumsExist
<1>2. \A U \in SUBSET S : IsFiniteSet(U) /\ Sized(m, U)
  BY FS_Subset DEF Sized
<1>3. \A U \in SUBSET S : Total(m, U) = f[U]
  BY <1>1, <1>2, TotalOf
<1>4. \A U \in SUBSET S : f[U] \in Int
  OBVIOUS
<1>5. Adds(m, S, f)
  BY <1>1, <1>4, SumsSplit
<1>6. f[T \cup {x}] = m[x].size + f[T]
  BY <1>5 DEF Adds
<1>7. T \cup {x} \in SUBSET S
  OBVIOUS
<1> QED
  BY <1>3, <1>6, <1>7

\* Maps that agree on the sizes of S have the same total over S.
LEMMA TotalSame ==
    ASSUME NEW m, NEW n, NEW S, IsFiniteSet(S), Sized(m, S),
           \A k \in S : m[k].size = n[k].size
    PROVE  Total(m, S) = Total(n, S)
<1>0. Sized(n, S)
  BY DEF Sized
<1>1. PICK f \in [SUBSET S -> Int] : Sums(m, S, f)
  BY SumsExist
<1>2. PICK g \in [SUBSET S -> Int] : Sums(n, S, g)
  BY <1>0, SumsExist
<1>3. Total(m, S) = f[S] /\ Total(n, S) = g[S]
  BY <1>0, <1>1, <1>2, TotalOf
<1> QED
  BY <1>1, <1>2, <1>3, SumsAgree

\* What is taken out of a total is the total of what goes.
LEMMA TotalMinus ==
    ASSUME NEW m, NEW S, IsFiniteSet(S), Sized(m, S), NEW V0 \in SUBSET S
    PROVE  Total(m, S \ V0) = Total(m, S) - Total(m, V0)
<1> DEFINE Splits(V) == Total(m, S \ V) = Total(m, S) - Total(m, V)
           G == {V \in SUBSET S : ~ Splits(V)}
<1>1. \A V \in SUBSET S : Total(m, V) \in Int
  <2>1. \A V \in SUBSET S : IsFiniteSet(V) /\ Sized(m, V)
    BY FS_Subset DEF Sized
  <2> QED
    BY <2>1, TotalInt
<1>2. SUFFICES ASSUME G # {} PROVE FALSE
  OBVIOUS
<1>3. PICK V \in G : \A W \in G : W \subseteq V => W = V
  <2>1. G \subseteq SUBSET S
    OBVIOUS
  <2> HIDE DEF G
  <2> QED
    BY <1>2, <2>1, SmallestSet
<1>4. CASE V = {}
  <2>1. S \ V = S
    BY <1>4
  <2>2. Total(m, V) = 0 /\ Total(m, S) \in Int
    BY <1>1, <1>4, TotalEmpty
  <2>3. Total(m, S) = Total(m, S) - Total(m, V)
    BY <2>2
  <2> QED
    BY <1>3, <2>1, <2>3
<1>5. CASE V # {}
  <2>1. PICK x \in V : TRUE
    BY <1>5
  <2> DEFINE W == V \ {x}
             R == S \ V
  <2>2. W \in SUBSET S /\ x \in S \ W /\ W \cup {x} = V
    BY <1>3, <2>1
  <2>3. R \in SUBSET S /\ x \in S \ R /\ R \cup {x} = S \ W
    BY <1>3, <2>1
  <2>4. Total(m, V) = m[x].size + Total(m, W)
    BY <2>2, TotalAdd
  <2>5. Total(m, S \ W) = m[x].size + Total(m, R)
    BY <2>3, TotalAdd
  <2>6. Splits(W)
    BY <1>3, <2>1, <2>2
  <2>7. m[x].size \in Int
    BY <2>2 DEF Sized
  <2>8. Total(m, W) \in Int /\ Total(m, R) \in Int /\ Total(m, S) \in Int
    BY <1>1, <2>2, <2>3
  <2>9. Total(m, R) = Total(m, S) - Total(m, V)
    BY <2>4, <2>5, <2>6, <2>7, <2>8
  <2> QED
    BY <1>3, <2>9
<1> QED
  BY <1>4, <1>5
-----------------------------------------------------------------------------
(* The inductive invariant.  The order has to be one of the items for the  *)
(* loop of Set to be able to empty the cache; that this always makes room  *)
(* is NeverOvercounted, because the sizes the loop subtracts are then at   *)
(* least what is recorded.  That evictions follow the calls needs what the *)
(* order of access says of them.                                           *)

\* Of two items, the one with the later access was used since the other was.
Remembered == \A j, k \in DOMAIN items : <<j, k>> \in before => k \in since[j]

IInv ==
    /\ TypeOK
    /\ IsFiniteSet(DOMAIN items)
    /\ ItemsBounded
    /\ NeverOvercounted
    /\ Remembered

LEMMA ItemTypes ==
    ASSUME TypeOK
    PROVE  /\ \A k \in DOMAIN items : /\ k \in Keys
                                      /\ items[k] \in Item
                                      /\ items[k].size \in Sizes
                                      /\ items[k].size \in Nat
                                      /\ items[k].age \in 0 .. TTL + 1
           /\ Sized(items, DOMAIN items)
<1>1. \A k \in DOMAIN items : k \in Keys /\ items[k] \in Item
  BY DEF TypeOK
<1>2. \A i \in Item : i.size \in Sizes /\ i.size \in Nat /\ i.age \in 0 .. TTL + 1
  BY MemoryAssumption DEF Item
<1> QED
  BY <1>1, <1>2 DEF Sized

LEMMA TotalOfItems ==
    /\ TrueSize = Total(items, DOMAIN items)
    /\ TrueSize' = Total(items', DOMAIN items')
<1>1. TrueSize = Total(items, DOMAIN items)
  BY DEF TrueSize, SizeOf, Total
<1>2. (TrueSize = Total(items, DOMAIN items))'
  BY <1>1, PTL
<1> QED
  BY <1>1, <1>2

\* Sizes of sets of items are numbers, and what goes is taken off the total.
LEMMA SizesOfItems ==
    ASSUME TypeOK, IsFiniteSet(DOMAIN items), NEW S \in SUBSET DOMAIN items
    PROVE  /\ IsFiniteSet(S) /\ SizeOf(S) \in Int /\ TrueSize \in Int
           /\ SizeOf(DOMAIN items \ S) = TrueSize - SizeOf(S)
<1>1. Sized(items, DOMAIN items) /\ Sized(items, S) /\ IsFiniteSet(S)
  BY ItemTypes, FS_Subset DEF Sized
<1>2. Total(items, S) \in Int /\ Total(items, DOMAIN items) \in Int
  BY <1>1, TotalInt
<1>3. Total(items, DOMAIN items \ S) = Total(items, DOMAIN items) - Total(items, S)
  BY <1>1, TotalMinus
<1>4. \A T : SizeOf(T) = Total(items, T)
  BY DEF SizeOf, Total
<1> QED
  BY <1>1, <1>2, <1>3, <1>4 DEF TrueSize

LEMMA SmallerOrder ==
    ASSUME StrictOrder(before, DOMAIN items), NEW S
    PROVE  StrictOrder(Among(S), DOMAIN items \ S)
BY DEF StrictOrder, Among

LEMMA LatestOrder ==
    ASSUME StrictOrder(before, DOMAIN items), NEW k, NEW S
    PROVE  StrictOrder(Latest(k, S), (DOMAIN items \ S) \cup {k})
<1> DEFINE R == DOMAIN items \ (S \cup {k})
<1>1. StrictOrder(Among(S \cup {k}), R)
  BY SmallerOrder
<1>2. (DOMAIN items \ S) \cup {k} = R \cup {k} /\ k \notin R
  OBVIOUS
<1>3. Latest(k, S) = Among(S \cup {k}) \cup (R \X {k})
  BY DEF Latest
<1> DEFINE A == Among(S \cup {k})
           L == A \cup (R \X {k})
<1> HIDE DEF A, R
<1>4. \A i, j : <<i, j>> \in L <=> <<i, j>> \in A \/ (i \in R /\ j = k)
  OBVIOUS
<1>5. \A i, j : <<i, j>> \in A => i \in R /\ j \in R
  BY <1>1 DEF StrictOrder, A
<1>6. L \subseteq (R \cup {k}) \X (R \cup {k})
  BY <1>1 DEF StrictOrder, A
<1>7. \A i, j \in R \cup {k} : i # j => (<<i, j>> \in L <=> <<j, i>> \notin L)
  BY <1>1, <1>2, <1>4, <1>5 DEF StrictOrder, A
<1>8. \A i \in R \cup {k} : <<i, i>> \notin L
  BY <1>1, <1>2, <1>4, <1>5 DEF StrictOrder, A
<1>9. \A h, i, j \in R \cup {k} : <<h, i>> \in L /\ <<i, j>> \in L => <<h, j>> \in L
  BY <1>1, <1>2, <1>4, <1>5 DEF StrictOrder, A
<1>10. StrictOrder(L, R \cup {k})
  BY <1>6, <1>7, <1>8, <1>9 DEF StrictOrder
<1> QED
  BY <1>2, <1>3, <1>10 DEF A, R
-----------------------------------------------------------------------------
\* Emptying the cache makes room for anything that is not larger than it.
LEMMA EmptyingMakesRoom ==
    ASSUME IInv, NEW k \in Keys, NEW size \in Sizes, MaxSize = 0 \/ size <= MaxSize
    PROVE  DOMAIN items \in Victims /\ ~ NeedsSpace(k, size, DOMAIN items)
<1>1. DOMAIN items \in Victims
  BY DEF IInv, TypeOK, StrictOrder, Victims
<1>2. Replaced(k) \in Nat
  BY ItemTypes DEF IInv, Replaced
<1>3. TrueSize \in Int /\ currentSize \in Int /\ size \in Nat /\ MaxSize \in Nat
  BY SizesOfItems, MemoryAssumption DEF IInv, TypeOK
<1>4. SizeAfter(k, DOMAIN items) + size <= size
  BY <1>2, <1>3 DEF IInv, NeverOvercounted, TrueSize, SizeAfter
<1>5. Cardinality(DOMAIN items \ DOMAIN items) = 0
  BY FS_EmptySet
<1>6. SizeAfter(k, DOMAIN items) \in Int
  BY <1>2, <1>3 DEF SizeAfter, TrueSize
<1>7. ~ (MaxSize > 0 /\ SizeAfter(k, DOMAIN items) + size > MaxSize)
  BY <1>3, <1>4, <1>6
<1>8. ~ (MaxItems > 0 /\ 0 >= MaxItems)
  BY MemoryAssumption
<1> QED
  BY <1>1, <1>5, <1>7, <1>8 DEF NeedsSpace

\* So the loop of Set ends, with the fewest evictions that make room.
LEMMA LoopEnds ==
    ASSUME IInv, NEW k \in Keys, NEW size \in Sizes, MaxSize = 0 \/ size <= MaxSize
    PROVE  Evictions(k, size) \in Victims /\ ~ NeedsSpace(k, size, Evictions(k, size))
<1> DEFINE Ends(V) == /\ ~ NeedsSpace(k, size, V)
                      /\ \A W \in Victims : W \subseteq V /\ W # V => NeedsSpace(k, size, W)
           G == {V \in Victims : ~ NeedsSpace(k, size, V)}
<1>1. \E V \in G : \A W \in G : W \subseteq V => W = V
  <2>1. G \subseteq SUBSET DOMAIN items /\ G # {} /\ IsFiniteSet(DOMAIN items)
    BY EmptyingMakesRoom DEF Victims, IInv
  <2> HIDE DEF G
  <2> QED
    BY <2>1, SmallestSet
<1>2. \E V \in Victims : Ends(V)
  BY <1>1
<1>3. Evictions(k, size) = CHOOSE V \in Victims : Ends(V)
  BY DEF Evictions
<1>4. Evictions(k, size) \in Victims /\ Ends(Evictions(k, size))
  <2> HIDE DEF Ends
  <2> QED
    BY <1>2, <1>3
<1> QED
  BY <1>4
-----------------------------------------------------------------------------
LEMMA InitHolds == Init => IInv
<1> SUFFICES ASSUME Init PROVE IInv
  OBVIOUS
<1>1. DOMAIN items = {} /\ before = {} /\ currentSize = 0
  BY DEF Init
<1>2. items \in [{} -> Item]
  BY DEF Init
<1>3. IsFiniteSet(DOMAIN items) /\ Cardinality(DOMAIN items) = 0
  BY <1>1, FS_EmptySet
<1>4. TrueSize = 0
  BY <1>1, TotalEmpty, TotalOfItems
<1>5. TypeOK
  BY <1>1, <1>2 DEF Init, TypeOK, StrictOrder
<1>6. Remembered
  BY <1>1 DEF Remembered
<1> QED
  BY <1>1, <1>3, <1>4, <1>5, <1>6, MemoryAssumption DEF IInv, ItemsBounded, NeverOvercounted

\* A use of k that puts it behind everything that stays is remembered.
LEMMA UseRemembered ==
    ASSUME IInv, NEW k \in Keys, NEW S, before' = Latest(k, S), Uses(k)
    PROVE  since' \in [Keys -> SUBSET Keys] /\ Remembered'
<1>1. since \in [Keys -> SUBSET Keys] /\ DOMAIN items \subseteq Keys /\ Remembered
      /\ StrictOrder(before, DOMAIN items)
  BY DEF IInv, TypeOK
<1>2. since' \in [Keys -> SUBSET Keys]
  BY <1>1 DEF Uses
<1>3. \A i, j : <<i, j>> \in before' =>
          /\ i \in DOMAIN items /\ i # k
          /\ \/ j = k
             \/ j # k /\ j \in DOMAIN items /\ <<i, j>> \in before
  <2>1. \A i, j : <<i, j>> \in before => i \in DOMAIN items /\ j \in DOMAIN items
    BY <1>1 DEF StrictOrder
  <2>2. \A i, j : <<i, j>> \in Among(S \cup {k}) =>
            <<i, j>> \in before /\ i # k /\ j # k
    BY DEF Among
  <2>3. \A i, j : <<i, j>> \in (DOMAIN items \ (S \cup {k})) \X {k} =>
            i \in DOMAIN items /\ i # k /\ j = k
    OBVIOUS
  <2> QED
    BY <2>1, <2>2, <2>3 DEF Latest
<1>4. \A i \in Keys : i # k => since'[i] = since[i] \cup {k}
  BY <1>1 DEF Uses
<1>5. \A i, j \in DOMAIN items' : <<i, j>> \in before' => j \in since'[i]
  BY <1>1, <1>3, <1>4 DEF Remembered
<1> QED
  BY <1>2, <1>5 DEF Remembered

\* deleteLocked gives back exactly what it takes out.
LEMMA DeletedSize ==
    ASSUME IInv, NEW S \in SUBSET DOMAIN items, DeleteLocked(S)
    PROVE  TrueSize' = TrueSize - SizeOf(S)
<1> DEFINE D == DOMAIN items
<1>1. items' = [x \in D \ S |-> items[x]] /\ DOMAIN items' = D \ S
  BY DEF DeleteLocked, Without
<1>2. TypeOK /\ IsFiniteSet(D) /\ IsFiniteSet(D \ S)
  BY FS_Subset DEF IInv
<1>3. TrueSize' = Total(items', D \ S)
  BY <1>1, TotalOfItems
<1>4. \A x \in D \ S : items[x].size = items'[x].size
  BY <1>1
<1>5. Sized(items, D \ S)
  BY <1>2, ItemTypes DEF Sized
<1>6. Total(items, D \ S) = Total(items', D \ S)
  BY <1>2, <1>4, <1>5, TotalSame
<1>7. SizeOf(D \ S) = Total(items, D \ S)
  BY DEF SizeOf, Total
<1> QED
  BY <1>2, <1>3, <1>6, <1>7, SizesOfItems

\* What a Set leaves: the size of the item it overwrites goes once, with the
\* evictions or without them.
LEMMA StoredSize ==
    ASSUME IInv, NEW k \in Keys, NEW size \in Sizes, NEW V \in SUBSET DOMAIN items,
           Store(k, size, V)
    PROVE  TrueSize' = IF k \in V THEN TrueSize - SizeOf(V) + size
                       ELSE TrueSize - Replaced(k) - SizeOf(V) + size
<1> DEFINE D == DOMAIN items
           R == D \ (V \cup {k})
           N == (D \ V) \cup {k}
<1>1. /\ items' = [x \in N |-> IF x = k THEN [size |-> size, age |-> 0] ELSE items[x]]
      /\ DOMAIN items' = N
  BY DEF Store
<1>2. TypeOK /\ IsFiniteSet(D) /\ TrueSize \in Int /\ SizeOf(V) \in Int
  BY SizesOfItems DEF IInv
<1>3. size \in Nat
  BY MemoryAssumption
<1>4. IsFiniteSet(R) /\ IsFiniteSet(N) /\ N = R \cup {k} /\ k \notin R
  <2>1. IsFiniteSet(D \ V) /\ IsFiniteSet(R)
    BY <1>2, FS_Subset
  <2> QED
    BY <2>1, FS_AddElement
<1>5. TrueSize' = size + SizeOf(R)
  <2>1. TrueSize' = Total(items', N)
    BY <1>1, TotalOfItems
  <2>2. items'[k].size = size /\ \A x \in R : items[x].size = items'[x].size
    BY <1>1
  <2>3. Sized(items, R)
    BY <1>2, ItemTypes DEF Sized
  <2>4. Sized(items', N)
    BY <1>3, <1>4, <2>2, <2>3 DEF Sized
  <2>5. Total(items', R \cup {k}) = items'[k].size + Total(items', R)
    <3>1. R \in SUBSET N /\ k \in N \ R
      BY <1>4
    <3> QED
      BY <1>4, <2>4, <3>1, TotalAdd
  <2>6. Total(items, R) = Total(items', R)
    BY <1>4, <2>2, <2>3, TotalSame
  <2>7. SizeOf(R) = Total(items, R)
    BY DEF SizeOf, Total
  <2> QED
    BY <1>4, <2>1, <2>2, <2>5, <2>6, <2>7
<1>6. SizeOf(D \ V) = TrueSize - SizeOf(V)
  BY <1>2, SizesOfItems
<1>7. CASE k \in D \ V
  <2>1. R \in SUBSET D /\ k \in D \ R /\ R \cup {k} = D \ V
    BY <1>7
  <2>2. Total(items, D \ V) = items[k].size + Total(items, R)
    BY <1>2, <2>1, ItemTypes, TotalAdd
  <2>3. SizeOf(D \ V) = Total(items, D \ V) /\ SizeOf(R) = Total(items, R)
    BY DEF SizeOf, Total
  <2>4. Replaced(k) = items[k].size /\ Replaced(k) \in Nat /\ k \notin V
    BY <1>2, <1>7, ItemTypes DEF Replaced
  <2>5. SizeOf(R) \in Int
    BY <1>2, <2>1, SizesOfItems
  <2>6. SizeOf(R) = TrueSize - Replaced(k) - SizeOf(V)
    BY <1>2, <1>6, <2>2, <2>3, <2>4, <2>5
  <2> HIDE DEF R
  <2> QED
    BY <1>2, <1>3, <1>5, <2>4, <2>6
<1>8. CASE k \notin D \ V
  <2>1. R = D \ V
    BY <1>8
  <2>2. SizeOf(R) = TrueSize - SizeOf(V)
    BY <1>6, <2>1
  <2>3. k \notin V => Replaced(k) = 0
    BY <1>8 DEF Replaced
  <2> HIDE DEF R
  <2> QED
    BY <1>2, <1>3, <1>5, <2>2, <2>3
<1> QED
  BY <1>7, <1>8

LEMMA DeleteLockedKeeps ==
    ASSUME IInv, NEW S \in SUBSET DOMAIN items, DeleteLocked(S)
    PROVE  IInv'
<1> DEFINE D == DOMAIN items
<1>1. /\ items' = [x \in D \ S |-> items[x]] /\ DOMAIN items' = D \ S
      /\ before' = Among(S) /\ currentSize' = currentSize - SizeOf(S) /\ since' = since
  BY DEF DeleteLocked, Without
<1>2. TypeOK /\ IsFiniteSet(D) /\ TrueSize \in Int /\ SizeOf(S) \in Int /\ currentSize \in Int
  BY SizesOfItems DEF IInv, TypeOK
<1>3. IsFiniteSet(D \ S) /\ Cardinality(D \ S) <= Cardinality(D)
      /\ Cardinality(D \ S) \in Nat /\ Cardinality(D) \in Nat
  BY <1>2, FS_Subset, FS_CardinalityType
<1>4. TypeOK'
  <2>1. D \ S \subseteq Keys /\ items' \in [D \ S -> Item]
    BY <1>1, <1>2, ItemTypes
  <2>2. StrictOrder(before', D \ S)
    BY <1>1, <1>2, SmallerOrder DEF TypeOK
  <2> QED
    BY <1>1, <1>2, <2>1, <2>2 DEF TypeOK
<1>5. ItemsBounded'
  BY <1>1, <1>3, MemoryAssumption DEF IInv, ItemsBounded
<1>6. TrueSize' = TrueSize - SizeOf(S)
  BY DeletedSize
<1>7. NeverOvercounted'
  BY <1>1, <1>2, <1>6 DEF IInv, NeverOvercounted
<1>8. Remembered'
  BY <1>1 DEF IInv, Remembered, Among
<1> QED
  BY <1>1, <1>3, <1>4, <1>5, <1>7, <1>8 DEF IInv

LEMMA HitKeeps ==
    ASSUME IInv, NEW k \in Keys, Hit(k)
    PROVE  IInv'
<1>1. items' = items /\ currentSize' = currentSize /\ before' = Latest(k, {}) /\ k \in DOMAIN items
      /\ Uses(k)
  BY DEF Hit
<1>2. StrictOrder(before', DOMAIN items)
  <2>1. (DOMAIN items \ {}) \cup {k} = DOMAIN items
    BY <1>1
  <2> QED
    BY <1>1, <2>1, LatestOrder DEF IInv, TypeOK
<1>3. TrueSize' = TrueSize
  BY <1>1, TotalOfItems
<1>4. since' \in [Keys -> SUBSET Keys] /\ Remembered'
  BY <1>1, UseRemembered
<1> QED
  BY <1>1, <1>2, <1>3, <1>4 DEF IInv, TypeOK, ItemsBounded, NeverOvercounted

LEMMA SetStoredKeeps ==
    ASSUME IInv, NEW k \in Keys, NEW size \in Sizes, SetStored(k, size)
    PROVE  IInv'
<1> DEFINE D == DOMAIN items
           V == Evictions(k, size)
           N == (D \ V) \cup {k}
<1>1. V \in Victims /\ ~ NeedsSpace(k, size, V) /\ Store(k, size, V)
  BY LoopEnds DEF SetStored
<1> HIDE DEF V
<1>2. V \subseteq D
  BY <1>1 DEF Victims
<1>3. /\ items' = [x \in N |-> IF x = k THEN [size |-> size, age |-> 0] ELSE items[x]]
      /\ DOMAIN items' = N
      /\ before' = Latest(k, V)
      /\ currentSize' = SizeAfter(k, V) + size
      /\ Uses(k)
  BY <1>1 DEF Store
<1>4. TypeOK /\ IsFiniteSet(D) /\ TrueSize \in Int /\ SizeOf(V) \in Int /\ currentSize \in Int
  BY <1>2, SizesOfItems DEF IInv, TypeOK
<1>5. size \in Nat /\ Replaced(k) \in Nat
  BY <1>4, ItemTypes, MemoryAssumption DEF Replaced
<1>6. IsFiniteSet(D \ V) /\ IsFiniteSet(N)
  <2>1. IsFiniteSet(D \ V)
    BY <1>4, FS_Subset
  <2> QED
    BY <2>1, FS_AddElement
<1>10. since' \in [Keys -> SUBSET Keys] /\ Remembered'
  BY <1>3, UseRemembered
<1>7. TypeOK'
  <2>1. N \subseteq Keys
    BY <1>4 DEF TypeOK
  <2>2. [size |-> size, age |-> 0] \in Item
    BY MemoryAssumption DEF Item
  <2>3. \A x \in N : (IF x = k THEN [size |-> size, age |-> 0] ELSE items[x]) \in Item
    BY <1>4, <2>2, ItemTypes
  <2>4. items' \in [N -> Item]
    BY <1>3, <2>3
  <2>5. StrictOrder(before', N)
    BY <1>3, <1>4, LatestOrder DEF TypeOK
  <2>6. currentSize' \in Int
    BY <1>3, <1>4, <1>5 DEF SizeAfter
  <2> QED
    BY <1>3, <1>10, <2>1, <2>4, <2>5, <2>6 DEF TypeOK
<1>8. ItemsBounded'
  <2>1. Cardinality(D \ V) \in Nat /\ Cardinality(N) <= Cardinality(D \ V) + 1
        /\ Cardinality(N) \in Nat
    <3>1. Cardinality(N) = IF k \in D \ V THEN Cardinality(D \ V) ELSE Cardinality(D \ V) + 1
      BY <1>6, FS_AddElement
    <3> QED
      BY <1>6, <3>1, FS_CardinalityType
  <2>2. MaxItems > 0 => ~ (Cardinality(D \ V) >= MaxItems)
    BY <1>1 DEF NeedsSpace
  <2> QED
    BY <1>3, <2>1, <2>2, MemoryAssumption DEF ItemsBounded
<1>9. NeverOvercounted'
  <2>1. currentSize <= TrueSize
    BY DEF IInv, NeverOvercounted
  <2>2. currentSize' = currentSize - Replaced(k) - SizeOf(V) + size
    BY <1>3 DEF SizeAfter
  <2>3. TrueSize' = IF k \in V THEN TrueSize - SizeOf(V) + size
                    ELSE TrueSize - Replaced(k) - SizeOf(V) + size
    BY <1>1, <1>2, StoredSize
  <2>4. currentSize' <= TrueSize'
    BY <1>4, <1>5, <2>1, <2>2, <2>3
  <2> QED
    BY <2>4 DEF NeverOvercounted
<1> QED
  BY <1>3, <1>6, <1>7, <1>8, <1>9, <1>10 DEF IInv

\* With the same items and order nothing the invariant speaks of changes but
\* the recorded size.
LEMMA UnchangedKeeps ==
    ASSUME IInv, UNCHANGED <<items, before, currentSize, since>>
    PROVE  IInv'
<1>1. TrueSize' = TrueSize
  BY TotalOfItems
<1> QED
  BY <1>1 DEF IInv, TypeOK, ItemsBounded, NeverOvercounted, Remembered

LEMMA ClearKeeps ==
    ASSUME IInv, Clear
    PROVE  IInv'
<1>1. DOMAIN items' = {} /\ items' \in [{} -> Item] /\ before' = {} /\ currentSize' = 0
      /\ since' = since
  BY DEF Clear, Without
<1>2. IsFiniteSet(DOMAIN items') /\ Cardinality(DOMAIN items') = 0
  BY <1>1, FS_EmptySet
<1>3. TrueSize' = 0
  BY <1>1, TotalEmpty, TotalOfItems
<1>4. TypeOK' /\ Remembered'
  BY <1>1 DEF IInv, TypeOK, StrictOrder, Remembered
<1> QED
  BY <1>1, <1>2, <1>3, <1>4, MemoryAssumption DEF IInv, ItemsBounded, NeverOvercounted

LEMMA TickSize ==
    ASSUME IInv, Tick
    PROVE  TrueSize' = TrueSize /\ DOMAIN items' = DOMAIN items
           /\ items' \in [DOMAIN items -> Item]
<1> DEFINE D == DOMAIN items
           Older(i) == [i EXCEPT !.age = IF @ > TTL THEN @ ELSE @ + 1]
<1>1. items' = [k \in D |-> Older(items[k])]
  BY DEF Tick
<1>2. \A i \in Item : Older(i) \in Item /\ Older(i).size = i.size
  BY MemoryAssumption DEF Item
<1>3. TypeOK /\ IsFiniteSet(D) /\ Sized(items, D)
  BY ItemTypes DEF IInv
<1> HIDE DEF Older
<1>4. DOMAIN items' = D /\ items' \in [D -> Item]
  BY <1>1, <1>2, <1>3, ItemTypes
<1>5. \A k \in D : items[k].size = items'[k].size
  BY <1>1, <1>2, <1>3, ItemTypes
<1> QED
  BY <1>3, <1>4, <1>5, TotalSame, TotalOfItems

LEMMA TickKeeps ==
    ASSUME IInv, Tick
    PROVE  IInv'
<1>1. before' = before /\ currentSize' = currentSize /\ since' = since
  BY DEF Tick
<1> QED
  BY <1>1, TickSize DEF IInv, TypeOK, ItemsBounded, NeverOvercounted, Remembered

LEMMA NextKeeps == IInv /\ [Next]_vars => IInv'
<1> SUFFICES ASSUME IInv, [Next]_vars PROVE IInv'
  OBVIOUS
<1>1. ASSUME NEW k \in Keys, Miss(k) PROVE IInv'
  BY <1>1, DeleteLockedKeeps DEF Miss
<1>2. ASSUME NEW k \in Keys, Hit(k) PROVE IInv'
  BY <1>2, HitKeeps
<1>3. ASSUME NEW k \in Keys, NEW size \in Sizes, SetRefused(k, size) PROVE IInv'
  BY <1>3, UnchangedKeeps DEF SetRefused
<1>4. ASSUME NEW k \in Keys, NEW size \in Sizes, SetStored(k, size) PROVE IInv'
  BY <1>4, SetStoredKeeps
<1>5. ASSUME NEW k \in Keys, Delete(k) PROVE IInv'
  BY <1>5, DeleteLockedKeeps DEF Delete
<1>6. CASE Clear
  BY <1>6, ClearKeeps
<1>7. CASE DeleteExpired
  BY <1>7, DeleteLockedKeeps DEF DeleteExpired
<1>8. CASE Tick
  BY <1>8, TickKeeps
<1>9. CASE UNCHANGED vars
  BY <1>9, UnchangedKeeps DEF vars
<1> QED
  BY <1>1, <1>2, <1>3, <1>4, <1>5, <1>6, <1>7, <1>8, <1>9 DEF Next, Get, Set

LEMMA Invariance == SafeSpec => []IInv
BY InitHolds, NextKeeps, PTL DEF SafeSpec

\* The cache holds items of the configured sizes and ages under its keys, and
\* the times of access (Memory.Get, Memory.Set) put them in one strict order.
THEOREM TypeCorrect == Spec => []TypeOK
<1>1. IInv => TypeOK
  BY DEF IInv
<1> QED
  BY <1>1, Invariance, PTL DEF Spec

\* Whatever the sizes, limits and order of calls, never more responses than
\* cache.memory.max_items are held: Set evicts before it stores, and the loop
\* it evicts in ends.
THEOREM ItemsBoundedHolds == Spec => []ItemsBounded
<1>1. IInv => ItemsBounded
  BY DEF IInv
<1> QED
  BY <1>1, Invariance, PTL DEF Spec

\* The bytes the cache thinks it holds are at most those it does hold.  A Set
\* that evicts the item it overwrites subtracts that size twice, so the two
\* may differ, but only this way round.
THEOREM NeverOvercountedHolds == Spec => []NeverOvercounted
<1>1. IInv => NeverOvercounted
  BY DEF IInv
<1> QED
  BY <1>1, Invariance, PTL DEF Spec

\* Data that passed the size check of Set is always stored: evicting
\* everything makes room for it, because the recorded size is no larger than
\* the sum of what is then subtracted.
THEOREM EvictionSucceedsHolds == Spec => []EvictionSucceeds
<1>1. IInv => EvictionSucceeds
  BY EmptyingMakesRoom DEF EvictionSucceeds
<1> QED
  BY <1>1, Invariance, PTL DEF Spec

\* What a Set evicts was used, by the calls of Get and Set that were made, the
\* longest time ago: everything it keeps was used since.  The order the cache
\* evicts in remembers the calls, and the evictions are closed under it.
THEOREM EvictsLeastRecentHolds == Spec => EvictsLeastRecent
<1> DEFINE Step ==
             last'.op = "set" =>
                 \A j \in DOMAIN items \ DOMAIN items' :
                     \A k \in (DOMAIN items \cap DOMAIN items') \ {last'.key} : k \in since[j]
<1>1. ASSUME IInv, Next PROVE Step
  <2>1. ASSUME NEW k \in Keys, NEW size \in Sizes, SetStored(k, size) PROVE Step
    <3> DEFINE V == Evictions(k, size)
    <3>1. V \in Victims /\ Store(k, size, V)
      BY <1>1, <2>1, LoopEnds DEF SetStored
    <3> HIDE DEF V
    <3>2. DOMAIN items' = (DOMAIN items \ V) \cup {k} /\ last'.key = k
      BY <3>1 DEF Store
    <3>3. \A p \in before : p[2] \in V => p[1] \in V
      BY <3>1 DEF Victims
    <3>4. \A i, j \in DOMAIN items : i # j => (<<i, j>> \in before \/ <<j, i>> \in before)
      BY <1>1 DEF IInv, TypeOK, StrictOrder
    <3>5. \A j, i \in DOMAIN items : j \in V /\ i \notin V => <<j, i>> \in before
      BY <3>3, <3>4
    <3>6. \A j, i \in DOMAIN items : j \in V /\ i \notin V => i \in since[j]
      BY <1>1, <3>5 DEF IInv, Remembered
    <3> QED
      BY <3>2, <3>6
  <2>2. ASSUME last'.op # "set" PROVE Step
    BY <2>2
  <2>3. ASSUME NEW k \in Keys, \/ Get(k) \/ Delete(k)
                               \/ \E size \in Sizes : SetRefused(k, size)
        PROVE  last'.op # "set"
    BY <2>3 DEF Get, Miss, Hit, Delete, SetRefused
  <2>4. Clear \/ DeleteExpired \/ Tick => last'.op # "set"
    BY DEF Clear, DeleteExpired, Tick
  <2> HIDE DEF Step
  <2> QED
    BY <1>1, <2>1, <2>2, <2>3, <2>4 DEF Next, Set
<1>2. IInv /\ [Next]_vars => [Step]_vars
  BY <1>1
<1> QED
  BY <1>2, Invariance, PTL DEF Spec, SafeSpec, EvictsLeastRecent
-----------------------------------------------------------------------------
(* How far the bytes held may exceed the limit.                            *)

LEMMA SizesArePositive ==
    ASSUME IInv, NEW S \in SUBSET DOMAIN items
    PROVE  SizeOf(S) >= 0
<1> DEFINE G == {V \in SUBSET DOMAIN items : ~ (SizeOf(V) >= 0)}
<1>1. TypeOK /\ IsFiniteSet(DOMAIN items)
  BY DEF IInv
<1>2. SUFFICES ASSUME G # {} PROVE FALSE
  OBVIOUS
<1>3. PICK V \in G : \A W \in G : W \subseteq V => W = V
  <2>1. G \subseteq SUBSET DOMAIN items
    OBVIOUS
  <2> HIDE DEF G
  <2> QED
    BY <1>1, <1>2, <2>1, SmallestSet
<1>4. \A T : SizeOf(T) = Total(items, T)
  BY DEF SizeOf, Total
<1>5. CASE V = {}
  BY <1>3, <1>4, <1>5, TotalEmpty
<1>6. CASE V # {}
  <2>1. PICK x \in V : TRUE
    BY <1>6
  <2> DEFINE W == V \ {x}
  <2>2. W \in SUBSET DOMAIN items /\ x \in DOMAIN items \ W /\ W \cup {x} = V
    BY <1>3, <2>1
  <2>3. Total(items, V) = items[x].size + Total(items, W)
    BY <1>1, <2>2, ItemTypes, TotalAdd
  <2>4. SizeOf(W) >= 0 /\ SizeOf(W) \in Int /\ items[x].size \in Nat
    BY <1>1, <1>3, <2>1, <2>2, ItemTypes, SizesOfItems
  <2> HIDE DEF W
  <2> QED
    BY <1>3, <1>4, <2>3, <2>4
<1> QED
  BY <1>5, <1>6

\* The limit holds of the size the cache has recorded ...
RecordedWithinLimit == MaxSize > 0 => currentSize <= MaxSize

\* ... and the two sizes only part when a Set evicts the item it overwrites.
PartsOnlyByEvictingOverwritten ==
    [][currentSize = TrueSize /\ currentSize' # TrueSize' =>
          \E k \in DOMAIN items, size \in Sizes :
              SetStored(k, size) /\ k \in Evictions(k, size)]_vars

LEMMA NextKeepsLimit == IInv /\ RecordedWithinLimit /\ [Next]_vars => RecordedWithinLimit'
<1> SUFFICES ASSUME IInv, RecordedWithinLimit, [Next]_vars PROVE RecordedWithinLimit'
  OBVIOUS
<1>0. MaxSize \in Nat /\ currentSize \in Int
  BY MemoryAssumption DEF IInv, TypeOK
<1>1. ASSUME NEW S \in SUBSET DOMAIN items, DeleteLocked(S) PROVE RecordedWithinLimit'
  <2>1. SizeOf(S) \in Int /\ SizeOf(S) >= 0
    BY SizesArePositive, SizesOfItems DEF IInv
  <2> QED
    BY <1>0, <1>1, <2>1 DEF DeleteLocked, RecordedWithinLimit
<1>2. ASSUME NEW k \in Keys, NEW size \in Sizes, SetStored(k, size) PROVE RecordedWithinLimit'
  <2> DEFINE V == Evictions(k, size)
  <2>1. V \in Victims /\ ~ NeedsSpace(k, size, V) /\ Store(k, size, V)
    BY <1>2, LoopEnds DEF SetStored
  <2> HIDE DEF V
  <2>2. SizeAfter(k, V) \in Int /\ size \in Nat
    <3>1. Replaced(k) \in Nat /\ SizeOf(V) \in Int
      BY <2>1, ItemTypes, SizesOfItems DEF IInv, Replaced, Victims
    <3> QED
      BY <1>0, <3>1, MemoryAssumption DEF SizeAfter
  <2>3. MaxSize > 0 => ~ (SizeAfter(k, V) + size > MaxSize)
    BY <2>1 DEF NeedsSpace
  <2>4. currentSize' = SizeAfter(k, V) + size
    BY <2>1 DEF Store
  <2> QED
    BY <1>0, <2>2, <2>3, <2>4 DEF RecordedWithinLimit
<1>3. CASE UNCHANGED currentSize
  BY <1>3 DEF RecordedWithinLimit
<1>4. CASE Clear
  BY <1>0, <1>4 DEF Clear, RecordedWithinLimit
<1>5. CASE DeleteExpired
  BY <1>1, <1>5 DEF DeleteExpired
<1>6. ASSUME NEW k \in Keys, Get(k) \/ Delete(k) PROVE RecordedWithinLimit'
  BY <1>1, <1>3, <1>6 DEF Get, Miss, Hit, Delete
<1> QED
  BY <1>2, <1>3, <1>4, <1>5, <1>6 DEF Next, Set, SetRefused, Tick, vars

\* The size that currentSize records stays within cache.memory.max_size, in
\* every order of calls: only what is not recorded can exceed it.
THEOREM RecordedWithinLimitHolds == Spec => []RecordedWithinLimit
<1>1. Init => RecordedWithinLimit
  BY MemoryAssumption DEF Init, RecordedWithinLimit
<1> QED
  BY <1>1, NextKeepsLimit, Invariance, PTL DEF Spec, SafeSpec

\* What is not recorded has one cause: a Set whose own evictions take out the
\* item it overwrites, which it has subtracted already (Memory.Set).  No other
\* call makes the two sizes differ.
THEOREM PartsOnlyByEvictingOverwrittenHolds == Spec => PartsOnlyByEvictingOverwritten
<1> DEFINE Step ==
             currentSize = TrueSize /\ currentSize' # TrueSize' =>
                 \E k \in DOMAIN items, size \in Sizes :
                     SetStored(k, size) /\ k \in Evictions(k, size)
<1>1. ASSUME IInv, Next PROVE Step
  <2>0. currentSize \in Int /\ TrueSize \in Int /\ TypeOK
    BY <1>1, SizesOfItems DEF IInv, TypeOK
  <2>1. ASSUME NEW S \in SUBSET DOMAIN items, DeleteLocked(S) PROVE Step
    BY <1>1, <2>1, DeletedSize DEF DeleteLocked
  <2>2. ASSUME NEW k \in Keys, NEW size \in Sizes, SetStored(k, size) PROVE Step
    <3> DEFINE V == Evictions(k, size)
    <3>1. V \in SUBSET DOMAIN items /\ Store(k, size, V)
      BY <1>1, <2>2, LoopEnds DEF SetStored, Victims
    <3>2. CASE k \in V
      BY <2>2, <3>1, <3>2
    <3>3. CASE k \notin V
      <4>1. currentSize' = currentSize - Replaced(k) - SizeOf(V) + size
        BY <3>1 DEF Store, SizeAfter
      <4>2. TrueSize' = TrueSize - Replaced(k) - SizeOf(V) + size
        BY <1>1, <3>1, <3>3, StoredSize
      <4> QED
        BY <4>1, <4>2
    <3> QED
      BY <3>2, <3>3
  <2>3. CASE Clear
    <3>1. DOMAIN items' = {} /\ currentSize' = 0
      BY <2>3 DEF Clear, Without
    <3> QED
      BY <3>1, TotalOfItems, TotalEmpty
  <2>4. CASE Tick
    BY <1>1, <2>4, TickSize DEF Tick
  <2>5. ASSUME UNCHANGED <<items, currentSize>> PROVE Step
    BY <2>5, TotalOfItems
  <2>6. ASSUME NEW k \in Keys, Get(k) \/ Delete(k) PROVE Step
    BY <2>1, <2>5, <2>6 DEF Get, Miss, Hit, Delete
  <2>7. CASE DeleteExpired
    BY <2>1, <2>7 DEF DeleteExpired
  <2> HIDE DEF Step
  <2> QED
    BY <1>1, <2>2, <2>3, <2>4, <2>5, <2>6, <2>7 DEF Next, Set, SetRefused
<1>2. IInv /\ [Next]_vars => [Step]_vars
  BY <1>1
<1> QED
  BY <1>2, Invariance, PTL DEF Spec, SafeSpec, PartsOnlyByEvictingOverwritten
=============================================================================
