-------------------------------- MODULE Sums --------------------------------
(***************************************************************************)
(* Sums over finite sets, which the conservation properties of the         *)
(* components are about, and the least element by which facts about them   *)
(* are proved: of the smallest set that breaks a fact one element is taken *)
(* away.                                                                   *)
(***************************************************************************)
EXTENDS Integers, FiniteSets, FiniteSetsExt, FiniteSetTheorems, WellFoundedInduction, TLAPS

SumOver(f, T) == MapThenSumSet(LAMBDA p : f[p], T)

\* A set of natural numbers that is not empty has a least one.
LEMMA LeastExists ==
    ASSUME NEW T \in SUBSET Nat, T # {}
    PROVE  \E x \in T : \A y \in T : x <= y
<1>1. IsWellFoundedOn(OpToRel(<, Nat), Nat)
  BY NatLessThanWellFounded
<1>2. PICK x \in T : \A y \in T : ~(<<y, x>> \in OpToRel(<, Nat))
  BY <1>1, WFMin, Zenon
<1>3. \A y \in T : y \in Nat /\ x \in Nat => ~(y < x)
  BY <1>2, Zenon DEF OpToRel
<1> QED BY <1>3

-----------------------------------------------------------------------------
(* The fold behind a sum *)

Pick(s) == CHOOSE x \in s : TRUE

\* it is the fold of f over the subsets of T.
IsFold(it, f, T) ==
    it = [s \in SUBSET T |-> IF s = {} THEN 0 ELSE f[Pick(s)] + it[s \ {Pick(s)}]]

UpTo(n, T) == {s \in SUBSET T : Cardinality(s) <= n}

\* The fold over the subsets of at most n elements.
IsPart(it, f, T, n) ==
    /\ it \in [UpTo(n, T) -> Int]
    /\ \A s \in UpTo(n, T) : it[s] = IF s = {} THEN 0 ELSE f[Pick(s)] + it[s \ {Pick(s)}]

LEMMA Smaller ==
    ASSUME NEW T, IsFiniteSet(T), NEW s \in SUBSET T, s # {}
    PROVE  /\ Pick(s) \in s
           /\ s \ {Pick(s)} \in SUBSET T
           /\ Cardinality(s) \in Nat
           /\ Cardinality(s \ {Pick(s)}) \in Nat
           /\ Cardinality(s \ {Pick(s)}) = Cardinality(s) - 1
<1>1. Pick(s) \in s
  BY DEF Pick
<1>2. IsFiniteSet(s)
  BY FS_Subset
<1>3. IsFiniteSet(s \ {Pick(s)}) /\ Cardinality(s \ {Pick(s)}) = Cardinality(s) - 1
  BY <1>1, <1>2, FS_RemoveElement
<1> QED BY <1>1, <1>2, <1>3, FS_CardinalityType

LEMMA PartExists ==
    ASSUME NEW T, IsFiniteSet(T), NEW f \in [T -> Int], NEW n \in Nat
    PROVE  \E it : IsPart(it, f, T, n)
<1> DEFINE Bad == {m \in Nat : ~ \E it : IsPart(it, f, T, m)}
<1>1. SUFFICES ASSUME Bad # {} PROVE FALSE
  OBVIOUS
<1>2. PICK m \in Bad : \A k \in Bad : m <= k
  BY <1>1, LeastExists
<1>3. m # 0
  <2> DEFINE it == [s \in UpTo(0, T) |-> 0]
  <2>1. ASSUME NEW s \in UpTo(0, T) PROVE s = {}
    <3>1. IsFiniteSet(s) /\ Cardinality(s) \in Nat
      BY <2>1, FS_Subset, FS_CardinalityType DEF UpTo
    <3> QED BY <2>1, <3>1, FS_EmptySet DEF UpTo
  <2>2. IsPart(it, f, T, 0)
    BY <2>1 DEF IsPart
  <2> QED BY <2>2
<1>4. PICK g : IsPart(g, f, T, m - 1)
  BY <1>2, <1>3
<1> DEFINE it == [s \in UpTo(m, T) |-> IF s = {} THEN 0 ELSE f[Pick(s)] + g[s \ {Pick(s)}]]
<1>5. ASSUME NEW s \in UpTo(m, T), s # {}
      PROVE  /\ Pick(s) \in T /\ s \ {Pick(s)} \in UpTo(m - 1, T)
             /\ s \ {Pick(s)} \in UpTo(m, T)
  BY <1>5, Smaller DEF UpTo
<1>6. it \in [UpTo(m, T) -> Int]
  BY <1>4, <1>5 DEF IsPart
<1>7. \A s \in UpTo(m - 1, T) : s \in UpTo(m, T) /\ it[s] = g[s]
  <2>1. \A s \in UpTo(m - 1, T) : s \in UpTo(m, T)
    <3> SUFFICES ASSUME NEW s \in SUBSET T, Cardinality(s) <= m - 1 PROVE Cardinality(s) <= m
      BY DEF UpTo
    <3>1. Cardinality(s) \in Nat
      BY FS_Subset, FS_CardinalityType
    <3> QED BY <3>1
  <2> QED BY <1>4, <2>1 DEF IsPart
<1>8. \A s \in UpTo(m, T) : it[s] = IF s = {} THEN 0 ELSE f[Pick(s)] + it[s \ {Pick(s)}]
  BY <1>5, <1>7
<1>9. IsPart(it, f, T, m)
  BY <1>6, <1>8 DEF IsPart
<1> QED BY <1>2, <1>9

\* The fold exists, so that the sum is its value.
LEMMA FoldExists ==
    ASSUME NEW T, IsFiniteSet(T), NEW f \in [T -> Int]
    PROVE  \E it : IsFold(it, f, T) /\ it \in [SUBSET T -> Int] /\ SumOver(f, T) = it[T]
<1> DEFINE n == Cardinality(T)
<1>1. n \in Nat
  BY FS_CardinalityType
<1>2. UpTo(n, T) = SUBSET T
  BY FS_Subset DEF UpTo
<1>3. PICK g : IsPart(g, f, T, n)
  BY <1>1, PartExists
<1>4. IsFold(g, f, T) /\ g \in [SUBSET T -> Int]
  BY <1>2, <1>3 DEF IsPart, IsFold
<1> DEFINE it == CHOOSE it : IsFold(it, f, T)
<1>5. IsFold(it, f, T)
  BY <1>4
<1>6. SumOver(f, T) = it[T]
  BY DEF SumOver, MapThenSumSet, MapThenFoldSet, IsFold, Pick
<1> HIDE DEF it
<1>7. it \in [SUBSET T -> Int]
  <2> DEFINE Bad == {s \in SUBSET T : it[s] \notin Int}
             Sizes == {Cardinality(s) : s \in Bad}
  <2>1. SUFFICES ASSUME Bad # {} PROVE FALSE
    BY <1>5 DEF IsFold
  <2>2. Sizes \in SUBSET Nat /\ Sizes # {}
    BY <2>1, FS_Subset, FS_CardinalityType
  <2>3. PICK s \in Bad : \A r \in Bad : Cardinality(s) <= Cardinality(r)
    <3>1. PICK m \in Sizes : \A k \in Sizes : m <= k
      BY <2>2, LeastExists
    <3> QED BY <3>1
  <2>4. it[s] = IF s = {} THEN 0 ELSE f[Pick(s)] + it[s \ {Pick(s)}]
    BY <1>5, <2>3 DEF IsFold
  <2>5. s # {} /\ s \in SUBSET T
    BY <2>3, <2>4
  <2>6. s \ {Pick(s)} \notin Bad /\ s \ {Pick(s)} \in SUBSET T /\ Pick(s) \in T
    BY <2>3, <2>5, Smaller
  <2> QED BY <2>3, <2>4, <2>5, <2>6
<1> QED BY <1>5, <1>6, <1>7

-----------------------------------------------------------------------------
(* What the proofs use *)

LEMMA SumType ==
    ASSUME NEW T, IsFiniteSet(T), NEW f \in [T -> Int]
    PROVE  SumOver(f, T) \in Int
<1>1. PICK it : it \in [SUBSET T -> Int] /\ SumOver(f, T) = it[T]
  BY FoldExists
<1>2. T \in SUBSET T
  OBVIOUS
<1> HIDE DEF SumOver
<1> QED BY <1>1, <1>2

\* A sum changes by what one of its terms changes.
LEMMA SumChanges ==
    ASSUME NEW T, IsFiniteSet(T), NEW f \in [T -> Int], NEW g \in [T -> Int], NEW a \in T,
           \A p \in T : p # a => g[p] = f[p]
    PROVE  SumOver(g, T) = SumOver(f, T) + (g[a] - f[a])
<1>1. PICK i : IsFold(i, f, T) /\ i \in [SUBSET T -> Int] /\ SumOver(f, T) = i[T]
  BY FoldExists
<1>2. PICK j : IsFold(j, g, T) /\ j \in [SUBSET T -> Int] /\ SumOver(g, T) = j[T]
  BY FoldExists
<1> DEFINE Fits(s) == j[s] = i[s] + (IF a \in s THEN g[a] - f[a] ELSE 0)
           Bad == {s \in SUBSET T : ~Fits(s)}
           Sizes == {Cardinality(s) : s \in Bad}
<1>3. SUFFICES ASSUME Bad # {} PROVE FALSE
  <2>1. Bad = {} => Fits(T)
    OBVIOUS
  <2> QED BY <1>1, <1>2, <2>1
<1>4. Sizes \in SUBSET Nat /\ Sizes # {}
  BY <1>3, FS_Subset, FS_CardinalityType
<1>5. PICK s \in Bad : \A r \in Bad : Cardinality(s) <= Cardinality(r)
  <2>1. PICK m \in Sizes : \A k \in Sizes : m <= k
    BY <1>4, LeastExists
  <2> QED BY <2>1
<1> DEFINE x == Pick(s)
           r == s \ {x}
<1>6. s # {}
  BY <1>1, <1>2, <1>5 DEF IsFold
<1>7. i[s] = f[x] + i[r] /\ j[s] = g[x] + j[r]
  BY <1>1, <1>2, <1>6 DEF IsFold
<1>8. x \in s /\ x \in T /\ r \in SUBSET T /\ r \notin Bad
  BY <1>5, <1>6, Smaller
<1>9. Fits(r) /\ i[r] \in Int /\ j[r] \in Int /\ f[x] \in Int /\ g[x] \in Int
  BY <1>1, <1>2, <1>8
<1>10. CASE x = a
  <2>1. a \notin r /\ a \in s
    BY <1>8, <1>10
  <2> QED BY <1>5, <1>7, <1>9, <1>10, <2>1
<1>11. CASE x # a
  <2>1. (a \in r <=> a \in s) /\ g[x] = f[x]
    BY <1>8, <1>11
  <2> QED BY <1>5, <1>7, <1>9, <2>1
<1> QED BY <1>10, <1>11

\* ... and by what two of them change.
LEMMA SumChangesTwice ==
    ASSUME NEW T, IsFiniteSet(T), NEW f \in [T -> Int], NEW g \in [T -> Int],
           NEW a \in T, NEW b \in T, a # b,
           \A p \in T : p \notin {a, b} => g[p] = f[p]
    PROVE  SumOver(g, T) = SumOver(f, T) + (g[a] - f[a]) + (g[b] - f[b])
<1> DEFINE h == [f EXCEPT ![a] = g[a]]
<1>1. h \in [T -> Int] /\ h[a] = g[a] /\ h[b] = f[b] /\ \A p \in T : p # a => h[p] = f[p]
  OBVIOUS
<1>2. \A p \in T : p # b => g[p] = h[p]
  BY <1>1
<1> HIDE DEF h
<1>3. SumOver(h, T) = SumOver(f, T) + (g[a] - f[a])
  BY <1>1, SumChanges
<1>4. SumOver(g, T) = SumOver(h, T) + (g[b] - h[b])
  BY <1>1, <1>2, SumChanges
<1> QED BY <1>1, <1>3, <1>4, SumType

\* It does not matter which element is taken away first.
InAnyOrder(it, f, T) == \A s \in SUBSET T : \A x \in s : it[s] = f[x] + it[s \ {x}]

LEMMA AnyFirst ==
    ASSUME NEW T, IsFiniteSet(T), NEW f \in [T -> Int],
           NEW it, it \in [SUBSET T -> Int], IsFold(it, f, T)
    PROVE  InAnyOrder(it, f, T)
<1> DEFINE Fits(s) == \A x \in s : it[s] = f[x] + it[s \ {x}]
           Bad == {s \in SUBSET T : ~Fits(s)}
           Sizes == {Cardinality(s) : s \in Bad}
<1>1. SUFFICES ASSUME Bad # {} PROVE FALSE
  BY DEF InAnyOrder
<1>2. Sizes \in SUBSET Nat /\ Sizes # {}
  BY <1>1, FS_Subset, FS_CardinalityType
<1>3. PICK s \in Bad : \A r \in Bad : Cardinality(s) <= Cardinality(r)
  <2>1. PICK m \in Sizes : \A k \in Sizes : m <= k
    BY <1>2, LeastExists
  <2> HIDE DEF Bad
  <2> QED BY <2>1
<1>4. PICK x \in s : it[s] # f[x] + it[s \ {x}]
  BY <1>3
<1> DEFINE y == Pick(s)
<1>5. IsFiniteSet(s) /\ s # {} /\ s \in SUBSET T
  BY <1>3, <1>4, FS_Subset
<1>6. y \in s /\ it[s] = f[y] + it[s \ {y}]
  BY <1>5, Smaller DEF IsFold
<1>7. x # y
  BY <1>4, <1>6
<1>8. \A z \in s : /\ s \ {z} \in SUBSET T
                   /\ Cardinality(s \ {z}) \in Nat
                   /\ Cardinality(s) \in Nat
                   /\ Cardinality(s \ {z}) < Cardinality(s)
  <2> SUFFICES ASSUME NEW z \in s
               PROVE  /\ s \ {z} \in SUBSET T
                      /\ Cardinality(s \ {z}) \in Nat
                      /\ Cardinality(s) \in Nat
                      /\ Cardinality(s \ {z}) < Cardinality(s)
    OBVIOUS
  <2>1. IsFiniteSet(s \ {z}) /\ Cardinality(s \ {z}) = Cardinality(s) - 1
    BY <1>5, FS_RemoveElement
  <2>2. Cardinality(s) \in Nat /\ Cardinality(s \ {z}) \in Nat
    BY <1>5, <2>1, FS_CardinalityType
  <2>3. s \ {z} \in SUBSET T
    BY <1>5
  <2> QED BY <2>1, <2>2, <2>3
<1> HIDE DEF y
<1>9. \A z \in s : s \ {z} \notin Bad
  <2> HIDE DEF Bad
  <2> SUFFICES ASSUME NEW z \in s, s \ {z} \in Bad PROVE FALSE
    OBVIOUS
  <2>1. Cardinality(s) <= Cardinality(s \ {z})
    BY <1>3
  <2> QED BY <1>8, <2>1
<1>10. Fits(s \ {x}) /\ Fits(s \ {y})
  BY <1>6, <1>8, <1>9
<1> DEFINE r == (s \ {x}) \ {y}
<1>11. it[s \ {x}] = f[y] + it[r]
  BY <1>6, <1>7, <1>10
<1>12. it[s \ {y}] = f[x] + it[r]
  <2>1. (s \ {y}) \ {x} = r
    OBVIOUS
  <2> QED BY <1>7, <1>10, <2>1
<1>13. r \in SUBSET T /\ x \in T /\ y \in T
  BY <1>5, <1>6
<1>14. it[r] \in Int /\ f[x] \in Int /\ f[y] \in Int
  BY <1>13
<1> HIDE DEF r, Bad
<1> QED BY <1>4, <1>6, <1>11, <1>12, <1>14

\* A sum over one element less.
LEMMA SumWithout ==
    ASSUME NEW T, IsFiniteSet(T), NEW a \in T, NEW f \in [T -> Int],
           NEW g \in [T \ {a} -> Int], \A x \in T \ {a} : g[x] = f[x]
    PROVE  SumOver(f, T) = f[a] + SumOver(g, T \ {a})
<1> DEFINE U == T \ {a}
<1>0. IsFiniteSet(U) /\ U \in SUBSET T /\ SUBSET U \subseteq SUBSET T
  BY FS_Subset
<1>1. PICK i : IsFold(i, f, T) /\ i \in [SUBSET T -> Int] /\ SumOver(f, T) = i[T]
  BY FoldExists
<1>2. PICK j : IsFold(j, g, U) /\ j \in [SUBSET U -> Int] /\ SumOver(g, U) = j[U]
  BY <1>0, FoldExists
<1>3. i[T] = f[a] + i[U]
  <2>1. InAnyOrder(i, f, T)
    BY <1>1, AnyFirst
  <2> QED BY <2>1 DEF InAnyOrder
<1>4. i[U] = j[U]
  <2> DEFINE Bad == {s \in SUBSET U : i[s] # j[s]}
             Sizes == {Cardinality(s) : s \in Bad}
  <2>1. SUFFICES ASSUME Bad # {} PROVE FALSE
    OBVIOUS
  <2>2. Sizes \in SUBSET Nat /\ Sizes # {}
    BY <1>0, <2>1, FS_Subset, FS_CardinalityType
  <2>3. PICK s \in Bad : \A r \in Bad : Cardinality(s) <= Cardinality(r)
    <3>1. PICK m \in Sizes : \A k \in Sizes : m <= k
      BY <2>2, LeastExists
    <3> QED BY <3>1
  <2> DEFINE x == Pick(s)
             r == s \ {x}
  <2>4. s # {}
    BY <1>0, <1>1, <1>2, <2>3 DEF IsFold
  <2>5. i[s] = f[x] + i[r] /\ j[s] = g[x] + j[r]
    BY <1>0, <1>1, <1>2, <2>3, <2>4 DEF IsFold
  <2>6. x \in s /\ x \in U /\ r \in SUBSET U /\ r \notin Bad
    BY <1>0, <2>3, <2>4, Smaller
  <2>7. i[r] = j[r] /\ f[x] = g[x]
    BY <2>6
  <2> QED BY <2>3, <2>5, <2>7
<1> QED BY <1>1, <1>2, <1>3, <1>4

=============================================================================
