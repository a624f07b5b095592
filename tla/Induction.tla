------------------------------ MODULE Induction ------------------------------
(***************************************************************************)
(* Induction and recursion as facts about sets.  The library states them   *)
(* for an operator, which a proof cannot instantiate; stated for the set   *)
(* of the things that have a property, or for a step given as a function,  *)
(* they can be cited.                                                      *)
(***************************************************************************)
EXTENDS Integers, FiniteSets, FiniteSetsExt, FiniteSetTheorems, WellFoundedInduction, TLAPS

\* A set of natural numbers has a least one.
LEMMA LeastNumber ==
  ASSUME NEW S, S \subseteq Nat, S # {}
  PROVE  \E m \in S : \A k \in S : m <= k
<1>1. \A m, n \in Nat : <<m, n>> \in OpToRel(<, Nat) <=> m < n
  BY DEF OpToRel
<1>2. PICK R : IsWellFoundedOn(R, Nat) /\ \A m, n \in Nat : <<m, n>> \in R <=> m < n
  BY <1>1, NatLessThanWellFounded
<1>3. IsWellFoundedOn(R, Nat)
  BY <1>2
<1>4. PICK m \in S : \A k \in S : ~ (<<k, m>> \in R)
  BY <1>3, WFMin, Zenon
<1>5. ASSUME NEW k \in S PROVE m <= k
  <2>1. k \in Nat /\ m \in Nat
    OBVIOUS
  <2>2. <<k, m>> \in R <=> k < m
    BY <1>2, <2>1, Zenon
  <2>3. ~ (k < m)
    BY <1>4, <2>2, Zenon
  <2>. QED  BY <2>1, <2>3
<1>. QED  BY <1>5

\* A set that has 0, and n + 1 with every n, has all natural numbers.
LEMMA SetInduction ==
  ASSUME NEW S, 0 \in S, \A n \in Nat : n \in S => n + 1 \in S
  PROVE  \A n \in Nat : n \in S
<1>1. SUFFICES ASSUME Nat \ S # {} PROVE FALSE
  OBVIOUS
<1>2. PICK m \in Nat \ S : \A k \in Nat \ S : m <= k
  BY <1>1, LeastNumber
<1>. QED  BY <1>2

\* The same up to a bound.
LEMMA BoundedInduction ==
  ASSUME NEW S, NEW n \in Nat, 0 \in S, \A k \in 0 .. n - 1 : k \in S => k + 1 \in S
  PROVE  \A k \in 0 .. n : k \in S
<1> DEFINE T == {k \in Nat : k <= n => k \in S}
<1>1. \A k \in Nat : k \in T => k + 1 \in T
  OBVIOUS
<1>2. 0 \in T
  OBVIOUS
<1>3. \A k \in Nat : k \in T
  <2>. HIDE DEF T
  <2>. QED  BY <1>1, <1>2, SetInduction
<1>. QED  BY <1>3

\* A collection that has {}, and with every set the set with one more element,
\* has all finite sets.
LEMMA FiniteInduction ==
  ASSUME NEW U, IsFiniteSet(U), NEW C, {} \in C,
         \A T \in SUBSET U : \A x \in U \ T : T \in C => T \cup {x} \in C
  PROVE  \A T \in SUBSET U : T \in C
<1> DEFINE Sizes == {n \in Nat : \A T \in SUBSET U : Cardinality(T) = n => T \in C}
<1>1. \A T \in SUBSET U : IsFiniteSet(T) /\ Cardinality(T) \in Nat
  BY FS_Subset, FS_CardinalityType
<1>2. 0 \in Sizes
  BY <1>1, FS_EmptySet
<1>3. ASSUME NEW n \in Nat, n \in Sizes PROVE n + 1 \in Sizes
  <2>1. SUFFICES ASSUME NEW T \in SUBSET U, Cardinality(T) = n + 1 PROVE T \in C
    OBVIOUS
  <2>f. IsFiniteSet(T) /\ Cardinality(T) = n + 1
    BY <1>1, <2>1
  <2>2. PICK x \in T : TRUE
    <3>1. T # {}
      BY <2>f, FS_EmptySet
    <3>. QED  BY <3>1
  <2>3. T \ {x} \in SUBSET U /\ x \in U \ (T \ {x}) /\ T = (T \ {x}) \cup {x}
    OBVIOUS
  <2>4. Cardinality(T \ {x}) = n
    <3>1. Cardinality(T \ {x}) = Cardinality(T) - 1
      BY <2>f, <2>2, FS_RemoveElement
    <3>. QED  BY <2>f, <3>1
  <2>5. T \ {x} \in C
    BY <1>3, <2>3, <2>4
  <2>. QED  BY <2>3, <2>5, Zenon
<1>4. \A n \in Nat : n \in Sizes
  <2>. HIDE DEF Sizes
  <2>. QED  BY <1>2, <1>3, SetInduction
<1>. QED  BY <1>1, <1>4

\* A collection that has every set all of whose sets with one element less it
\* has, has all finite sets.
LEMMA FiniteDescent ==
  ASSUME NEW U, IsFiniteSet(U), NEW C,
         \A T \in SUBSET U : (\A x \in T : T \ {x} \in C) => T \in C
  PROVE  \A T \in SUBSET U : T \in C
<1> DEFINE Sizes == {n \in Nat : \A T \in SUBSET U : Cardinality(T) = n => T \in C}
<1>1. \A T \in SUBSET U : IsFiniteSet(T) /\ Cardinality(T) \in Nat
  BY FS_Subset, FS_CardinalityType
<1>2. 0 \in Sizes
  <2>1. ASSUME NEW T \in SUBSET U, Cardinality(T) = 0 PROVE T \in C
    <3>1. T = {}
      BY <2>1, <1>1, FS_EmptySet
    <3>. QED  BY <3>1
  <2>. QED  BY <2>1
<1>3. ASSUME NEW n \in Nat, n \in Sizes PROVE n + 1 \in Sizes
  <2>1. SUFFICES ASSUME NEW T \in SUBSET U, Cardinality(T) = n + 1 PROVE T \in C
    OBVIOUS
  <2>2. ASSUME NEW x \in T PROVE T \ {x} \in C
    <3>1. Cardinality(T \ {x}) = Cardinality(T) - 1
      BY <1>1, FS_RemoveElement
    <3>2. T \ {x} \in SUBSET U /\ Cardinality(T \ {x}) = n
      BY <2>1, <3>1
    <3>. QED  BY <1>3, <3>2
  <2>. QED  BY <2>2
<1>4. \A n \in Nat : n \in Sizes
  <2>. HIDE DEF Sizes
  <2>. QED  BY <1>2, <1>3, SetInduction
<1>. QED  BY <1>1, <1>4

-----------------------------------------------------------------------------
\* Max and Min of a nonempty finite set of integers are its greatest and least.
LEMMA GreatestElement ==
  ASSUME NEW S, S \subseteq Int, IsFiniteSet(S), S # {}
  PROVE  /\ Max(S) \in S /\ \A k \in S : k <= Max(S)
         /\ Min(S) \in S /\ \A k \in S : Min(S) <= k
<1> DEFINE Has(T) == T = {} \/ (/\ \E m \in T : \A k \in T : m >= k
                                /\ \E m \in T : \A k \in T : m <= k)
           C == {T \in SUBSET S : Has(T)}
<1>1. {} \in C
  OBVIOUS
<1>2. ASSUME NEW T \in SUBSET S, NEW x \in S \ T, T \in C PROVE T \cup {x} \in C
  <2>1. CASE T = {}
    BY <2>1
  <2>2. CASE T # {}
    <3>1. PICK m \in T : \A k \in T : m >= k
      BY <1>2, <2>2
    <3>2. PICK l \in T : \A k \in T : l <= k
      BY <1>2, <2>2
    <3>3. \E y \in T \cup {x} : \A k \in T \cup {x} : y >= k
      <4>1. CASE x >= m  BY <3>1, <4>1
      <4>2. CASE ~(x >= m)  BY <3>1, <4>2
      <4>. QED  BY <4>1, <4>2
    <3>4. \E y \in T \cup {x} : \A k \in T \cup {x} : y <= k
      <4>1. CASE x <= l  BY <3>2, <4>1
      <4>2. CASE ~(x <= l)  BY <3>2, <4>2
      <4>. QED  BY <4>1, <4>2
    <3>. QED  BY <3>3, <3>4
  <2>. QED  BY <2>1, <2>2
<1>3. \A T \in SUBSET S : T \in C
  <2>. HIDE DEF C
  <2>. QED  BY <1>1, <1>2, FiniteInduction
<1>4. \E m \in S : \A k \in S : m >= k
  BY <1>3
<1>5. \E m \in S : \A k \in S : m <= k
  BY <1>3
<1>6. Max(S) \in S /\ \A k \in S : Max(S) >= k
  BY <1>4 DEF Max
<1>7. Min(S) \in S /\ \A k \in S : Min(S) <= k
  BY <1>5 DEF Min
<1>8. \A k \in S : k \in Int /\ Max(S) \in Int
  BY <1>6
<1>. QED  BY <1>6, <1>7, <1>8

-----------------------------------------------------------------------------
\* The values of a function on a finite set are finitely many.
LEMMA FiniteImage ==
  ASSUME NEW S, IsFiniteSet(S), NEW f
  PROVE  IsFiniteSet({f[x] : x \in S})
<1> DEFINE T == {f[x] : x \in S}
           g == [x \in S |-> f[x]]
<1>1. g \in Surjection(S, T)
  BY DEF Surjection
<1>. QED  BY <1>1, FS_Surjection

-----------------------------------------------------------------------------
\* The function with a given value at 0 and a step from each number to the next.
Recursive(f, n, a, step) ==
  f = [i \in 0 .. n |-> IF i = 0 THEN a ELSE step[<<i, f[i - 1]>>]]

\* What a recursive definition chooses is there.
LEMMA Recursion ==
  ASSUME NEW n \in Nat, NEW a, NEW step
  PROVE  \E f : Recursive(f, n, a, step)
<1> DEFINE Is(f, k) == f = [i \in 0 .. k |-> IF i = 0 THEN a ELSE step[<<i, f[i - 1]>>]]
           S == {k \in Nat : \E f : Is(f, k)}
<1>1. 0 \in S
  <2> DEFINE f == [i \in 0 .. 0 |-> a]
  <2>1. Is(f, 0)
    OBVIOUS
  <2>. HIDE DEF Is, f
  <2>. QED  BY <2>1
<1>2. ASSUME NEW k \in Nat, k \in S PROVE k + 1 \in S
  <2>1. PICK f : Is(f, k)
    BY <1>2
  <2> DEFINE g == [i \in 0 .. k + 1 |-> IF i = k + 1 THEN step[<<k + 1, f[k]>>] ELSE f[i]]
  <2>2. ASSUME NEW i \in 0 .. k + 1
        PROVE  g[i] = IF i = 0 THEN a ELSE step[<<i, g[i - 1]>>]
    <3>1. CASE i = k + 1
      <4>1. g[i - 1] = f[k] /\ i # 0
        BY <3>1
      <4>. QED  BY <3>1, <4>1
    <3>2. CASE i # k + 1
      <4>1. i \in 0 .. k /\ g[i] = f[i]
        BY <3>2
      <4>2. i # 0 => i - 1 \in 0 .. k /\ g[i - 1] = f[i - 1]
        BY <4>1
      <4>. QED  BY <2>1, <4>1, <4>2
    <3>. QED  BY <3>1, <3>2
  <2>3. Is(g, k + 1)
    <3>1. g = [i \in 0 .. k + 1 |-> g[i]]
      OBVIOUS
    <3>. HIDE DEF g
    <3>. QED  BY <2>2, <3>1
  <2>. HIDE DEF Is, g
  <2>. QED  BY <2>3
<1>3. n \in S
  <2>. HIDE DEF S
  <2>. QED  BY <1>1, <1>2, SetInduction
<1>. QED  BY <1>3 DEF Recursive

\* The same for the subsets of a finite set, one element taken out at a time.
SetRecursive(f, U, a, pick, step) ==
  f = [T \in SUBSET U |-> IF T = {} THEN a ELSE step[<<pick[T], f[T \ {pick[T]}]>>]]

LEMMA SetRecursion ==
  ASSUME NEW U, IsFiniteSet(U), NEW a, NEW pick, NEW step,
         \A T \in SUBSET U : T # {} => pick[T] \in T
  PROVE  \E f : SetRecursive(f, U, a, pick, step)
<1> DEFINE Upto(f, k) ==
             \A T \in SUBSET U : Cardinality(T) <= k =>
               f[T] = IF T = {} THEN a ELSE step[<<pick[T], f[T \ {pick[T]}]>>]
           S == {k \in Nat : \E f : Upto(f, k)}
<1>1. ASSUME NEW T \in SUBSET U
      PROVE  IsFiniteSet(T) /\ Cardinality(T) \in Nat /\ Cardinality(T) <= Cardinality(U)
  BY FS_Subset, FS_CardinalityType
<1>2. ASSUME NEW T \in SUBSET U, T # {}
      PROVE  /\ T \ {pick[T]} \in SUBSET U
             /\ Cardinality(T \ {pick[T]}) = Cardinality(T) - 1
             /\ Cardinality(T) # 0
  <2>1. pick[T] \in T
    BY <1>2
  <2>2. Cardinality(T \ {pick[T]}) = Cardinality(T) - 1
    BY <1>1, <2>1, FS_RemoveElement
  <2>3. Cardinality(T) # 0
    BY <1>1, <1>2, FS_EmptySet
  <2>. QED  BY <2>1, <2>2, <2>3
<1>3. 0 \in S
  <2> DEFINE f == [T \in SUBSET U |-> a]
  <2>1. ASSUME NEW T \in SUBSET U, Cardinality(T) <= 0 PROVE T = {}
    <3>1. Cardinality(T) = 0
      BY <2>1, <1>1
    <3>. QED  BY <3>1, <1>2
  <2>2. Upto(f, 0)
    BY <2>1
  <2>. HIDE DEF Upto, f
  <2>. QED  BY <2>2
<1>4. ASSUME NEW k \in Nat, k \in S PROVE k + 1 \in S
  <2>1. PICK f : Upto(f, k)
    BY <1>4
  <2> DEFINE g == [T \in SUBSET U |->
                     IF T = {} THEN a ELSE step[<<pick[T], f[T \ {pick[T]}]>>]]
  <2>2. ASSUME NEW T \in SUBSET U, Cardinality(T) <= k PROVE g[T] = f[T]
    BY <2>1, <2>2
  <2>3. ASSUME NEW T \in SUBSET U, Cardinality(T) <= k + 1
        PROVE  g[T] = IF T = {} THEN a ELSE step[<<pick[T], g[T \ {pick[T]}]>>]
    <3>1. CASE T = {}
      BY <3>1
    <3>2. CASE T # {}
      <4>1. T \ {pick[T]} \in SUBSET U /\ Cardinality(T \ {pick[T]}) <= k
        BY <3>2, <2>3, <1>1, <1>2
      <4>2. g[T \ {pick[T]}] = f[T \ {pick[T]}]
        <5>. HIDE DEF g
        <5>. QED  BY <4>1, <2>2
      <4>3. g[T] = step[<<pick[T], f[T \ {pick[T]}]>>]
        BY <3>2
      <4>. HIDE DEF g
      <4>. QED  BY <3>2, <4>2, <4>3
    <3>. QED  BY <3>1, <3>2
  <2>4. Upto(g, k + 1)
    <3>. HIDE DEF g
    <3>. QED  BY <2>3
  <2>. HIDE DEF Upto, g
  <2>. QED  BY <2>4
<1>5. \A k \in Nat : k \in S
  <2>. HIDE DEF S
  <2>. QED  BY <1>3, <1>4, SetInduction
<1>6. Cardinality(U) \in Nat
  BY FS_CardinalityType
<1>7. PICK f : Upto(f, Cardinality(U))
  BY <1>5, <1>6
<1> DEFINE g == [T \in SUBSET U |-> f[T]]
<1>8. ASSUME NEW T \in SUBSET U
      PROVE  g[T] = IF T = {} THEN a ELSE step[<<pick[T], g[T \ {pick[T]}]>>]
  <2>1. f[T] = IF T = {} THEN a ELSE step[<<pick[T], f[T \ {pick[T]}]>>]
    BY <1>1, <1>7
  <2>2. T # {} => g[T \ {pick[T]}] = f[T \ {pick[T]}]
    OBVIOUS
  <2>. QED  BY <2>1, <2>2
<1>9. SetRecursive(g, U, a, pick, step)
  <2>1. g = [T \in SUBSET U |-> g[T]]
    OBVIOUS
  <2>. HIDE DEF g
  <2>. QED  BY <1>8, <2>1 DEF SetRecursive
<1>. QED  BY <1>9

-----------------------------------------------------------------------------
\* The members of a set of integers below one of them.
Smaller(S, v) == {u \in S : u < v}

\* In a finite set they tell the members apart, and there is a member with each
\* number of them.
LEMMA Ranks ==
  ASSUME NEW S, S \subseteq Int, IsFiniteSet(S)
  PROVE  /\ Cardinality(S) \in Nat
         /\ \A i \in 1 .. Cardinality(S) : \E v \in S : Cardinality(Smaller(S, v)) = i - 1
         /\ \A v \in S : Cardinality(Smaller(S, v)) \in 0 .. Cardinality(S) - 1
         /\ \A v, w \in S : v < w => Cardinality(Smaller(S, v)) < Cardinality(Smaller(S, w))
<1> DEFINE n == Cardinality(S)
           below(v) == {u \in S : u < v}
           rank == [v \in S |-> Cardinality(below(v))]
<1>1. n \in Nat /\ IsFiniteSet(0 .. n - 1) /\ Cardinality(0 .. n - 1) = n
  <2>1. n \in Nat
    BY FS_CardinalityType
  <2> DEFINE b == n - 1
  <2>. HIDE DEF n
  <2>2. b \in Int /\ n = b + 1 /\ b >= -1
    BY <2>1
  <2>. HIDE DEF b
  <2>3. IsFiniteSet(0 .. b) /\ Cardinality(0 .. b) = IF 0 > b THEN 0 ELSE b - 0 + 1
    BY <2>2, FS_Interval
  <2>4. Cardinality(0 .. b) = n
    BY <2>2, <2>3
  <2>. QED  BY <2>1, <2>3, <2>4 DEF b
<1>2. ASSUME NEW v \in S PROVE rank[v] \in 0 .. n - 1
  <2>1. below(v) \in SUBSET (S \ {v}) /\ v \in Int
    BY SMT
  <2>2. IsFiniteSet(S \ {v}) /\ Cardinality(S \ {v}) = n - 1
    BY FS_RemoveElement
  <2>3. /\ IsFiniteSet(below(v)) /\ Cardinality(below(v)) <= Cardinality(S \ {v})
    <3>. HIDE DEF below
    <3>. QED  BY <2>1, <2>2, FS_Subset
  <2>4. Cardinality(below(v)) \in Nat
    BY <2>3, FS_CardinalityType
  <2>5. rank[v] = Cardinality(below(v))
    OBVIOUS
  <2>. HIDE DEF below, rank, n
  <2>. QED  BY <1>1, <2>2, <2>3, <2>4, <2>5
<1>3. ASSUME NEW v \in S, NEW w \in S, v < w PROVE rank[v] < rank[w]
  <2>1. v \in Int /\ w \in Int
    OBVIOUS
  <2>2. below(v) \in SUBSET (below(w) \ {v}) /\ v \in below(w) /\ below(w) \in SUBSET S
    <3>1. ASSUME NEW u \in S, u < v PROVE u < w /\ u # v
      <4>1. u \in Int
        OBVIOUS
      <4>. QED  BY <1>3, <2>1, <3>1, <4>1
    <3>2. below(v) \in SUBSET (below(w) \ {v})
      BY <3>1
    <3>. QED  BY <1>3, <3>2
  <2>3. rank[v] = Cardinality(below(v)) /\ rank[w] = Cardinality(below(w))
    OBVIOUS
  <2>. HIDE DEF below, rank
  <2>4. IsFiniteSet(below(w))
    BY <2>2, FS_Subset
  <2>5. IsFiniteSet(below(w) \ {v}) /\ Cardinality(below(w) \ {v}) = Cardinality(below(w)) - 1
    BY <2>2, <2>4, FS_RemoveElement
  <2>6. Cardinality(below(v)) <= Cardinality(below(w) \ {v})
    BY <2>2, <2>5, FS_Subset
  <2>7. rank[v] \in Nat /\ rank[w] \in Nat
    BY <1>1, <1>2
  <2>. QED  BY <2>3, <2>5, <2>6, <2>7
<1>4. rank \in Injection(S, 0 .. n - 1)
  <2>1. ASSUME NEW v \in S, NEW w \in S, rank[v] = rank[w] PROVE v = w
    <3>1. v \in Int /\ w \in Int /\ rank[v] \in Int /\ rank[w] \in Int
      BY <1>1, <1>2
    <3>2. ~(rank[v] < rank[w]) /\ ~(rank[w] < rank[v])
      <4>. HIDE DEF rank
      <4>. QED  BY <2>1, <3>1
    <3>3. ~(v < w) /\ ~(w < v)
      <4>. HIDE DEF rank
      <4>. QED  BY <1>3, <3>2
    <3>. QED  BY <3>1, <3>3
  <2>2. rank \in [S -> 0 .. n - 1] /\ DOMAIN rank = S
    <3>1. rank = [v \in S |-> rank[v]] /\ DOMAIN rank = S
      OBVIOUS
    <3>. HIDE DEF rank, n
    <3>. QED  BY <1>2, <3>1
  <2>. HIDE DEF rank, n
  <2>. QED  BY <2>1, <2>2 DEF Injection, IsInjective
<1>5. rank \in Surjection(S, 0 .. n - 1)
  <2>. HIDE DEF rank
  <2>1. Cardinality(S) = Cardinality(0 .. n - 1)
    BY <1>1
  <2>. HIDE DEF n
  <2>. QED  BY <1>1, <1>4, <2>1, FS_Injection
<1>6. \A k \in 0 .. n - 1 : \E v \in S : rank[v] = k
  <2>. HIDE DEF rank, n
  <2>. QED  BY <1>5 DEF Surjection
<1>7. ASSUME NEW i \in 1 .. n PROVE \E v \in S : rank[v] = i - 1
  <2>1. i - 1 \in 0 .. n - 1
    BY <1>1
  <2>. HIDE DEF rank, n
  <2>. QED  BY <1>6, <2>1
<1>8. \A v \in S : rank[v] = Cardinality(Smaller(S, v))
  BY DEF Smaller
<1>. HIDE DEF rank
<1>. QED  BY <1>1, <1>2, <1>3, <1>7, <1>8

-----------------------------------------------------------------------------
\* A set with 0 and, along 0 .. n, the successors of its members.
LEMMA Along ==
  ASSUME NEW S, NEW n \in Nat, 0 \in S, \A i \in 1 .. n : i - 1 \in S => i \in S
  PROVE  \A i \in 0 .. n : i \in S
<1>1. ASSUME NEW k \in 0 .. n - 1, k \in S PROVE k + 1 \in S
  <2> DEFINE i == k + 1
  <2>1. i \in 1 .. n /\ i - 1 = k
    OBVIOUS
  <2>. HIDE DEF i
  <2>2. i \in S
    BY <1>1, <2>1
  <2>. QED  BY <2>2 DEF i
<1>. QED  BY <1>1, BoundedInduction

\* A recursion whose step keeps to a set has a solution in it.
Follows(f, n, T, a, step) ==
  /\ f = [i \in 0 .. n |-> f[i]]
  /\ f[0] = a
  /\ \A i \in 1 .. n : f[i - 1] \in T /\ f[i] \in T /\ f[i] = step[<<i, f[i - 1]>>]

LEMMA Solution ==
  ASSUME NEW n \in Nat, NEW T, NEW a \in T, NEW step \in [(1 .. n) \X T -> T]
  PROVE  \E f : Follows(f, n, T, a, step)
<1>1. PICK f : Recursive(f, n, a, step)
  BY Recursion
<1>2. f = [i \in 0 .. n |-> IF i = 0 THEN a ELSE step[<<i, f[i - 1]>>]]
  BY <1>1 DEF Recursive
<1>3. f[0] = a
  BY <1>2
<1>4. ASSUME NEW i \in 1 .. n PROVE f[i] = step[<<i, f[i - 1]>>]
  BY <1>2
<1> DEFINE S == {i \in 0 .. n : f[i] \in T}
<1>5. \A i \in 0 .. n : i \in S
  <2>1. 0 \in S
    BY <1>3
  <2>2. ASSUME NEW i \in 1 .. n, i - 1 \in S PROVE i \in S
    <3>1. f[i - 1] \in T
      BY <2>2
    <3>2. f[i] \in T
      BY <1>4, <3>1
    <3>. QED  BY <3>2
  <2>. HIDE DEF S
  <2>. QED  BY <2>1, <2>2, Along
<1>6. f = [i \in 0 .. n |-> f[i]]
  BY <1>2
<1>7. ASSUME NEW i \in 1 .. n PROVE f[i - 1] \in T /\ f[i] \in T
  <2>1. i - 1 \in 0 .. n /\ i \in 0 .. n
    OBVIOUS
  <2>. QED  BY <1>5, <2>1
<1>. QED  BY <1>3, <1>4, <1>6, <1>7 DEF Follows
=============================================================================
