----------------------------- MODULE SumTheorems -----------------------------
(***************************************************************************)
(* Facts about the numbers of the models that hold by induction: sums over *)
(* finite sets, as SumFunctionOnSet and MapThenSumSet of the community     *)
(* modules fold them, the least and the greatest of a set, as Min and Max  *)
(* choose them, and what a recursive function makes step by step.  That a  *)
(* set can be added up at all, in any order and to an integer, is proved   *)
(* by the least counterexample.                                            *)
(***************************************************************************)
EXTENDS Integers, FiniteSetsExt, FiniteSetTheorems, TLAPS

Picked(s) == CHOOSE x \in s : TRUE

(* g adds f up over every subset of T, taking away the element picked.     *)
Adds(f, g, T) ==
    g = [s \in SUBSET T |-> IF s = {} THEN 0 ELSE f[Picked(s)] + g[s \ {Picked(s)}]]

LEMMA LeastNatural ==
  ASSUME NEW T, T \subseteq Nat, T # {}
  PROVE  \E n \in T : \A m \in T : n <= m
<1>1. PICK n \in T : \A m \in T : ~ (<<m, n>> \in OpToRel(<, Nat))
  BY NatLessThanWellFounded, WFMin
<1>2. \A m \in T : m \in Nat /\ ~ (m < n)
  BY <1>1 DEF OpToRel
<1> QED
  BY <1>2

LEMMA GreatestUpTo ==
  ASSUME NEW N \in Nat, NEW T, T \subseteq 0..N, T # {}
  PROVE  \E m \in T : \A k \in T : k <= m
<1> DEFINE U == {u \in 0..N : N - u \in T}
<1>1. U # {}
  <2>1. PICK t \in T : TRUE
    OBVIOUS
  <2>2. t \in 0..N /\ N - t \in 0..N /\ N - (N - t) = t
    OBVIOUS
  <2>3. N - t \in U
    BY <2>1, <2>2
  <2> QED
    BY <2>3
<1>2. U \subseteq Nat
  OBVIOUS
<1>3. PICK u \in U : \A v \in U : u <= v
  <2> HIDE DEF U
  <2> QED
    BY <1>1, <1>2, LeastNatural
<1>4. \A k \in T : k \in 0..N /\ N - k \in U
  <2> SUFFICES ASSUME NEW k \in T PROVE k \in 0..N /\ N - k \in U
    OBVIOUS
  <2>1. k \in 0..N /\ N - k \in 0..N /\ N - (N - k) = k
    OBVIOUS
  <2> QED
    BY <2>1
<1>5. N - u \in T /\ u \in 0..N
  BY <1>3
<1> HIDE DEF U
<1>6. \A k \in T : k <= N - u
  BY <1>3, <1>4, <1>5
<1> QED
  BY <1>5, <1>6

(* The least and the greatest number of a set.                             *)
LEMMA LeastIs ==
  ASSUME NEW S \in SUBSET Nat, NEW m \in S, \A n \in S : m <= n
  PROVE  Min(S) = m
<1>1. Min(S) \in S /\ \A k \in S : Min(S) <= k
  BY DEF Min
<1> DEFINE least == Min(S)
<1>2. least \in S /\ least <= m /\ m <= least
  BY <1>1
<1>3. least \in Nat /\ m \in Nat
  BY <1>2
<1> HIDE DEF least
<1>4. least = m
  BY <1>2, <1>3
<1> QED
  BY <1>4 DEF least

LEMMA LeastOf ==
  ASSUME NEW S \in SUBSET Nat, S # {}
  PROVE  Min(S) \in S /\ \A n \in S : Min(S) <= n
<1>1. PICK m \in S : \A n \in S : m <= n
  BY LeastNatural, Zenon
<1> QED
  BY <1>1, LeastIs

LEMMA GreatestIs ==
  ASSUME NEW N \in Nat, NEW S, S \subseteq 0..N, S # {}
  PROVE  /\ Max(S) \in S /\ \A n \in S : n <= Max(S)
         /\ N \in S => Max(S) = N
<1>1. \E m \in S : \A k \in S : m >= k
  BY GreatestUpTo
<1>2. Max(S) \in S /\ \A k \in S : Max(S) >= k
  BY <1>1 DEF Max
<1> DEFINE top == Max(S)
<1>3. top \in S /\ top \in 0..N /\ \A k \in S : top >= k
  BY <1>2
<1> HIDE DEF top
<1>4. (\A k \in S : k \in 0..N) /\ N \in 0..N
  OBVIOUS
<1>5. (\A k \in S : k <= top) /\ (N \in S => top = N)
  BY <1>3, <1>4
<1> QED
  BY <1>3, <1>5 DEF top

(* A set of numbers that goes on is all of them.                           *)
LEMMA AllNaturals ==
  ASSUME NEW T, 0 \in T, \A n \in Nat : n \in T => n + 1 \in T
  PROVE  Nat \subseteq T
<1> SUFFICES ASSUME ~ (Nat \subseteq T) PROVE FALSE
  OBVIOUS
<1> DEFINE out == Nat \ T
<1>1. out \subseteq Nat /\ out # {}
  OBVIOUS
<1>2. PICK n \in out : \A m \in out : n <= m
  <2> HIDE DEF out
  <2> QED
    BY <1>1, LeastNatural
<1>3. n \in Nat /\ n # 0 /\ n \notin T
  BY <1>2
<1>4. n - 1 \in Nat /\ n - 1 \notin out
  BY <1>2, <1>3
<1>5. (n - 1) + 1 \in T
  BY <1>4
<1> QED
  BY <1>3, <1>5

LEMMA PickedIsIn ==
  ASSUME NEW s, s # {}
  PROVE  Picked(s) \in s
BY DEF Picked

Small(T, n) == {s \in SUBSET T : Cardinality(s) <= n}

LEMMA SmallerSubset ==
  ASSUME NEW T, IsFiniteSet(T), NEW n \in Nat, NEW s \in SUBSET T, s # {},
         Cardinality(s) <= n + 1, NEW x \in s
  PROVE  s \ {x} \in Small(T, n) /\ Cardinality(s) \in Nat
         /\ Cardinality(s \ {x}) = Cardinality(s) - 1
<1>1. IsFiniteSet(s)
  BY FS_Subset
<1>2. Cardinality(s \ {x}) = Cardinality(s) - 1
  BY <1>1, FS_RemoveElement
<1>3. Cardinality(s) \in Nat
  BY <1>1, FS_CardinalityType
<1> QED
  BY <1>2, <1>3 DEF Small

(* There is a way to add up any finite set of integers.                    *)
LEMMA AddsExists ==
  ASSUME NEW T, IsFiniteSet(T), NEW f, \A x \in T : f[x] \in Int
  PROVE  \E g \in [SUBSET T -> Int] : Adds(f, g, T)
<1> DEFINE Step(s, g) == IF s = {} THEN 0 ELSE f[Picked(s)] + g[s \ {Picked(s)}]
           done == {n \in Nat : \E g \in [Small(T, n) -> Int] :
                                   \A s \in Small(T, n) : g[s] = Step(s, g)}
<1>1. 0 \in done
  <2> DEFINE g == [s \in Small(T, 0) |-> 0]
  <2>1. \A s \in Small(T, 0) : s = {}
    <3> SUFFICES ASSUME NEW s \in Small(T, 0) PROVE s = {}
      OBVIOUS
    <3>1. IsFiniteSet(s) /\ Cardinality(s) <= 0
      BY FS_Subset DEF Small
    <3>2. Cardinality(s) = 0
      BY <3>1, FS_CardinalityType
    <3> QED
      BY <3>1, <3>2, FS_EmptySet
  <2>2. g \in [Small(T, 0) -> Int] /\ \A s \in Small(T, 0) : g[s] = Step(s, g)
    BY <2>1
  <2> QED
    BY <2>2
<1>2. ASSUME NEW n \in Nat, n \in done PROVE n + 1 \in done
  <2>1. PICK g \in [Small(T, n) -> Int] : \A s \in Small(T, n) : g[s] = Step(s, g)
    BY <1>2
  <2> DEFINE h == [s \in Small(T, n + 1) |-> Step(s, g)]
  <2>2. \A s \in Small(T, n + 1) : s # {} =>
           /\ Picked(s) \in T /\ s \ {Picked(s)} \in Small(T, n)
    <3> SUFFICES ASSUME NEW s \in Small(T, n + 1), s # {}
                 PROVE  Picked(s) \in T /\ s \ {Picked(s)} \in Small(T, n)
      OBVIOUS
    <3>1. s \in SUBSET T /\ Cardinality(s) <= n + 1 /\ Picked(s) \in s
      BY PickedIsIn DEF Small
    <3> QED
      BY <3>1, SmallerSubset
  <2>3. h \in [Small(T, n + 1) -> Int]
    BY <2>1, <2>2
  <2>4. Small(T, n) \subseteq Small(T, n + 1)
    <3> SUFFICES ASSUME NEW s \in Small(T, n) PROVE s \in Small(T, n + 1)
      OBVIOUS
    <3>1. Cardinality(s) \in Nat
      BY FS_Subset, FS_CardinalityType DEF Small
    <3> QED
      BY <3>1 DEF Small
  <2>5. \A s \in Small(T, n) : h[s] = g[s]
    BY <2>1, <2>4
  <2>6. \A s \in Small(T, n + 1) : h[s] = Step(s, h)
    BY <2>2, <2>5
  <2> HIDE DEF h
  <2> QED
    BY <2>3, <2>6
<1>3. Cardinality(T) \in Nat /\ Cardinality(T) \in done
  <2>1. Cardinality(T) \in Nat
    BY FS_CardinalityType
  <2> HIDE DEF done
  <2> QED
    BY <1>1, <1>2, <2>1, AllNaturals
<1>4. Small(T, Cardinality(T)) = SUBSET T
  BY FS_Subset DEF Small
<1>5. PICK g \in [SUBSET T -> Int] : \A s \in SUBSET T : g[s] = Step(s, g)
  BY <1>3, <1>4
<1>6. Adds(f, g, T)
  BY <1>5 DEF Adds
<1> QED
  BY <1>6

(* What adds up is the same whatever else the sets it is defined on hold.  *)
LEMMA AddsAgree ==
  ASSUME NEW S, NEW T, IsFiniteSet(S), IsFiniteSet(T), NEW f, NEW g, NEW h,
         Adds(f, g, S), Adds(f, h, T),
         NEW s, s \subseteq S, s \subseteq T
  PROVE  g[s] = h[s]
<1> DEFINE both == S \cap T
           done == {n \in Nat : \A r \in Small(both, n) : g[r] = h[r]}
<1>1. /\ \A r \in SUBSET S : g[r] = IF r = {} THEN 0 ELSE f[Picked(r)] + g[r \ {Picked(r)}]
      /\ \A r \in SUBSET T : h[r] = IF r = {} THEN 0 ELSE f[Picked(r)] + h[r \ {Picked(r)}]
  BY DEF Adds
<1>2. IsFiniteSet(both) /\ both \subseteq S /\ both \subseteq T
  BY FS_Subset
<1> HIDE DEF both
<1>3. g[{}] = h[{}]
  BY <1>1
<1>4. 0 \in done
  <2> SUFFICES ASSUME NEW r \in Small(both, 0) PROVE r = {}
    BY <1>3
  <2>1. IsFiniteSet(r) /\ Cardinality(r) <= 0
    BY <1>2, FS_Subset DEF Small
  <2>2. Cardinality(r) = 0
    BY <2>1, FS_CardinalityType
  <2> QED
    BY <2>1, <2>2, FS_EmptySet
<1>5. ASSUME NEW n \in Nat, n \in done PROVE n + 1 \in done
  <2> SUFFICES ASSUME NEW r \in Small(both, n + 1) PROVE g[r] = h[r]
    OBVIOUS
  <2>1. CASE r = {}
    BY <2>1, <1>3
  <2>2. CASE r # {}
    <3>1. Picked(r) \in r /\ r \in SUBSET both /\ Cardinality(r) <= n + 1
      BY <2>2, PickedIsIn DEF Small
    <3>2. r \ {Picked(r)} \in Small(both, n)
      BY <1>2, <2>2, <3>1, SmallerSubset
    <3>3. g[r \ {Picked(r)}] = h[r \ {Picked(r)}]
      BY <1>5, <3>2
    <3>4. r \in SUBSET S /\ r \in SUBSET T
      BY <1>2, <3>1
    <3> QED
      BY <1>1, <2>2, <3>3, <3>4
  <2> QED
    BY <2>1, <2>2
<1>6. Cardinality(both) \in Nat /\ Cardinality(both) \in done
  <2>1. Cardinality(both) \in Nat
    BY <1>2, FS_CardinalityType
  <2> HIDE DEF done
  <2> QED
    BY <1>4, <1>5, <2>1, AllNaturals
<1>7. s \in Small(both, Cardinality(both))
  BY <1>2, FS_Subset DEF Small, both
<1> QED
  BY <1>6, <1>7

LEMMA SumByAdding ==
  ASSUME NEW T, IsFiniteSet(T), NEW f, \A x \in T : f[x] \in Int
  PROVE  \E g \in [SUBSET T -> Int] : Adds(f, g, T) /\ SumFunctionOnSet(f, T) = g[T]
<1> DEFINE h == CHOOSE g : Adds(f, g, T)
<1>1. PICK g \in [SUBSET T -> Int] : Adds(f, g, T)
  BY AddsExists
<1>2. Adds(f, h, T)
  BY <1>1
<1>3. SumFunctionOnSet(f, T) = h[T]
  BY DEF SumFunctionOnSet, FoldFunctionOnSet, MapThenFoldSet, Adds, Picked
<1> HIDE DEF h
<1>4. h[T] = g[T]
  BY <1>1, <1>2, AddsAgree
<1> QED
  BY <1>1, <1>3, <1>4

LEMMA SumOfNone == \A f : SumFunctionOnSet(f, {}) = 0
<1> SUFFICES ASSUME NEW f PROVE SumFunctionOnSet(f, {}) = 0
  OBVIOUS
<1>1. PICK g \in [SUBSET {} -> Int] : Adds(f, g, {}) /\ SumFunctionOnSet(f, {}) = g[{}]
  BY SumByAdding, FS_EmptySet
<1> QED
  BY <1>1 DEF Adds

LEMMA SumIsInt ==
  ASSUME NEW T, IsFiniteSet(T), NEW f, \A x \in T : f[x] \in Int
  PROVE  SumFunctionOnSet(f, T) \in Int
<1>1. PICK g \in [SUBSET T -> Int] : Adds(f, g, T) /\ SumFunctionOnSet(f, T) = g[T]
  BY SumByAdding
<1> QED
  BY <1>1

(* The sum over a subset is what adds up on the way to the whole.          *)
LEMMA SumOfSubset ==
  ASSUME NEW T, IsFiniteSet(T), NEW f, \A x \in T : f[x] \in Int,
         NEW g, Adds(f, g, T), NEW s \in SUBSET T
  PROVE  SumFunctionOnSet(f, s) = g[s]
<1>1. IsFiniteSet(s) /\ \A x \in s : f[x] \in Int
  BY FS_Subset
<1>2. PICK h \in [SUBSET s -> Int] : Adds(f, h, s) /\ SumFunctionOnSet(f, s) = h[s]
  BY <1>1, SumByAdding
<1>3. h[s] = g[s]
  BY <1>1, <1>2, AddsAgree
<1> QED
  BY <1>2, <1>3

(* Any element may be taken out first.                                     *)
LEMMA SumTakesOut ==
  ASSUME NEW T, IsFiniteSet(T), NEW f, \A x \in T : f[x] \in Int, NEW x \in T
  PROVE  SumFunctionOnSet(f, T) = f[x] + SumFunctionOnSet(f, T \ {x})
<1>1. PICK g \in [SUBSET T -> Int] : Adds(f, g, T)
  BY AddsExists
<1> DEFINE done == {n \in Nat : \A s \in Small(T, n), y \in T :
                                   y \in s => g[s] = f[y] + g[s \ {y}]}
<1>2. \A s \in SUBSET T : s # {} => g[s] = f[Picked(s)] + g[s \ {Picked(s)}]
  BY <1>1 DEF Adds
<1>3. 0 \in done
  <2> SUFFICES ASSUME NEW s \in Small(T, 0) PROVE s = {}
    OBVIOUS
  <2>1. IsFiniteSet(s) /\ Cardinality(s) <= 0
    BY FS_Subset DEF Small
  <2>2. Cardinality(s) = 0
    BY <2>1, FS_CardinalityType
  <2> QED
    BY <2>1, <2>2, FS_EmptySet
<1>4. ASSUME NEW n \in Nat, n \in done PROVE n + 1 \in done
  <2> SUFFICES ASSUME NEW s \in Small(T, n + 1), NEW y \in s
               PROVE  g[s] = f[y] + g[s \ {y}]
    OBVIOUS
  <2> DEFINE p == Picked(s)
             less == s \ {p}
             rest == s \ {y}
  <2>1. s \in SUBSET T /\ Cardinality(s) <= n + 1 /\ p \in s /\ g[s] = f[p] + g[less]
    BY <1>2, PickedIsIn DEF Small
  <2> HIDE DEF p
  <2>2. CASE y = p
    BY <2>1, <2>2
  <2>3. CASE y # p
    <3>1. less \in Small(T, n) /\ rest \in Small(T, n)
      BY <2>1, SmallerSubset
    <3>2. y \in less /\ p \in rest /\ y \in T /\ p \in T
      BY <2>1, <2>3
    <3>3. \A r \in Small(T, n), z \in T : z \in r => g[r] = f[z] + g[r \ {z}]
      BY <1>4
    <3>4. g[less] = f[y] + g[less \ {y}] /\ g[rest] = f[p] + g[rest \ {p}]
      <4> HIDE DEF less, rest
      <4> QED
        BY <3>1, <3>2, <3>3
    <3>5. less \ {y} = rest \ {p} /\ less \ {y} \in SUBSET T
      BY <2>1
    <3>6. f[y] \in Int /\ f[p] \in Int /\ g[less \ {y}] \in Int
      BY <1>1, <3>2, <3>5
    <3>7. g[s] = f[y] + g[rest]
      <4>1. PICK k \in Int : k = g[less \ {y}]
        BY <3>6
      <4>2. g[less] = f[y] + k
        BY <3>4, <4>1
      <4>3. g[rest] = f[p] + k
        <5> HIDE DEF less, rest
        <5> QED
          BY <3>4, <3>5, <4>1
      <4>4. g[s] = f[p] + (f[y] + k)
        BY <2>1, <4>2
      <4> HIDE DEF less, rest
      <4> QED
        BY <3>6, <4>3, <4>4
    <3> QED
      BY <3>7
  <2> QED
    BY <2>2, <2>3
<1>5. Cardinality(T) \in Nat /\ Cardinality(T) \in done
  <2>1. Cardinality(T) \in Nat
    BY FS_CardinalityType
  <2> HIDE DEF done
  <2> QED
    BY <1>3, <1>4, <2>1, AllNaturals
<1>6. T \in Small(T, Cardinality(T))
  BY <1>5 DEF Small
<1>7. g[T] = f[x] + g[T \ {x}]
  BY <1>5, <1>6
<1>8. SumFunctionOnSet(f, T) = g[T] /\ SumFunctionOnSet(f, T \ {x}) = g[T \ {x}]
  BY <1>1, SumOfSubset
<1> QED
  BY <1>7, <1>8

(* The sum depends on what is added only.                                  *)
LEMMA SumOfSame ==
  ASSUME NEW T, IsFiniteSet(T), NEW f, NEW h, \A x \in T : f[x] \in Int /\ h[x] = f[x]
  PROVE  SumFunctionOnSet(f, T) = SumFunctionOnSet(h, T)
<1>1. PICK g \in [SUBSET T -> Int] : Adds(f, g, T) /\ SumFunctionOnSet(f, T) = g[T]
  BY SumByAdding
<1>2. PICK k \in [SUBSET T -> Int] : Adds(h, k, T) /\ SumFunctionOnSet(h, T) = k[T]
  BY SumByAdding
<1>3. Adds(f, k, T)
  <2>1. \A s \in SUBSET T : s # {} => Picked(s) \in T /\ h[Picked(s)] = f[Picked(s)]
    BY PickedIsIn
  <2> QED
    BY <1>2, <2>1 DEF Adds
<1>4. g[T] = k[T]
  BY <1>1, <1>3, AddsAgree
<1> QED
  BY <1>1, <1>2, <1>4

LEMMA SumAddsIn ==
  ASSUME NEW T, IsFiniteSet(T), NEW x, x \notin T, NEW f, \A y \in T \union {x} : f[y] \in Int
  PROVE  SumFunctionOnSet(f, T \union {x}) = f[x] + SumFunctionOnSet(f, T)
<1> DEFINE all == T \union {x}
<1>1. IsFiniteSet(all) /\ x \in all /\ all \ {x} = T
  BY FS_AddElement
<1>2. \A y \in all : f[y] \in Int
  OBVIOUS
<1> HIDE DEF all
<1>3. SumFunctionOnSet(f, all) = f[x] + SumFunctionOnSet(f, all \ {x})
  BY <1>1, <1>2, SumTakesOut
<1> QED
  BY <1>1, <1>3 DEF all

LEMMA SumUpTo ==
  ASSUME NEW n \in Nat, NEW f, \A k \in 1..(n + 1) : f[k] \in Int
  PROVE  /\ SumFunctionOnSet(f, 1..n) \in Int
         /\ SumFunctionOnSet(f, 1..(n + 1)) = SumFunctionOnSet(f, 1..n) + f[n + 1]
<1>1. 1..(n + 1) = (1..n) \union {n + 1} /\ n + 1 \notin 1..n /\ IsFiniteSet(1..n)
  BY FS_Interval
<1>2. SumFunctionOnSet(f, 1..n) \in Int
  BY <1>1, SumIsInt
<1>3. SumFunctionOnSet(f, (1..n) \union {n + 1}) = f[n + 1] + SumFunctionOnSet(f, 1..n)
  BY <1>1, SumAddsIn
<1>4. PICK a \in Int, b \in Int : a = SumFunctionOnSet(f, 1..n) /\ b = f[n + 1]
  BY <1>2
<1>5. SumFunctionOnSet(f, 1..(n + 1)) = b + a
  BY <1>1, <1>3, <1>4
<1> QED
  BY <1>2, <1>4, <1>5

(* The sum of two sets that share nothing.                                 *)
LEMMA SumOfParts ==
  ASSUME NEW S, NEW T, IsFiniteSet(S), IsFiniteSet(T), S \cap T = {},
         NEW f, \A x \in S \union T : f[x] \in Int
  PROVE  SumFunctionOnSet(f, S \union T) = SumFunctionOnSet(f, S) + SumFunctionOnSet(f, T)
<1> DEFINE done == {n \in Nat : \A s \in Small(T, n) :
                       SumFunctionOnSet(f, S \union s)
                       = SumFunctionOnSet(f, S) + SumFunctionOnSet(f, s)}
<1>1. SumFunctionOnSet(f, S) \in Int
  BY SumIsInt
<1>2. 0 \in done
  <2> SUFFICES ASSUME NEW s \in Small(T, 0)
               PROVE  SumFunctionOnSet(f, S \union s)
                      = SumFunctionOnSet(f, S) + SumFunctionOnSet(f, s)
    OBVIOUS
  <2>1. IsFiniteSet(s) /\ Cardinality(s) <= 0
    BY FS_Subset DEF Small
  <2>2. s = {} /\ S \union s = S
    <3>1. Cardinality(s) = 0
      BY <2>1, FS_CardinalityType
    <3> QED
      BY <2>1, <3>1, FS_EmptySet
  <2> QED
    BY <1>1, <2>2, SumOfNone
<1>3. ASSUME NEW n \in Nat, n \in done PROVE n + 1 \in done
  <2> SUFFICES ASSUME NEW s \in Small(T, n + 1)
               PROVE  SumFunctionOnSet(f, S \union s)
                      = SumFunctionOnSet(f, S) + SumFunctionOnSet(f, s)
    OBVIOUS
  <2>1. CASE s = {}
    <3>1. S \union s = S
      BY <2>1
    <3> QED
      BY <1>1, <2>1, <3>1, SumOfNone
  <2>2. CASE s # {}
    <3>1. PICK x \in s : TRUE
      BY <2>2
    <3> DEFINE r == s \ {x}
    <3>2. s \in SUBSET T /\ r \in Small(T, n) /\ IsFiniteSet(s) /\ IsFiniteSet(r)
      BY <3>1, SmallerSubset, FS_Subset DEF Small
    <3>3. IsFiniteSet(S \union r)
      BY <3>2, FS_Union
    <3>4. /\ x \notin r /\ x \notin S \union r /\ s = r \union {x}
          /\ S \union s = (S \union r) \union {x}
          /\ \A y \in (S \union r) \union {x} : f[y] \in Int
          /\ \A y \in r \union {x} : f[y] \in Int
          /\ f[x] \in Int
      BY <3>1, <3>2
    <3>5. SumFunctionOnSet(f, S \union r) = SumFunctionOnSet(f, S) + SumFunctionOnSet(f, r)
      BY <1>3, <3>2
    <3>6. SumFunctionOnSet(f, r) \in Int
      BY <3>2, <3>4, SumIsInt
    <3>7. SumFunctionOnSet(f, (S \union r) \union {x}) = f[x] + SumFunctionOnSet(f, S \union r)
      BY <3>3, <3>4, SumAddsIn
    <3>8. SumFunctionOnSet(f, r \union {x}) = f[x] + SumFunctionOnSet(f, r)
      BY <3>2, <3>4, SumAddsIn
    <3>9. /\ SumFunctionOnSet(f, S \union s) = SumFunctionOnSet(f, (S \union r) \union {x})
          /\ SumFunctionOnSet(f, s) = SumFunctionOnSet(f, r \union {x})
      BY <3>4
    <3>10. PICK a \in Int, b \in Int, c \in Int :
             a = SumFunctionOnSet(f, S) /\ b = SumFunctionOnSet(f, r) /\ c = f[x]
      BY <1>1, <3>4, <3>6
    <3> HIDE DEF r
    <3>11. SumFunctionOnSet(f, S \union s) = c + (a + b) /\ SumFunctionOnSet(f, s) = c + b
      BY <3>5, <3>7, <3>8, <3>9, <3>10
    <3> QED
      BY <3>10, <3>11
  <2> QED
    BY <2>1, <2>2
<1>4. Cardinality(T) \in Nat /\ Cardinality(T) \in done
  <2>1. Cardinality(T) \in Nat
    BY FS_CardinalityType
  <2> HIDE DEF done
  <2> QED
    BY <1>2, <1>3, <2>1, AllNaturals
<1>5. T \in Small(T, Cardinality(T))
  BY <1>4 DEF Small
<1> QED
  BY <1>4, <1>5

(* The set whole is made of parts that share nothing, of these sizes.      *)
MadeOfParts(G, part, size, whole) ==
    /\ IsFiniteSet(G)
    /\ \A g \in G : /\ IsFiniteSet(part[g]) /\ part[g] \subseteq whole
                    /\ size[g] = Cardinality(part[g])
    /\ \A g, h \in G : g # h => part[g] \cap part[h] = {}
    /\ \A x \in whole : \E g \in G : x \in part[g]

(* The size of a set of disjoint parts is the sum of theirs.               *)
LEMMA CardinalityOfParts ==
  ASSUME NEW G, NEW part, NEW size, NEW whole, MadeOfParts(G, part, size, whole)
  PROVE  IsFiniteSet(whole) /\ SumFunctionOnSet(size, G) = Cardinality(whole)
<1>0. /\ IsFiniteSet(G) /\ \A g \in G : IsFiniteSet(part[g])
      /\ \A g, h \in G : g # h => part[g] \cap part[h] = {}
      /\ \A g \in G : size[g] = Cardinality(part[g])
  BY DEF MadeOfParts
<1> DEFINE Whole(s) == UNION {part[g] : g \in s}
           Fits(s) == IsFiniteSet(Whole(s)) /\ SumFunctionOnSet(size, s) = Cardinality(Whole(s))
           done == {n \in Nat : \A s \in Small(G, n) : Fits(s)}
<1>1. Fits({})
  <2>1. Whole({}) = {}
    OBVIOUS
  <2> QED
    BY <2>1, SumOfNone, FS_EmptySet
<1> HIDE DEF Fits
<1>2. 0 \in done
  <2> SUFFICES ASSUME NEW s \in Small(G, 0) PROVE Fits(s)
    OBVIOUS
  <2>1. IsFiniteSet(s) /\ Cardinality(s) <= 0
    BY <1>0, FS_Subset DEF Small
  <2>2. s = {}
    <3>1. Cardinality(s) = 0
      BY <2>1, FS_CardinalityType
    <3> QED
      BY <2>1, <3>1, FS_EmptySet
  <2> QED
    BY <1>1, <2>2
<1>3. ASSUME NEW n \in Nat, n \in done PROVE n + 1 \in done
  <2> SUFFICES ASSUME NEW s \in Small(G, n + 1) PROVE Fits(s)
    OBVIOUS
  <2>1. CASE s = {}
    BY <1>1, <2>1
  <2>2. CASE s # {}
    <3>1. PICK x \in s : TRUE
      BY <2>2
    <3> DEFINE r == s \ {x}
    <3>2. s \in SUBSET G /\ r \in Small(G, n) /\ IsFiniteSet(s)
      BY <1>0, <3>1, SmallerSubset, FS_Subset DEF Small
    <3>3. Fits(r)
      BY <1>3, <3>2
    <3>4. Whole(s) = part[x] \union Whole(r) /\ part[x] \cap Whole(r) = {}
      BY <1>0, <3>1, <3>2
    <3>5. IsFiniteSet(part[x]) /\ Cardinality(part[x]) \in Nat /\ size[x] = Cardinality(part[x])
      BY <1>0, <3>1, <3>2, FS_CardinalityType
    <3>6. IsFiniteSet(Whole(r)) /\ Cardinality(Whole(r)) \in Nat
          /\ SumFunctionOnSet(size, r) = Cardinality(Whole(r))
      BY <3>3, FS_CardinalityType DEF Fits
    <3>7. \A y \in s : size[y] \in Int
      BY <1>0, <3>2, FS_CardinalityType
    <3>8. SumFunctionOnSet(size, s) = size[x] + SumFunctionOnSet(size, r)
      BY <3>1, <3>2, <3>7, SumTakesOut
    <3> HIDE DEF Whole, r
    <3>9. IsFiniteSet(Whole(s))
          /\ Cardinality(Whole(s)) = Cardinality(part[x]) + Cardinality(Whole(r)) - 0
      <4> DEFINE a == part[x]
                 b == Whole(r)
      <4>1. IsFiniteSet(a) /\ IsFiniteSet(b) /\ a \cap b = {} /\ Whole(s) = a \union b
        BY <3>4, <3>5, <3>6
      <4> HIDE DEF a, b
      <4>2. /\ IsFiniteSet(a \union b)
            /\ Cardinality(a \union b) = Cardinality(a) + Cardinality(b) - Cardinality(a \cap b)
        BY <4>1, FS_Union
      <4> QED
        BY <4>1, <4>2, FS_EmptySet DEF a, b
    <3> QED
      BY <3>5, <3>6, <3>8, <3>9 DEF Fits
  <2> QED
    BY <2>1, <2>2
<1>4. Cardinality(G) \in Nat /\ Cardinality(G) \in done
  <2>1. Cardinality(G) \in Nat
    BY <1>0, FS_CardinalityType
  <2> HIDE DEF done
  <2> QED
    BY <1>2, <1>3, <2>1, AllNaturals
<1>5. G \in Small(G, Cardinality(G))
  BY <1>4 DEF Small
<1>6. Whole(G) = whole
  BY DEF MadeOfParts
<1> QED
  BY <1>4, <1>5, <1>6 DEF Fits

(* A finite set of numbers has a greatest one.                             *)
LEMMA GreatestOf ==
  ASSUME NEW S \in SUBSET Nat, IsFiniteSet(S), S # {}
  PROVE  Max(S) \in S /\ \A n \in S : n <= Max(S)
<1> DEFINE done == {n \in Nat : \A s \in Small(S, n) : \E N \in Nat : \A k \in s : k <= N}
<1>1. 0 \in done
  <2> SUFFICES ASSUME NEW s \in Small(S, 0) PROVE \A k \in s : k <= 0
    OBVIOUS
  <2>1. IsFiniteSet(s) /\ Cardinality(s) \in Nat /\ Cardinality(s) <= 0
    BY FS_Subset, FS_CardinalityType DEF Small
  <2> QED
    BY <2>1, FS_EmptySet
<1>2. ASSUME NEW n \in Nat, n \in done PROVE n + 1 \in done
  <2> SUFFICES ASSUME NEW s \in Small(S, n + 1) PROVE \E N \in Nat : \A k \in s : k <= N
    OBVIOUS
  <2>1. CASE s = {}
    BY <2>1
  <2>2. CASE s # {}
    <3>1. PICK x \in s : TRUE
      BY <2>2
    <3>2. s \in SUBSET S /\ s \ {x} \in Small(S, n)
      BY <3>1, SmallerSubset DEF Small
    <3>3. PICK N \in Nat : \A k \in s \ {x} : k <= N
      BY <1>2, <3>2
    <3>4. s \subseteq Nat /\ x \in Nat /\ N + x \in Nat
      BY <3>2
    <3>5. \A k \in s : k <= N + x
      BY <3>3, <3>4
    <3> QED
      BY <3>4, <3>5
  <2> QED
    BY <2>1, <2>2
<1>3. Cardinality(S) \in Nat /\ Cardinality(S) \in done
  <2>1. Cardinality(S) \in Nat
    BY FS_CardinalityType
  <2> HIDE DEF done
  <2> QED
    BY <1>1, <1>2, <2>1, AllNaturals
<1>4. S \in Small(S, Cardinality(S))
  BY <1>3 DEF Small
<1>5. \E N \in Nat : \A n \in S : n <= N
  BY <1>3, <1>4
<1>6. PICK N \in Nat : \A n \in S : n <= N
  BY <1>5
<1>7. S \subseteq 0..N
  BY <1>6
<1> QED
  BY <1>7, GreatestIs

(* A finite set that is ordered, but for ties, has a greatest member.      *)
LEMMA GreatestByOrder ==
  ASSUME NEW S, IsFiniteSet(S), S # {}, NEW R,
         \A x, y \in S : <<x, y>> \in R \/ <<y, x>> \in R,
         \A x, y, z \in S : <<x, y>> \in R /\ <<y, z>> \in R => <<x, z>> \in R
  PROVE  \E x \in S : \A y \in S : <<y, x>> \in R
<1> DEFINE Topped(s) == \E x \in s : \A y \in s : <<y, x>> \in R
           done == {n \in Nat : \A s \in Small(S, n) : s # {} => Topped(s)}
<1>1. 0 \in done
  <2> SUFFICES ASSUME NEW s \in Small(S, 0), s # {} PROVE FALSE
    OBVIOUS
  <2>1. IsFiniteSet(s) /\ Cardinality(s) \in Nat /\ Cardinality(s) <= 0
    BY FS_Subset, FS_CardinalityType DEF Small
  <2> QED
    BY <2>1, FS_EmptySet
<1>2. ASSUME NEW n \in Nat, n \in done
      PROVE  n + 1 \in done
  <2> SUFFICES ASSUME NEW s \in Small(S, n + 1), s # {} PROVE Topped(s)
    OBVIOUS
  <2>1. PICK x \in s : TRUE
    OBVIOUS
  <2>2. s \in SUBSET S /\ Cardinality(s) <= n + 1
    BY DEF Small
  <2>3. s \ {x} \in Small(S, n)
    BY <2>1, <2>2, SmallerSubset
  <2>4. CASE s \ {x} = {}
    <3>1. \A y \in s : y = x
      BY <2>4
    <3>2. <<x, x>> \in R
      BY <2>1, <2>2
    <3> QED
      BY <2>1, <3>1, <3>2
  <2>5. CASE s \ {x} # {}
    <3>1. Topped(s \ {x})
      BY <1>2, <2>3, <2>5
    <3>2. PICK z \in s \ {x} : \A y \in s \ {x} : <<y, z>> \in R
      BY <3>1
    <3>3. x \in S /\ z \in S /\ z \in s /\ \A y \in s : y \in S
      BY <2>1, <2>2, <3>2
    <3>4. <<x, x>> \in R /\ <<z, z>> \in R
      BY <3>3
    <3>5. CASE <<x, z>> \in R
      BY <3>2, <3>3, <3>5
    <3>6. CASE <<z, x>> \in R
      <4>1. \A y \in s : <<y, x>> \in R
        <5> SUFFICES ASSUME NEW y \in s, y # x PROVE <<y, x>> \in R
          BY <3>4
        <5>1. <<y, z>> \in R /\ y \in S
          BY <3>2, <3>3
        <5> QED
          BY <5>1, <3>3, <3>6
      <4> QED
        BY <4>1, <2>1
    <3> QED
      BY <3>3, <3>5, <3>6
  <2> QED
    BY <2>4, <2>5
<1>3. Nat \subseteq done
  <2> HIDE DEF done
  <2> QED
    BY <1>1, <1>2, AllNaturals
<1>4. Cardinality(S) \in done /\ S \in Small(S, Cardinality(S))
  BY <1>3, FS_CardinalityType DEF Small
<1> QED
  BY <1>4

(* The greatest of finitely many integers.                                 *)
LEMMA GreatestInt ==
  ASSUME NEW S \in SUBSET Int, IsFiniteSet(S), S # {}
  PROVE  Max(S) \in S /\ \A n \in S : n <= Max(S)
<1> DEFINE R == {p \in S \X S : p[1] <= p[2]}
<1>1. \A x, y \in S : <<x, y>> \in R <=> x <= y
  OBVIOUS
<1>2. \A x, y \in S : <<x, y>> \in R \/ <<y, x>> \in R
  <2> SUFFICES ASSUME NEW x \in S, NEW y \in S PROVE x <= y \/ y <= x
    BY <1>1
  <2>1. x \in Int /\ y \in Int
    OBVIOUS
  <2> QED
    BY <2>1
<1>3. \A x, y, z \in S : <<x, y>> \in R /\ <<y, z>> \in R => <<x, z>> \in R
  <2> HIDE DEF R
  <2> QED
    BY <1>1
<1> HIDE DEF R
<1>4. \E x \in S : \A y \in S : <<y, x>> \in R
  BY <1>2, <1>3, GreatestByOrder
<1>5. \E x \in S : \A y \in S : x >= y
  BY <1>1, <1>4
<1>6. Max(S) \in S /\ \A y \in S : Max(S) >= y
  BY <1>5 DEF Max
<1> QED
  BY <1>6

LEMMA GreatestValue ==
  ASSUME NEW S, IsFiniteSet(S), S # {}, NEW f, \A x \in S : f[x] \in Int
  PROVE  \E x \in S : \A y \in S : f[y] <= f[x]
<1> DEFINE R == {p \in S \X S : f[p[1]] <= f[p[2]]}
<1>1. \A x, y \in S : <<x, y>> \in R <=> f[x] <= f[y]
  OBVIOUS
<1>2. \A x, y \in S : f[x] <= f[y] \/ f[y] <= f[x]
  OBVIOUS
<1>3. \A x, y, z \in S : f[x] <= f[y] /\ f[y] <= f[z] => f[x] <= f[z]
  OBVIOUS
<1> HIDE DEF R
<1>4. \A x, y \in S : <<x, y>> \in R \/ <<y, x>> \in R
  BY <1>1, <1>2
<1>5. \A x, y, z \in S : <<x, y>> \in R /\ <<y, z>> \in R => <<x, z>> \in R
  BY <1>1, <1>3
<1>6. \E x \in S : \A y \in S : <<y, x>> \in R
  BY <1>4, <1>5, GreatestByOrder
<1> QED
  BY <1>1, <1>6

(* Fractions, compared by cross-multiplying.                               *)
LEMMA CancelsOut ==
  ASSUME NEW x \in Int, NEW y \in Int, NEW n \in Nat \ {0}, x * n <= y * n
  PROVE  x <= y
OBVIOUS

LEMMA Scales ==
  ASSUME NEW x \in Int, NEW y \in Int, NEW n \in Nat, x <= y
  PROVE  x * n <= y * n
OBVIOUS

LEMMA FractionsOrdered ==
  ASSUME NEW a \in Int, NEW b \in Int, NEW c \in Int,
         NEW l \in Nat \ {0}, NEW m \in Nat \ {0}, NEW n \in Nat \ {0},
         a * m <= b * l, b * n <= c * m
  PROVE  a * n <= c * l
<1>1. (a * m) * n <= (b * l) * n
  <2>1. a * m \in Int /\ b * l \in Int
    OBVIOUS
  <2> QED
    BY <2>1, Scales
<1>2. (b * n) * l <= (c * m) * l
  <2>1. b * n \in Int /\ c * m \in Int
    OBVIOUS
  <2> QED
    BY <2>1, Scales
<1>3. /\ (a * m) * n = (a * n) * m /\ (b * l) * n = (b * n) * l
      /\ (c * m) * l = (c * l) * m
  OBVIOUS
<1>4. /\ a * n \in Int /\ c * l \in Int
      /\ (a * n) * m \in Int /\ (b * n) * l \in Int /\ (c * l) * m \in Int
  OBVIOUS
<1>5. (a * n) * m <= (c * l) * m
  BY <1>1, <1>2, <1>3, <1>4
<1> QED
  BY <1>4, <1>5, CancelsOut

(* Sums of integers that are no greater are no greater.                    *)
LEMMA SumsInOrder ==
  ASSUME NEW T, IsFiniteSet(T), NEW f, NEW h,
         \A x \in T : f[x] \in Int /\ h[x] \in Int /\ f[x] <= h[x]
  PROVE  SumFunctionOnSet(f, T) <= SumFunctionOnSet(h, T)
<1> DEFINE F(s) == SumFunctionOnSet(f, s)
           H(s) == SumFunctionOnSet(h, s)
           done == {n \in Nat : \A s \in Small(T, n) : F(s) <= H(s)}
<1>0. \A s \in SUBSET T : IsFiniteSet(s) /\ F(s) \in Int /\ H(s) \in Int
  BY FS_Subset, SumIsInt
<1>1. 0 \in done
  <2> SUFFICES ASSUME NEW s \in Small(T, 0) PROVE F(s) <= H(s)
    OBVIOUS
  <2>1. IsFiniteSet(s) /\ Cardinality(s) \in Nat /\ Cardinality(s) <= 0
    BY FS_Subset, FS_CardinalityType DEF Small
  <2>2. s = {}
    BY <2>1, FS_EmptySet
  <2> QED
    BY <2>2, SumOfNone
<1>2. ASSUME NEW n \in Nat, n \in done
      PROVE  n + 1 \in done
  <2> SUFFICES ASSUME NEW s \in Small(T, n + 1) PROVE F(s) <= H(s)
    OBVIOUS
  <2>1. s \in SUBSET T /\ Cardinality(s) <= n + 1 /\ IsFiniteSet(s)
    BY <1>0 DEF Small
  <2>2. CASE s = {}
    BY <2>2, SumOfNone
  <2>3. CASE s # {}
    <3>1. PICK x \in s : TRUE
      BY <2>3
    <3>2. s \ {x} \in Small(T, n)
      BY <2>1, <3>1, SmallerSubset
    <3>3. F(s \ {x}) <= H(s \ {x}) /\ F(s \ {x}) \in Int /\ H(s \ {x}) \in Int
      BY <1>2, <3>2, <1>0 DEF Small
    <3>4. F(s) = f[x] + F(s \ {x}) /\ H(s) = h[x] + H(s \ {x})
      <4>1. \A y \in s : f[y] \in Int /\ h[y] \in Int
        BY <2>1
      <4> QED
        BY <4>1, <2>1, <3>1, SumTakesOut
    <3>5. f[x] \in Int /\ h[x] \in Int /\ f[x] <= h[x]
      BY <2>1, <3>1
    <3> HIDE DEF F, H
    <3> QED
      BY <3>3, <3>4, <3>5
  <2> QED
    BY <2>2, <2>3
<1>3. Nat \subseteq done
  <2> HIDE DEF done
  <2> QED
    BY <1>1, <1>2, AllNaturals
<1>4. Cardinality(T) \in done /\ T \in Small(T, Cardinality(T))
  BY <1>3, FS_CardinalityType DEF Small
<1> QED
  BY <1>4

(* One that is changed changes the sum by as much.                         *)
LEMMA SumOfOneChanged ==
  ASSUME NEW T, IsFiniteSet(T), NEW f, NEW h, NEW x \in T,
         \A y \in T : f[y] \in Int /\ h[y] \in Int, \A y \in T \ {x} : f[y] = h[y]
  PROVE  SumFunctionOnSet(h, T) = SumFunctionOnSet(f, T) + h[x] - f[x]
<1>1. IsFiniteSet(T \ {x})
  BY FS_Subset
<1>2. SumFunctionOnSet(f, T) = f[x] + SumFunctionOnSet(f, T \ {x})
  BY SumTakesOut
<1>3. SumFunctionOnSet(h, T) = h[x] + SumFunctionOnSet(h, T \ {x})
  BY SumTakesOut
<1>4. \A y \in T \ {x} : f[y] \in Int /\ h[y] = f[y]
  OBVIOUS
<1>5. SumFunctionOnSet(f, T \ {x}) = SumFunctionOnSet(h, T \ {x})
  BY <1>1, <1>4, SumOfSame
<1>6. SumFunctionOnSet(f, T \ {x}) \in Int
  BY <1>1, <1>4, SumIsInt
<1>7. f[x] \in Int /\ h[x] \in Int
  OBVIOUS
<1> QED
  BY <1>2, <1>3, <1>5, <1>6, <1>7

(* A sum of none but zeros, and one of none but naturals.                  *)
LEMMA SumOfNaturals ==
  ASSUME NEW T, IsFiniteSet(T), NEW f, \A x \in T : f[x] \in Nat
  PROVE  /\ SumFunctionOnSet(f, T) \in Nat
         /\ \A x \in T : f[x] <= SumFunctionOnSet(f, T)
         /\ (\A x \in T : f[x] = 0) => SumFunctionOnSet(f, T) = 0
<1> DEFINE none == [x \in T |-> 0]
           part == [x \in T |-> {}]
<1>1. MadeOfParts(T, part, none, {})
  <2>1. {} = UNION {part[g] : g \in T}
    OBVIOUS
  <2>2. \A g \in T : IsFiniteSet(part[g]) /\ none[g] = Cardinality(part[g])
    BY FS_EmptySet
  <2>3. \A g, h \in T : g # h => part[g] \cap part[h] = {}
    OBVIOUS
  <2> QED
    BY <2>1, <2>2, <2>3 DEF MadeOfParts
<1>2. SumFunctionOnSet(none, T) = Cardinality({})
  BY <1>1, CardinalityOfParts
<1>3. SumFunctionOnSet(none, T) = 0
  BY <1>2, FS_EmptySet
<1>4. SumFunctionOnSet(f, T) \in Int
  BY SumIsInt
<1>5. \A x \in T : none[x] \in Int /\ f[x] \in Int /\ none[x] <= f[x]
  OBVIOUS
<1>6. SumFunctionOnSet(none, T) <= SumFunctionOnSet(f, T)
  BY <1>5, SumsInOrder
<1>7. ASSUME NEW x \in T
      PROVE  f[x] <= SumFunctionOnSet(f, T)
  <2> DEFINE one == [none EXCEPT ![x] = f[x]]
  <2>1. \A y \in T : one[y] \in Int /\ f[y] \in Int /\ one[y] <= f[y]
    OBVIOUS
  <2>2. SumFunctionOnSet(one, T) <= SumFunctionOnSet(f, T)
    BY <2>1, SumsInOrder
  <2>3. (\A y \in T \ {x} : none[y] = one[y]) /\ none[x] = 0 /\ one[x] = f[x]
    OBVIOUS
  <2>6. \A y \in T : none[y] \in Int /\ one[y] \in Int
    BY <1>5, <2>1
  <2> HIDE DEF one, none
  <2>4. SumFunctionOnSet(one, T) = SumFunctionOnSet(none, T) + one[x] - none[x]
    BY <2>6, <2>3, SumOfOneChanged
  <2>5. f[x] \in Nat
    OBVIOUS
  <2> QED
    BY <2>2, <2>3, <2>4, <2>5, <1>3, <1>4
<1>8. (\A x \in T : f[x] = 0) => SumFunctionOnSet(f, T) = 0
  <2> SUFFICES ASSUME \A x \in T : f[x] = 0 PROVE SumFunctionOnSet(f, T) = 0
    OBVIOUS
  <2>1. \A x \in T : f[x] \in Int /\ none[x] = f[x]
    OBVIOUS
  <2>2. SumFunctionOnSet(f, T) = SumFunctionOnSet(none, T)
    BY <2>1, SumOfSame
  <2> QED
    BY <2>2, <1>3
<1> HIDE DEF none
<1> QED
  BY <1>3, <1>4, <1>6, <1>7, <1>8

(* What is made of a base in steps that stay in a set can be made, and     *)
(* stays there.                                                            *)
StaysIn(S, step, N) == \A s \in S, i \in 1..N : step[i][s] \in S

MadeBy(F, base, step, N) ==
    \A n \in 0..N : F[n] = IF n = 0 THEN base ELSE step[n][F[n - 1]]

LEMMA StepByStep ==
  ASSUME NEW N \in Nat, NEW S, NEW base \in S, NEW step, StaysIn(S, step, N)
  PROVE  \E F \in [0..N -> S] : MadeBy(F, base, step, N)
<1>0. \A s \in S, i \in 1..N : step[i][s] \in S
  BY DEF StaysIn
<1> DEFINE Body(F, n) == IF n = 0 THEN base ELSE step[n][F[n - 1]]
           Made(n) == \E F \in [0..n -> S] : \A i \in 0..n : F[i] = Body(F, i)
           done == {n \in Nat : n <= N => Made(n)}
<1>1. 0 \in done
  <2> DEFINE F == [i \in 0..0 |-> base]
  <2>1. F \in [0..0 -> S] /\ \A i \in 0..0 : F[i] = Body(F, i)
    OBVIOUS
  <2>2. Made(0)
    BY <2>1
  <2> QED
    BY <2>2
<1>2. ASSUME NEW n \in Nat, n \in done
      PROVE  n + 1 \in done
  <2> SUFFICES ASSUME n + 1 <= N PROVE Made(n + 1)
    OBVIOUS
  <2>1. PICK F \in [0..n -> S] : \A i \in 0..n : F[i] = Body(F, i)
    BY <1>2
  <2> DEFINE G == [i \in 0..(n + 1) |-> IF i <= n THEN F[i] ELSE step[n + 1][F[n]]]
  <2>2. F[n] \in S /\ n + 1 \in 1..N
    BY <2>1
  <2>3. step[n + 1][F[n]] \in S
    BY <2>2, <1>0
  <2>4. G \in [0..(n + 1) -> S]
    BY <2>1, <2>3
  <2>5. \A i \in 0..(n + 1) : G[i] = Body(G, i)
    <3> SUFFICES ASSUME NEW i \in 0..(n + 1) PROVE G[i] = Body(G, i)
      OBVIOUS
    <3>1. CASE i = n + 1
      <4>1. i # 0 /\ i - 1 = n /\ n \in 0..(n + 1) /\ G[n] = F[n] /\ G[i] = step[n + 1][F[n]]
        BY <3>1
      <4> QED
        BY <3>1, <4>1
    <3>2. CASE i # n + 1 /\ i # 0
      <4>1. i \in 0..n /\ i - 1 \in 0..n /\ i - 1 \in 0..(n + 1)
        BY <3>2
      <4>2. G[i] = F[i] /\ G[i - 1] = F[i - 1]
        BY <4>1
      <4> QED
        BY <2>1, <3>2, <4>1, <4>2
    <3>3. CASE i = 0
      <4>1. 0 \in 0..n /\ G[0] = F[0]
        OBVIOUS
      <4> QED
        BY <2>1, <3>3, <4>1
    <3> QED
      BY <3>1, <3>2, <3>3
  <2> HIDE DEF G
  <2> QED
    BY <2>4, <2>5
<1>3. Nat \subseteq done
  <2> HIDE DEF done
  <2> QED
    BY <1>1, <1>2, AllNaturals
<1>4. PICK F \in [0..N -> S] : \A i \in 0..N : F[i] = Body(F, i)
  BY <1>3
<1> QED
  BY <1>4 DEF MadeBy

LEMMA StepsStay ==
  ASSUME NEW N \in Nat, NEW S, NEW base \in S, NEW step, StaysIn(S, step, N),
         NEW F, MadeBy(F, base, step, N)
  PROVE  \A n \in 0..N : F[n] \in S
<1> DEFINE done == {n \in Nat : n <= N => F[n] \in S}
<1>0. \A s \in S, i \in 1..N : step[i][s] \in S
  BY DEF StaysIn
<1>1. \A n \in 0..N : F[n] = IF n = 0 THEN base ELSE step[n][F[n - 1]]
  BY DEF MadeBy
<1>2. 0 \in done
  BY <1>1
<1>3. ASSUME NEW n \in Nat, n \in done
      PROVE  n + 1 \in done
  <2> SUFFICES ASSUME n + 1 <= N PROVE F[n + 1] \in S
    OBVIOUS
  <2>1. F[n] \in S /\ n + 1 \in 1..N /\ n + 1 \in 0..N /\ n + 1 # 0 /\ (n + 1) - 1 = n
    BY <1>3
  <2>2. F[n + 1] = step[n + 1][F[n]]
    BY <1>1, <2>1
  <2> QED
    BY <2>1, <2>2, <1>0
<1>4. Nat \subseteq done
  <2> HIDE DEF done
  <2> QED
    BY <1>2, <1>3, AllNaturals
<1> QED
  BY <1>4

(* Adding up term by term.                                                 *)
LEMMA SumOfTwo ==
  ASSUME NEW T, IsFiniteSet(T), NEW f, NEW g, NEW h,
         \A x \in T : f[x] \in Int /\ g[x] \in Int /\ h[x] = f[x] + g[x]
  PROVE  SumFunctionOnSet(h, T) = SumFunctionOnSet(f, T) + SumFunctionOnSet(g, T)
<1> DEFINE F(s) == SumFunctionOnSet(f, s)
           G(s) == SumFunctionOnSet(g, s)
           H(s) == SumFunctionOnSet(h, s)
           done == {n \in Nat : \A s \in Small(T, n) : H(s) = F(s) + G(s)}
<1>0. \A x \in T : h[x] \in Int
  OBVIOUS
<1>1. \A s \in SUBSET T : IsFiniteSet(s) /\ F(s) \in Int /\ G(s) \in Int
  BY FS_Subset, SumIsInt
<1>2. 0 \in done
  <2> SUFFICES ASSUME NEW s \in Small(T, 0) PROVE H(s) = F(s) + G(s)
    OBVIOUS
  <2>1. IsFiniteSet(s) /\ Cardinality(s) \in Nat /\ Cardinality(s) <= 0
    BY FS_Subset, FS_CardinalityType DEF Small
  <2>2. s = {}
    BY <2>1, FS_EmptySet
  <2> QED
    BY <2>2, SumOfNone
<1>3. ASSUME NEW n \in Nat, n \in done
      PROVE  n + 1 \in done
  <2> SUFFICES ASSUME NEW s \in Small(T, n + 1) PROVE H(s) = F(s) + G(s)
    OBVIOUS
  <2>1. s \in SUBSET T /\ Cardinality(s) <= n + 1 /\ IsFiniteSet(s)
    BY <1>1 DEF Small
  <2>2. CASE s = {}
    BY <2>2, SumOfNone
  <2>3. CASE s # {}
    <3>1. PICK x \in s : TRUE
      BY <2>3
    <3>2. s \ {x} \in Small(T, n)
      BY <2>1, <3>1, SmallerSubset
    <3>3. H(s \ {x}) = F(s \ {x}) + G(s \ {x}) /\ F(s \ {x}) \in Int /\ G(s \ {x}) \in Int
      BY <1>3, <3>2, <1>1 DEF Small
    <3>4. F(s) = f[x] + F(s \ {x}) /\ G(s) = g[x] + G(s \ {x}) /\ H(s) = h[x] + H(s \ {x})
      <4>1. \A y \in s : f[y] \in Int /\ g[y] \in Int /\ h[y] \in Int
        BY <2>1, <1>0
      <4> QED
        BY <4>1, <2>1, <3>1, SumTakesOut
    <3>5. f[x] \in Int /\ g[x] \in Int /\ h[x] = f[x] + g[x]
      BY <2>1, <3>1
    <3> HIDE DEF F, G, H
    <3> QED
      BY <3>3, <3>4, <3>5
  <2> QED
    BY <2>2, <2>3
<1>4. Nat \subseteq done
  <2> HIDE DEF done
  <2> QED
    BY <1>2, <1>3, AllNaturals
<1>5. Cardinality(T) \in done /\ T \in Small(T, Cardinality(T))
  BY <1>4, FS_CardinalityType DEF Small
<1> QED
  BY <1>5

LEMMA FiniteImage ==
  ASSUME NEW S, IsFiniteSet(S), NEW f
  PROVE  IsFiniteSet({f[x] : x \in S})
<1> DEFINE image == {f[x] : x \in S}
           g == [x \in S |-> f[x]]
<1>1. g \in Surjection(S, image)
  BY DEF Surjection
<1> QED
  BY <1>1, FS_Surjection

=============================================================================
