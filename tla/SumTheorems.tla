---------------------------- MODULE SumTheorems ----------------------------
(***************************************************************************)
(* What a sum over a finite set is worth, for the components that add up   *)
(* quantities: the sum is an integer, does not depend on the order it is   *)
(* taken in, changes with its terms and splits with its set.               *)
(*                                                                         *)
(* SumFunctionOnSet is a fold, which picks the elements one by one.  The   *)
(* argument by induction is made on a smallest set for which a statement   *)
(* fails: inclusion is well founded on the subsets of a finite set.        *)
(***************************************************************************)
EXTENDS Functions, FiniteSetTheorems, WellFoundedInduction, TLAPS

\* Whatever holds of a finite set as soon as it holds of its strict subsets.
LEMMA SmallestSubset ==
  ASSUME NEW S, IsFiniteSet(S), NEW Q \in SUBSET SUBSET S, Q # {}
  PROVE  \E T \in Q : \A U \in Q : U \subseteq T => U = T
<1>1. Q \subseteq FiniteSubsetsOf(S)
  BY FS_Subset DEF FiniteSubsetsOf
<1>2. PICK T \in Q : \A U \in Q : <<U, T>> \notin StrictSubsetOrdering(S)
  BY <1>1, FS_StrictSubsetOrderingWellFounded, WFMin
<1> QED
  BY <1>2 DEF StrictSubsetOrdering

\* Induction over a finite set: `Good` holds of a set if it holds without any one element.
LEMMA SetInduction ==
  ASSUME NEW S, IsFiniteSet(S), NEW Good,
         \A U \in SUBSET S : (\A x \in U : U \ {x} \in Good) => U \in Good
  PROVE  S \in Good
<1> DEFINE Q == (SUBSET S) \ Good
<1> SUFFICES ASSUME S \notin Good PROVE FALSE
  OBVIOUS
<1>1. Q \in SUBSET SUBSET S /\ Q # {}
  OBVIOUS
<1>2. PICK U \in Q : \A V \in Q : V \subseteq U => V = U
  <2> HIDE DEF Q
  <2> QED
    BY <1>1, SmallestSubset
<1>3. \A x \in U : U \ {x} \in Good
  BY <1>2
<1> QED
  BY <1>3

LEMMA LeastNumber ==
  ASSUME NEW T \in SUBSET Nat, T # {}
  PROVE  \E n \in T : \A m \in T : n <= m
<1>1. PICK top \in T : TRUE
  OBVIOUS
<1> DEFINE S == 0..top
           Q == {0..m : m \in {k \in T : k <= top}}
<1>2. Q \in SUBSET SUBSET S /\ Q # {}
  BY <1>1
<1>3. IsFiniteSet(S)
  BY FS_Interval
<1>4. PICK U \in Q : \A V \in Q : V \subseteq U => V = U
  <2> HIDE DEF Q, S
  <2> QED
    BY <1>2, <1>3, SmallestSubset
<1>5. PICK n \in T : n <= top /\ U = 0..n
  BY <1>4
<1>6. ASSUME NEW m \in T, m < n PROVE FALSE
  <2>1. 0..m \in Q
    BY <1>5, <1>6
  <2>2. 0..m \subseteq U /\ n \in U /\ n \notin 0..m
    BY <1>5, <1>6
  <2> QED
    BY <1>4, <2>1, <2>2
<1> QED
  BY <1>5, <1>6

Pick(s) == CHOOSE x \in s : TRUE

Adds(g, f, S) ==
  g = [s \in SUBSET S |-> IF s = {} THEN 0 ELSE f[Pick(s)] + g[s \ {Pick(s)}]]

LEMMA SumIsChosen ==
  ASSUME NEW f, NEW S
  PROVE  SumFunctionOnSet(f, S) = (CHOOSE g : Adds(g, f, S))[S]
BY DEF SumFunctionOnSet, FoldFunctionOnSet, MapThenFoldSet, Adds, Pick

LEMMA Picked == ASSUME NEW s, s # {} PROVE Pick(s) \in s
BY DEF Pick

\* g is a sum of f over the subsets of S with at most n elements.
AddsUpTo(g, f, S, n) ==
  /\ g = [s \in SUBSET S |-> g[s]]
  /\ \A s \in SUBSET S : Cardinality(s) <= n =>
       g[s] = IF s = {} THEN 0 ELSE f[Pick(s)] + g[s \ {Pick(s)}]

\* Up to any number of elements the recursion has a function that follows it.
LEMMA SomethingAddsUpTo ==
  ASSUME NEW f, NEW S, IsFiniteSet(S), NEW n \in Nat
  PROVE  \E g : AddsUpTo(g, f, S, n)
<1> DEFINE Follows(g, k) == AddsUpTo(g, f, S, k)
           T == {k \in Nat : ~\E g : Follows(g, k)}
<1>1. \A s \in SUBSET S : IsFiniteSet(s) /\ Cardinality(s) \in Nat
  BY FS_Subset, FS_CardinalityType
<1>2. \A s \in SUBSET S : s # {} =>
        /\ s \ {Pick(s)} \in SUBSET S
        /\ Cardinality(s \ {Pick(s)}) = Cardinality(s) - 1
  BY <1>1, Picked, FS_RemoveElement
<1>3. \E g : Follows(g, 0)
  <2> DEFINE g == [s \in SUBSET S |-> 0]
  <2>1. \A s \in SUBSET S : Cardinality(s) <= 0 => s = {}
    BY <1>1, FS_EmptySet
  <2>2. g = [s \in SUBSET S |-> g[s]]
    OBVIOUS
  <2>3. \A s \in SUBSET S : s = {} => g[s] = 0
    OBVIOUS
  <2> HIDE DEF g
  <2>4. Follows(g, 0)
    BY <2>1, <2>2, <2>3 DEF AddsUpTo
  <2> QED
    BY <2>4
<1>4. ASSUME NEW k \in Nat, NEW g, Follows(g, k) PROVE \E h : Follows(h, k + 1)
  <2> DEFINE next(s) == IF s = {} THEN 0 ELSE f[Pick(s)] + g[s \ {Pick(s)}]
             h == [s \in SUBSET S |-> IF Cardinality(s) <= k THEN g[s] ELSE next(s)]
  <2>1. h = [s \in SUBSET S |-> h[s]]
    OBVIOUS
  <2>2. \A s \in SUBSET S : h[s] = next(s)
    BY <1>4 DEF AddsUpTo
  <2>3. \A s \in SUBSET S : Cardinality(s) <= k => h[s] = g[s]
    OBVIOUS
  <2> HIDE DEF h
  <2>4. ASSUME NEW s \in SUBSET S, Cardinality(s) <= k + 1
        PROVE  h[s] = IF s = {} THEN 0 ELSE f[Pick(s)] + h[s \ {Pick(s)}]
    <3>1. CASE s = {}
      BY <2>2, <3>1
    <3>2. CASE s # {}
      <4>1. s \ {Pick(s)} \in SUBSET S /\ Cardinality(s \ {Pick(s)}) <= k
        BY <1>1, <1>2, <2>4, <3>2
      <4> QED
        BY <2>2, <2>3, <3>2, <4>1
    <3> QED
      BY <3>1, <3>2
  <2>5. Follows(h, k + 1)
    BY <2>1, <2>4 DEF AddsUpTo
  <2> QED
    BY <2>5
<1>5. T = {}
  <2> SUFFICES ASSUME T # {} PROVE FALSE
    OBVIOUS
  <2>1. PICK k \in T : \A m \in T : k <= m
    BY LeastNumber
  <2>2. k # 0
    BY <1>3, <2>1
  <2>3. k - 1 \in Nat /\ k - 1 \notin T
    BY <2>1, <2>2
  <2>4. PICK g : Follows(g, k - 1)
    BY <2>3
  <2>5. \E h : Follows(h, (k - 1) + 1)
    BY <1>4, <2>3, <2>4
  <2>6. (k - 1) + 1 = k
    BY <2>1
  <2> QED
    BY <2>1, <2>5, <2>6
<1> QED
  BY <1>5

\* So the sum is what the recursion says.
LEMMA SomethingAdds ==
  ASSUME NEW f, NEW S, IsFiniteSet(S)
  PROVE  Adds(CHOOSE g : Adds(g, f, S), f, S)
<1>1. Cardinality(S) \in Nat /\ \A s \in SUBSET S : Cardinality(s) <= Cardinality(S)
  BY FS_Subset, FS_CardinalityType
<1>2. PICK g : AddsUpTo(g, f, S, Cardinality(S))
  BY <1>1, SomethingAddsUpTo
<1>3. \A s \in SUBSET S : g[s] = IF s = {} THEN 0 ELSE f[Pick(s)] + g[s \ {Pick(s)}]
  BY <1>1, <1>2 DEF AddsUpTo
<1>4. Adds(g, f, S)
  BY <1>2, <1>3 DEF Adds, AddsUpTo
<1> QED
  BY <1>4

LEMMA AddsAgree ==
  ASSUME NEW f, NEW S, IsFiniteSet(S), NEW T \in SUBSET S,
         NEW g, Adds(g, f, S), NEW h, Adds(h, f, T)
  PROVE  g[T] = h[T]
<1> DEFINE Good == {U \in SUBSET T : g[U] = h[U]}
<1>1. ASSUME NEW U \in SUBSET T, \A x \in U : U \ {x} \in Good PROVE g[U] = h[U]
  <2>1. U \in SUBSET T /\ U \in SUBSET S
    OBVIOUS
  <2>2. /\ g[U] = IF U = {} THEN 0 ELSE f[Pick(U)] + g[U \ {Pick(U)}]
        /\ h[U] = IF U = {} THEN 0 ELSE f[Pick(U)] + h[U \ {Pick(U)}]
    BY <2>1 DEF Adds
  <2>3. U # {} => g[U \ {Pick(U)}] = h[U \ {Pick(U)}]
    BY <1>1, Picked
  <2> QED
    BY <2>2, <2>3
<1>2. \A U \in SUBSET T : (\A x \in U : U \ {x} \in Good) => U \in Good
  BY <1>1
<1> HIDE DEF Good
<1>3. T \in Good
  BY <1>2, FS_Subset, SetInduction
<1> QED
  BY <1>3 DEF Good

\* Nothing adds up to zero.
THEOREM SumEmpty == \A f : SumFunctionOnSet(f, {}) = 0
<1> SUFFICES ASSUME NEW f PROVE SumFunctionOnSet(f, {}) = 0
  OBVIOUS
<1>1. Adds(CHOOSE g : Adds(g, f, {}), f, {})
  BY FS_EmptySet, SomethingAdds
<1> QED
  BY <1>1, SumIsChosen DEF Adds

LEMMA SumPick ==
  ASSUME NEW f, NEW S, IsFiniteSet(S), S # {}
  PROVE  SumFunctionOnSet(f, S) = f[Pick(S)] + SumFunctionOnSet(f, S \ {Pick(S)})
<1> DEFINE T == S \ {Pick(S)}
           g == CHOOSE k : Adds(k, f, S)
           h == CHOOSE k : Adds(k, f, T)
<1>1. T \in SUBSET S /\ IsFiniteSet(T)
  BY FS_Subset
<1>2. Adds(g, f, S) /\ Adds(h, f, T)
  BY <1>1, SomethingAdds
<1>3. SumFunctionOnSet(f, S) = g[S] /\ SumFunctionOnSet(f, T) = h[T]
  BY SumIsChosen
<1> HIDE DEF g, h, T
<1>4. g[S] = f[Pick(S)] + g[T]
  BY <1>2 DEF Adds, T
<1>5. g[T] = h[T]
  BY <1>1, <1>2, AddsAgree
<1> QED
  BY <1>3, <1>4, <1>5 DEF T

\* The sum of integers is one.
THEOREM SumInt ==
  ASSUME NEW S, IsFiniteSet(S), NEW f, \A x \in S : f[x] \in Int
  PROVE  SumFunctionOnSet(f, S) \in Int
<1> DEFINE Good == {U \in SUBSET S : SumFunctionOnSet(f, U) \in Int}
<1>1. ASSUME NEW U \in SUBSET S, \A x \in U : U \ {x} \in Good
      PROVE  SumFunctionOnSet(f, U) \in Int
  <2>1. CASE U = {}
    BY <2>1, SumEmpty
  <2>2. CASE U # {}
    <3>1. PICK y \in U : SumFunctionOnSet(f, U) = f[y] + SumFunctionOnSet(f, U \ {y})
      BY <2>2, FS_Subset, Picked, SumPick
    <3>2. f[y] \in Int /\ SumFunctionOnSet(f, U \ {y}) \in Int
      BY <1>1
    <3> QED
      BY <3>1, <3>2
  <2> QED
    BY <2>1, <2>2
<1>2. \A U \in SUBSET S : (\A x \in U : U \ {x} \in Good) => U \in Good
  BY <1>1
<1> HIDE DEF Good
<1>3. S \in Good
  BY <1>2, SetInduction
<1> QED
  BY <1>3 DEF Good

\* It does not matter which function the numbers come from.
THEOREM SumSame ==
  ASSUME NEW S, IsFiniteSet(S), NEW f, NEW g, \A x \in S : f[x] = g[x]
  PROVE  SumFunctionOnSet(f, S) = SumFunctionOnSet(g, S)
<1> DEFINE Good == {U \in SUBSET S : SumFunctionOnSet(f, U) = SumFunctionOnSet(g, U)}
<1>1. ASSUME NEW U \in SUBSET S, \A x \in U : U \ {x} \in Good
      PROVE  SumFunctionOnSet(f, U) = SumFunctionOnSet(g, U)
  <2>1. CASE U = {}
    BY <2>1, SumEmpty
  <2>2. CASE U # {}
    <3> DEFINE y == Pick(U)
    <3>1. y \in U /\ IsFiniteSet(U)
      BY <2>2, FS_Subset, Picked
    <3>2. /\ SumFunctionOnSet(f, U) = f[y] + SumFunctionOnSet(f, U \ {y})
          /\ SumFunctionOnSet(g, U) = g[y] + SumFunctionOnSet(g, U \ {y})
      BY <2>2, <3>1, SumPick
    <3>3. f[y] = g[y] /\ SumFunctionOnSet(f, U \ {y}) = SumFunctionOnSet(g, U \ {y})
      BY <1>1, <3>1
    <3> QED
      BY <3>2, <3>3
  <2> QED
    BY <2>1, <2>2
<1>2. \A U \in SUBSET S : (\A x \in U : U \ {x} \in Good) => U \in Good
  BY <1>1
<1> HIDE DEF Good
<1>3. S \in Good
  BY <1>2, SetInduction
<1> QED
  BY <1>3 DEF Good

\* Nor which is added first.
THEOREM SumTakeOut ==
  ASSUME NEW S, IsFiniteSet(S), NEW f, \A x \in S : f[x] \in Int, NEW x \in S
  PROVE  SumFunctionOnSet(f, S) = f[x] + SumFunctionOnSet(f, S \ {x})
<1> DEFINE Good == {U \in SUBSET S : \A z \in U :
                      SumFunctionOnSet(f, U) = f[z] + SumFunctionOnSet(f, U \ {z})}
<1>1. ASSUME NEW U \in SUBSET S, \A z \in U : U \ {z} \in Good, NEW z \in U
      PROVE  SumFunctionOnSet(f, U) = f[z] + SumFunctionOnSet(f, U \ {z})
  <2>1. PICK y \in U : SumFunctionOnSet(f, U) = f[y] + SumFunctionOnSet(f, U \ {y})
    BY FS_Subset, Picked, SumPick
  <2>2. CASE y = z
    BY <2>1, <2>2
  <2>3. CASE y # z
    <3>1. SumFunctionOnSet(f, U \ {y}) = f[z] + SumFunctionOnSet(f, (U \ {y}) \ {z})
      BY <1>1, <2>3
    <3>2. SumFunctionOnSet(f, U \ {z}) = f[y] + SumFunctionOnSet(f, (U \ {z}) \ {y})
      BY <1>1, <2>3
    <3> DEFINE rest == SumFunctionOnSet(f, (U \ {y}) \ {z})
    <3>3. /\ SumFunctionOnSet(f, U \ {y}) = f[z] + rest
          /\ SumFunctionOnSet(f, U \ {z}) = f[y] + rest
      <4>1. (U \ {z}) \ {y} = (U \ {y}) \ {z}
        OBVIOUS
      <4> QED
        BY <3>1, <3>2, <4>1
    <3>4. rest \in Int /\ f[y] \in Int /\ f[z] \in Int
      <4>1. (U \ {y}) \ {z} \in SUBSET S
        OBVIOUS
      <4> QED
        BY <4>1, FS_Subset, SumInt
    <3> HIDE DEF rest
    <3> QED
      BY <2>1, <3>3, <3>4
  <2> QED
    BY <2>2, <2>3
<1>2. \A U \in SUBSET S : (\A z \in U : U \ {z} \in Good) => U \in Good
  BY <1>1
<1> HIDE DEF Good
<1>3. S \in Good
  BY <1>2, SetInduction
<1> QED
  BY <1>3 DEF Good

\* A new element adds its number.
THEOREM SumPutIn ==
  ASSUME NEW S, IsFiniteSet(S), NEW x, x \notin S, NEW f, \A y \in S \cup {x} : f[y] \in Int
  PROVE  SumFunctionOnSet(f, S \cup {x}) = f[x] + SumFunctionOnSet(f, S)
<1>1. IsFiniteSet(S \cup {x}) /\ (S \cup {x}) \ {x} = S /\ x \in S \cup {x}
  BY FS_AddElement
<1> DEFINE T == S \cup {x}
<1> HIDE DEF T
<1>2. IsFiniteSet(T) /\ T \ {x} = S /\ x \in T /\ \A y \in T : f[y] \in Int
  BY <1>1 DEF T
<1>3. SumFunctionOnSet(f, T) = f[x] + SumFunctionOnSet(f, T \ {x})
  BY <1>2, SumTakeOut
<1> QED
  BY <1>2, <1>3 DEF T

\* Where one number changes the sum changes as much.
THEOREM SumChange ==
  ASSUME NEW S, IsFiniteSet(S), NEW x \in S,
         NEW f, \A y \in S : f[y] \in Int,
         NEW g, g[x] \in Int, \A y \in S \ {x} : g[y] = f[y]
  PROVE  SumFunctionOnSet(g, S) = SumFunctionOnSet(f, S) + (g[x] - f[x])
<1> DEFINE T == S \ {x}
<1>1. IsFiniteSet(T)
  BY FS_Subset
<1>2. \A y \in S : g[y] \in Int
  OBVIOUS
<1>3. SumFunctionOnSet(f, S) = f[x] + SumFunctionOnSet(f, T)
  BY SumTakeOut
<1>4. SumFunctionOnSet(g, S) = g[x] + SumFunctionOnSet(g, T)
  BY <1>2, SumTakeOut
<1>5. SumFunctionOnSet(f, T) = SumFunctionOnSet(g, T)
  BY <1>1, SumSame
<1>6. SumFunctionOnSet(f, T) \in Int
  BY <1>1, SumInt
<1> HIDE DEF T
<1> QED
  BY <1>3, <1>4, <1>5, <1>6

\* Smaller numbers, smaller sum.
THEOREM SumAtMost ==
  ASSUME NEW S, IsFiniteSet(S), NEW f, NEW g,
         \A x \in S : f[x] \in Int /\ g[x] \in Int /\ f[x] <= g[x]
  PROVE  SumFunctionOnSet(f, S) <= SumFunctionOnSet(g, S)
<1> DEFINE Good == {U \in SUBSET S : SumFunctionOnSet(f, U) <= SumFunctionOnSet(g, U)}
<1>1. ASSUME NEW U \in SUBSET S, \A x \in U : U \ {x} \in Good
      PROVE  SumFunctionOnSet(f, U) <= SumFunctionOnSet(g, U)
  <2>1. CASE U = {}
    BY <2>1, SumEmpty
  <2>2. CASE U # {}
    <3> DEFINE y == Pick(U)
    <3>1. y \in U /\ IsFiniteSet(U) /\ IsFiniteSet(U \ {y})
      BY <2>2, FS_Subset, Picked
    <3>2. /\ SumFunctionOnSet(f, U) = f[y] + SumFunctionOnSet(f, U \ {y})
          /\ SumFunctionOnSet(g, U) = g[y] + SumFunctionOnSet(g, U \ {y})
      BY <2>2, <3>1, SumPick
    <3>3. SumFunctionOnSet(f, U \ {y}) \in Int /\ SumFunctionOnSet(g, U \ {y}) \in Int
      BY <3>1, SumInt
    <3>4. f[y] <= g[y] /\ SumFunctionOnSet(f, U \ {y}) <= SumFunctionOnSet(g, U \ {y})
      BY <1>1, <3>1
    <3>5. f[y] \in Int /\ g[y] \in Int
      BY <3>1
    <3> HIDE DEF y, Good
    <3> QED
      BY <3>2, <3>3, <3>4, <3>5
  <2> QED
    BY <2>1, <2>2
<1>2. \A U \in SUBSET S : (\A x \in U : U \ {x} \in Good) => U \in Good
  BY <1>1
<1> HIDE DEF Good
<1>3. S \in Good
  BY <1>2, SetInduction
<1> QED
  BY <1>3 DEF Good

\* What is added number by number is added in the sum.
THEOREM SumAdds ==
  ASSUME NEW S, IsFiniteSet(S), NEW f, NEW g, NEW h,
         \A x \in S : f[x] \in Int /\ g[x] \in Int /\ h[x] = f[x] + g[x]
  PROVE  SumFunctionOnSet(h, S) = SumFunctionOnSet(f, S) + SumFunctionOnSet(g, S)
<1> DEFINE Good == {U \in SUBSET S : SumFunctionOnSet(h, U) =
                      SumFunctionOnSet(f, U) + SumFunctionOnSet(g, U)}
<1>1. ASSUME NEW U \in SUBSET S, \A x \in U : U \ {x} \in Good
      PROVE  SumFunctionOnSet(h, U) = SumFunctionOnSet(f, U) + SumFunctionOnSet(g, U)
  <2>1. CASE U = {}
    BY <2>1, SumEmpty
  <2>2. CASE U # {}
    <3> DEFINE y == Pick(U)
    <3>1. y \in U /\ IsFiniteSet(U) /\ IsFiniteSet(U \ {y})
      BY <2>2, FS_Subset, Picked
    <3>2. /\ SumFunctionOnSet(f, U) = f[y] + SumFunctionOnSet(f, U \ {y})
          /\ SumFunctionOnSet(g, U) = g[y] + SumFunctionOnSet(g, U \ {y})
          /\ SumFunctionOnSet(h, U) = h[y] + SumFunctionOnSet(h, U \ {y})
      BY <2>2, <3>1, SumPick
    <3>3. SumFunctionOnSet(f, U \ {y}) \in Int /\ SumFunctionOnSet(g, U \ {y}) \in Int
      BY <3>1, SumInt
    <3>4. SumFunctionOnSet(h, U \ {y}) =
            SumFunctionOnSet(f, U \ {y}) + SumFunctionOnSet(g, U \ {y})
      BY <1>1, <3>1
    <3>5. f[y] \in Int /\ g[y] \in Int /\ h[y] = f[y] + g[y]
      BY <3>1
    <3> HIDE DEF y, Good
    <3> QED
      BY <3>2, <3>3, <3>4, <3>5
  <2> QED
    BY <2>1, <2>2
<1>2. \A U \in SUBSET S : (\A x \in U : U \ {x} \in Good) => U \in Good
  BY <1>1
<1> HIDE DEF Good
<1>3. S \in Good
  BY <1>2, SetInduction
<1> QED
  BY <1>3 DEF Good

\* Two sets without a common element add up.
THEOREM SumSplits ==
  ASSUME NEW S, IsFiniteSet(S), NEW f, \A x \in S : f[x] \in Int, NEW T \in SUBSET S
  PROVE  SumFunctionOnSet(f, S) = SumFunctionOnSet(f, T) + SumFunctionOnSet(f, S \ T)
<1> DEFINE Good == {U \in SUBSET S : SumFunctionOnSet(f, U) =
                      SumFunctionOnSet(f, U \cap T) + SumFunctionOnSet(f, U \ T)}
<1>1. ASSUME NEW U \in SUBSET S, \A x \in U : U \ {x} \in Good
      PROVE  SumFunctionOnSet(f, U) =
               SumFunctionOnSet(f, U \cap T) + SumFunctionOnSet(f, U \ T)
  <2>1. CASE U = {}
    <3>1. U \cap T = {} /\ U \ T = {}
      BY <2>1
    <3> QED
      BY <2>1, <3>1, SumEmpty
  <2>2. ASSUME NEW y \in U PROVE SumFunctionOnSet(f, U) =
               SumFunctionOnSet(f, U \cap T) + SumFunctionOnSet(f, U \ T)
    <3> DEFINE V == U \ {y}
               a == SumFunctionOnSet(f, V \cap T)
               b == SumFunctionOnSet(f, V \ T)
    <3>1. IsFiniteSet(U) /\ IsFiniteSet(U \cap T) /\ IsFiniteSet(U \ T)
          /\ IsFiniteSet(V \cap T) /\ IsFiniteSet(V \ T)
      <4>1. /\ U \cap T \in SUBSET S /\ U \ T \in SUBSET S
            /\ V \cap T \in SUBSET S /\ V \ T \in SUBSET S
        OBVIOUS
      <4> QED
        BY <4>1, FS_Subset
    <3>2. a \in Int /\ b \in Int /\ f[y] \in Int
      BY <3>1, SumInt
    <3>3. SumFunctionOnSet(f, U) = f[y] + SumFunctionOnSet(f, V)
      BY <3>1, SumTakeOut
    <3>4. SumFunctionOnSet(f, V) = a + b
      BY <1>1
    <3>5. CASE y \in T
      <4>1. (U \cap T) \ {y} = V \cap T /\ U \ T = V \ T /\ y \in U \cap T
        BY <3>5
      <4>2. SumFunctionOnSet(f, U \cap T) = f[y] + SumFunctionOnSet(f, (U \cap T) \ {y})
        BY <3>1, <4>1, SumTakeOut
      <4>3. SumFunctionOnSet(f, U \cap T) = f[y] + a /\ SumFunctionOnSet(f, U \ T) = b
        BY <4>1, <4>2
      <4> HIDE DEF a, b, V, Good
      <4> QED
        BY <3>2, <3>3, <3>4, <4>3
    <3>6. CASE y \notin T
      <4>1. (U \ T) \ {y} = V \ T /\ U \cap T = V \cap T /\ y \in U \ T
        BY <3>6
      <4>2. SumFunctionOnSet(f, U \ T) = f[y] + SumFunctionOnSet(f, (U \ T) \ {y})
        BY <3>1, <4>1, SumTakeOut
      <4>3. SumFunctionOnSet(f, U \ T) = f[y] + b /\ SumFunctionOnSet(f, U \cap T) = a
        BY <4>1, <4>2
      <4> HIDE DEF a, b, V, Good
      <4> QED
        BY <3>2, <3>3, <3>4, <4>3
    <3> QED
      BY <3>5, <3>6
  <2> QED
    BY <2>1, <2>2
<1>2. \A U \in SUBSET S : (\A x \in U : U \ {x} \in Good) => U \in Good
  BY <1>1
<1> HIDE DEF Good
<1>3. S \in Good
  BY <1>2, SetInduction
<1>4. S \cap T = T
  OBVIOUS
<1> QED
  BY <1>3, <1>4 DEF Good

\* Nothing negative in it: at least zero, and at least the sum of a part.
THEOREM SumOfPart ==
  ASSUME NEW S, IsFiniteSet(S), NEW f, \A x \in S : f[x] \in Nat, NEW T \in SUBSET S
  PROVE  0 <= SumFunctionOnSet(f, T) /\ SumFunctionOnSet(f, T) <= SumFunctionOnSet(f, S)
<1>1. ASSUME NEW U \in SUBSET S PROVE 0 <= SumFunctionOnSet(f, U) /\ SumFunctionOnSet(f, U) \in Int
  <2> DEFINE Good == {V \in SUBSET U : 0 <= SumFunctionOnSet(f, V)}
  <2>0. IsFiniteSet(U)
    BY FS_Subset
  <2>1. ASSUME NEW V \in SUBSET U, \A x \in V : V \ {x} \in Good PROVE 0 <= SumFunctionOnSet(f, V)
    <3>1. CASE V = {}
      BY <3>1, SumEmpty
    <3>2. CASE V # {}
      <4> DEFINE y == Pick(V)
      <4>1. y \in V /\ IsFiniteSet(V) /\ IsFiniteSet(V \ {y}) /\ V \ {y} \in SUBSET S
        BY <2>0, <3>2, FS_Subset, Picked
      <4>2. SumFunctionOnSet(f, V) = f[y] + SumFunctionOnSet(f, V \ {y})
        BY <3>2, <4>1, SumPick
      <4>3. SumFunctionOnSet(f, V \ {y}) \in Int /\ f[y] \in Nat
        BY <4>1, SumInt
      <4>4. 0 <= SumFunctionOnSet(f, V \ {y})
        BY <2>1, <4>1
      <4> HIDE DEF y, Good
      <4> QED
        BY <4>2, <4>3, <4>4
    <3> QED
      BY <3>1, <3>2
  <2>2. \A V \in SUBSET U : (\A x \in V : V \ {x} \in Good) => V \in Good
    BY <2>1
  <2> HIDE DEF Good
  <2>3. U \in Good
    BY <2>0, <2>2, SetInduction
  <2> QED
    BY <2>0, <2>3, SumInt DEF Good
<1>2. SumFunctionOnSet(f, S) = SumFunctionOnSet(f, T) + SumFunctionOnSet(f, S \ T)
  BY SumSplits
<1>3. S \ T \in SUBSET S
  OBVIOUS
<1>4. /\ 0 <= SumFunctionOnSet(f, T) /\ SumFunctionOnSet(f, T) \in Int
      /\ 0 <= SumFunctionOnSet(f, S \ T) /\ SumFunctionOnSet(f, S \ T) \in Int
  BY <1>1, <1>3
<1> QED
  BY <1>2, <1>4

\* Nothing but zeros in it.
THEOREM SumOfZeros ==
  ASSUME NEW S, IsFiniteSet(S), NEW f, \A x \in S : f[x] = 0
  PROVE  SumFunctionOnSet(f, S) = 0
<1> DEFINE Good == {U \in SUBSET S : SumFunctionOnSet(f, U) = 0}
<1>1. ASSUME NEW U \in SUBSET S, \A x \in U : U \ {x} \in Good
      PROVE  SumFunctionOnSet(f, U) = 0
  <2>1. CASE U = {}
    BY <2>1, SumEmpty
  <2>2. CASE U # {}
    <3> DEFINE y == Pick(U)
    <3>1. y \in U /\ SumFunctionOnSet(f, U) = f[y] + SumFunctionOnSet(f, U \ {y})
      BY <2>2, FS_Subset, Picked, SumPick
    <3>2. f[y] = 0 /\ SumFunctionOnSet(f, U \ {y}) = 0
      BY <1>1, <3>1
    <3> QED
      BY <3>1, <3>2
  <2> QED
    BY <2>1, <2>2
<1>2. \A U \in SUBSET S : (\A x \in U : U \ {x} \in Good) => U \in Good
  BY <1>1
<1> HIDE DEF Good
<1>3. S \in Good
  BY <1>2, SetInduction
<1> QED
  BY <1>3 DEF Good

\* Of finitely many things that are each numbered, one has the largest number.
THEOREM LastOne ==
  ASSUME NEW S, IsFiniteSet(S), S # {}, NEW f, \A x \in S : f[x] \in Int
  PROVE  \E x \in S : \A y \in S : f[y] <= f[x]
<1> DEFINE Good == {U \in SUBSET S : U = {} \/ \E x \in U : \A y \in U : f[y] <= f[x]}
<1>1. ASSUME NEW U \in SUBSET S, \A z \in U : U \ {z} \in Good, NEW z \in U
      PROVE  \E x \in U : \A y \in U : f[y] <= f[x]
  <2>1. CASE U \ {z} = {}
    <3>1. \A y \in U : y = z
      BY <2>1
    <3> QED
      BY <3>1
  <2>2. CASE \E x \in U \ {z} : \A y \in U \ {z} : f[y] <= f[x]
    <3>1. PICK x \in U \ {z} : \A y \in U \ {z} : f[y] <= f[x]
      BY <2>2
    <3>2. CASE f[z] <= f[x]
      BY <3>1, <3>2
    <3>3. CASE ~(f[z] <= f[x])
      <4>1. \A y \in U : f[y] <= f[z]
        BY <3>1, <3>3
      <4> QED
        BY <4>1
    <3> QED
      BY <3>2, <3>3
  <2> QED
    BY <1>1, <2>1, <2>2
<1>2. \A U \in SUBSET S : (\A x \in U : U \ {x} \in Good) => U \in Good
  BY <1>1
<1> HIDE DEF Good
<1>3. S \in Good
  BY <1>2, SetInduction
<1> QED
  BY <1>3 DEF Good
=============================================================================
