------------------------------- MODULE SumProofs -------------------------------
(***************************************************************************)
(* Lemmas about sums over finite sets, for the modules whose figures are   *)
(* sums. FoldFunctionOnSet takes its elements in the order of CHOOSE, by a *)
(* recursion over the subsets of the set; here it is shown to have a       *)
(* result, and one that does not depend on that order.                     *)
(*                                                                         *)
(* The theorems on induction take an operator, which no prover here can    *)
(* instantiate. BySubsets and ByNumbers take the set of what a lemma holds *)
(* of in its place: if it were not all, there would be a least exception.  *)
(***************************************************************************)
EXTENDS Integers, FiniteSetsExt, Functions, FiniteSetTheorems, WellFoundedInduction,
        NaturalsInduction, TLAPS

\* The sum of g over S.
Total(g, S) == FoldFunctionOnSet(LAMBDA a, b : a + b, 0, g, S)

-----------------------------------------------------------------------------
\* Every set of natural numbers has a least one.
LEMMA LeastNat ==
  ASSUME NEW S \in SUBSET Nat, S # {}
  PROVE  \E x \in S : \A j \in S : x <= j
<1>1. PICK x \in S : \A y \in S : ~(<<y, x>> \in OpToRel(<, Nat))
  BY NatLessThanWellFounded, WFMin
<1>2. \A y \in S : y \in Nat /\ x \in Nat
  OBVIOUS
<1>3. \A y \in S : ~(y < x)
  BY <1>1, <1>2, Zenon DEF OpToRel
<1>. QED  BY <1>2, <1>3

\* The element that the sum begins with.
First(T) == CHOOSE x \in T : TRUE

\* f is the sum over the subsets of S, element by element in the order of CHOOSE.
Adds(f, g, S) ==
  /\ f[{}] = 0
  /\ \A T \in SUBSET S : T # {} => f[T] = g[First(T)] + f[T \ {First(T)}]

\* Induction on the natural numbers, for the members of a set.
LEMMA ByNumbers ==
  ASSUME NEW Good, 0 \in Good, \A n \in Nat : n \in Good => n + 1 \in Good
  PROVE  \A n \in Nat : n \in Good
<1>. SUFFICES ASSUME Nat \ Good # {}  PROVE FALSE
  OBVIOUS
<1>1. PICK n \in Nat \ Good : \A m \in Nat \ Good : n <= m
  BY LeastNat
<1>2. n - 1 \in Nat /\ n - 1 \in Good
  BY <1>1
<1>. QED  BY <1>1, <1>2

\* Induction on the subsets of a finite set, for the members of a set.
LEMMA BySubsets ==
  ASSUME NEW S, IsFiniteSet(S), NEW Good, {} \in Good,
         \A T \in SUBSET S : T # {} /\ (\A x \in T : T \ {x} \in Good) => T \in Good
  PROVE  S \in Good
<1>. DEFINE Few(n) == {T \in SUBSET S : Cardinality(T) = n}
            Small == {n \in Nat : \A T \in Few(n) : T \in Good}
<1>1. \A T \in SUBSET S : IsFiniteSet(T) /\ Cardinality(T) \in Nat
  BY FS_Subset, FS_CardinalityType
<1>2. 0 \in Small
  BY <1>1, FS_EmptySet
<1>3. ASSUME NEW n \in Nat, n \in Small  PROVE n + 1 \in Small
  <2>. SUFFICES ASSUME NEW T \in Few(n + 1)  PROVE T \in Good
    OBVIOUS
  <2>1. IsFiniteSet(T) /\ Cardinality(T) = n + 1 /\ T \in SUBSET S
    BY <1>1
  <2>2. T # {}
    BY <2>1, FS_EmptySet
  <2>3. ASSUME NEW x \in T  PROVE T \ {x} \in Good
    <3>1. T \ {x} \in SUBSET S /\ Cardinality(T \ {x}) = Cardinality(T) - 1
      BY <2>1, FS_RemoveElement
    <3>2. Cardinality(T \ {x}) = n
      BY <2>1, <3>1
    <3>. QED  BY <1>3, <3>1, <3>2
  <2>. QED  BY <2>1, <2>2, <2>3
<1>. HIDE DEF Small
<1>4. \A n \in Nat : n \in Small
  BY <1>2, <1>3, ByNumbers
<1>. QED  BY <1>1, <1>4 DEF Small

\* The recursion of the sum has a result.
LEMMA SumRounds ==
  ASSUME NEW S, IsFiniteSet(S), NEW g
  PROVE  \E f : Total(g, S) = f[S] /\ Adds(f, g, S)
<1>. DEFINE Round(f, T) == IF T = {} THEN 0
                           ELSE g[First(T)] + f[T \ {First(T)}]
            Small(k) == {T \in SUBSET S : Cardinality(T) <= k}
            Runs(k) == \E f : f = [T \in Small(k) |-> Round(f, T)]
            sum == CHOOSE f : f = [T \in SUBSET S |-> Round(f, T)]
<1>1. \A T \in SUBSET S : IsFiniteSet(T) /\ Cardinality(T) \in Nat /\ Cardinality(T) <= Cardinality(S)
  BY FS_Subset, FS_CardinalityType
<1>2. ASSUME NEW T \in SUBSET S, T # {}
      PROVE  T \ {First(T)} \in SUBSET S /\ Cardinality(T \ {First(T)}) = Cardinality(T) - 1
  <2>1. First(T) \in T
    BY <1>2 DEF First
  <2>. QED  BY <1>1, <2>1, FS_RemoveElement
<1>3. Runs(0)
  <2>. DEFINE h == [T \in Small(0) |-> 0]
  <2>1. \A T \in Small(0) : T = {}
    BY <1>1, FS_EmptySet
  <2>2. h = [T \in Small(0) |-> Round(h, T)]
    BY <2>1
  <2>. QED  BY <2>2
<1>4. ASSUME NEW k \in Nat, Runs(k)  PROVE Runs(k + 1)
  <2>1. PICK f : f = [T \in Small(k) |-> Round(f, T)]
    BY <1>4
  <2>. DEFINE h == [T \in Small(k + 1) |-> Round(f, T)]
  <2>2. ASSUME NEW T \in Small(k + 1)  PROVE h[T] = Round(h, T)
    <3>1. CASE T = {}
      BY <3>1
    <3>2. CASE T # {}
      <4>. DEFINE U == T \ {First(T)}
      <4>1. U \in Small(k) /\ U \in Small(k + 1)
        <5>1. U \in SUBSET S /\ Cardinality(U) = Cardinality(T) - 1 /\ Cardinality(T) \in Nat /\ Cardinality(T) <= k + 1
          BY <1>1, <1>2, <3>2
        <5>. QED  BY <5>1
      <4>2. f[U] = Round(f, U) /\ h[U] = Round(f, U)
        BY <2>1, <4>1
      <4>. HIDE DEF U
      <4>. QED  BY <3>2, <4>2 DEF U
    <3>. QED  BY <3>1, <3>2
  <2>3. h = [T \in Small(k + 1) |-> h[T]]
    OBVIOUS
  <2>. HIDE DEF h
  <2>4. h = [T \in Small(k + 1) |-> Round(h, T)]
    BY <2>2, <2>3
  <2>. QED  BY <2>4
<1>5. Runs(Cardinality(S))
  <2>. DEFINE Good == {k \in Nat : Runs(k)}
  <2>. HIDE DEF Runs
  <2>1. 0 \in Good /\ \A k \in Nat : k \in Good => k + 1 \in Good
    BY <1>3, <1>4
  <2>. HIDE DEF Good
  <2>2. \A k \in Nat : k \in Good
    BY <2>1, ByNumbers
  <2>. QED  BY <1>1, <2>2 DEF Good
<1>6. Small(Cardinality(S)) = SUBSET S
  BY <1>1
<1>7. sum = [T \in SUBSET S |-> Round(sum, T)]
  <2>1. PICK f : f = [T \in Small(Cardinality(S)) |-> Round(f, T)]
    BY <1>5
  <2>. HIDE DEF Small, Round
  <2>2. f = [T \in SUBSET S |-> Round(f, T)]
    BY <1>6, <2>1
  <2>. QED  BY <2>2
<1>8. Total(g, S) = sum[S]
  BY DEF Total, FoldFunctionOnSet, MapThenFoldSet, First
<1>. HIDE DEF sum
<1>9. \A T \in SUBSET S : sum[T] = Round(sum, T)
  BY <1>7
<1>10. {} \in SUBSET S
  OBVIOUS
<1>11. WITNESS sum
<1>. QED  BY <1>8, <1>9, <1>10 DEF Adds

\* Nothing adds up to nothing.
LEMMA SumEmpty ==
  ASSUME NEW g
  PROVE  Total(g, {}) = 0
BY SumRounds, FS_EmptySet DEF Adds

\* The sum over a set is taken element by element, in the order of CHOOSE.
LEMMA SumChosen ==
  ASSUME NEW g, NEW S, IsFiniteSet(S), S # {}
  PROVE  First(S) \in S /\ Total(g, S) = g[First(S)] + Total(g, S \ {First(S)})
<1>2. PICK f : Total(g, S) = f[S] /\ Adds(f, g, S)
  BY SumRounds
<1>3. \A T \in SUBSET S : IsFiniteSet(T) /\ Cardinality(T) \in Nat
  BY FS_Subset, FS_CardinalityType
<1>4. ASSUME NEW T \in SUBSET S  PROVE Total(g, T) = f[T]
  <2>1. PICK h : Total(g, T) = h[T] /\ Adds(h, g, T)
    BY <1>3, SumRounds
  <2>. DEFINE Good == {U \in SUBSET T : h[U] = f[U]}
  <2>2. {} \in Good
    BY <1>2, <2>1 DEF Adds
  <2>3. ASSUME NEW U \in SUBSET T, U # {}, \A x \in U : U \ {x} \in Good
        PROVE  U \in Good
    <3>1. First(U) \in U
      BY <2>3 DEF First
    <3>2. h[U] = g[First(U)] + h[U \ {First(U)}] /\ f[U] = g[First(U)] + f[U \ {First(U)}]
      BY <1>2, <2>1, <2>3 DEF Adds
    <3>. QED  BY <2>3, <3>1, <3>2
  <2>4. IsFiniteSet(T) /\ T \in SUBSET T
    BY <1>3
  <2>. HIDE DEF Good
  <2>5. T \in Good
    BY <2>2, <2>3, <2>4, BySubsets, Zenon
  <2>. QED  BY <2>1, <2>5 DEF Good
<1>. DEFINE c == First(S)
<1>5. c \in S
  BY DEF First
<1>6. S \in SUBSET S /\ S \ {c} \in SUBSET S
  OBVIOUS
<1>7. f[S] = g[c] + f[S \ {c}]
  BY <1>2, <1>6 DEF Adds
<1>. HIDE DEF c
<1>8. Total(g, S) = g[c] + Total(g, S \ {c})
  BY <1>4, <1>6, <1>7
<1>. QED  BY <1>5, <1>8 DEF c

\* Any element may be taken out first, and a sum of natural numbers is one.
LEMMA SumTakeOut ==
  ASSUME NEW S, IsFiniteSet(S), NEW g, \A x \in S : g[x] \in Nat
  PROVE  /\ Total(g, S) \in Nat
         /\ \A x \in S : Total(g, S) = g[x] + Total(g, S \ {x})
<1>. DEFINE Good == {T \in SUBSET S : /\ Total(g, T) \in Nat
                                      /\ \A x \in T : /\ Total(g, T) = g[x] + Total(g, T \ {x})
                                                       /\ Total(g, T \ {x}) \in Nat}
<1>1. {} \in Good
  BY SumEmpty
<1>2. ASSUME NEW T \in SUBSET S, T # {}, \A x \in T : T \ {x} \in Good
      PROVE  T \in Good
  <2>. DEFINE c == First(T)
  <2>1. c \in T /\ Total(g, T) = g[c] + Total(g, T \ {c})
    BY <1>2, FS_Subset, SumChosen
  <2>. HIDE DEF c
  <2>2. \A x \in T : /\ g[x] \in Nat /\ Total(g, T \ {x}) \in Nat
                     /\ \A y \in T \ {x} : /\ Total(g, T \ {x}) = g[y] + Total(g, (T \ {x}) \ {y})
                                            /\ Total(g, (T \ {x}) \ {y}) \in Nat
    BY <1>2
  <2>3. ASSUME NEW x \in T, x # c  PROVE Total(g, T) = g[x] + Total(g, T \ {x})
    <3>1. /\ Total(g, T \ {c}) = g[x] + Total(g, (T \ {c}) \ {x})
          /\ Total(g, (T \ {c}) \ {x}) \in Nat
          /\ Total(g, T \ {x}) = g[c] + Total(g, (T \ {x}) \ {c})
          /\ (T \ {c}) \ {x} = (T \ {x}) \ {c}
      BY <2>1, <2>2, <2>3
    <3>. QED  BY <2>1, <2>2, <3>1
  <2>4. Total(g, T) \in Nat /\ \A x \in T : Total(g, T) = g[x] + Total(g, T \ {x})
    <3>1. g[c] \in Nat /\ Total(g, T \ {c}) \in Nat
      BY <2>1, <2>2
    <3>2. Total(g, T) \in Nat
      BY <2>1, <3>1
    <3>. QED  BY <2>1, <2>3, <3>2
  <2>. QED  BY <2>2, <2>4
<1>. HIDE DEF Good
<1>3. S \in Good
  BY <1>1, <1>2, BySubsets, Zenon
<1>. QED  BY <1>3 DEF Good

\* One element more.
LEMMA SumPutIn ==
  ASSUME NEW S, IsFiniteSet(S), NEW g, NEW c, c \notin S, \A x \in S \cup {c} : g[x] \in Nat
  PROVE  /\ Total(g, S \cup {c}) = g[c] + Total(g, S)
         /\ Total(g, S) \in Nat /\ Total(g, S \cup {c}) \in Nat
<1>1. IsFiniteSet(S \cup {c}) /\ (S \cup {c}) \ {c} = S
  BY FS_AddElement
<1>. QED  BY <1>1, SumTakeOut

\* Functions with the same values on a set have the same sum.
LEMMA SumSame ==
  ASSUME NEW S, IsFiniteSet(S), NEW g, NEW h, \A x \in S : g[x] = h[x]
  PROVE  Total(g, S) = Total(h, S)
<1>. DEFINE Good == {T \in SUBSET S : Total(g, T) = Total(h, T)}
<1>1. {} \in Good
  BY SumEmpty
<1>2. ASSUME NEW T \in SUBSET S, T # {}, \A x \in T : T \ {x} \in Good
      PROVE  T \in Good
  <2>1. /\ First(T) \in T /\ Total(g, T) = g[First(T)] + Total(g, T \ {First(T)})
        /\ Total(h, T) = h[First(T)] + Total(h, T \ {First(T)})
    BY <1>2, FS_Subset, SumChosen
  <2>. QED  BY <1>2, <2>1
<1>. HIDE DEF Good
<1>3. S \in Good
  BY <1>1, <1>2, BySubsets, Zenon
<1>. QED  BY <1>3 DEF Good

\* The sum of zeroes.
LEMMA SumZero ==
  ASSUME NEW S, IsFiniteSet(S), NEW g, \A x \in S : g[x] = 0
  PROVE  Total(g, S) = 0
<1>. DEFINE Good == {T \in SUBSET S : Total(g, T) = 0}
<1>1. {} \in Good
  BY SumEmpty
<1>2. ASSUME NEW T \in SUBSET S, T # {}, \A x \in T : T \ {x} \in Good
      PROVE  T \in Good
  <2>1. First(T) \in T /\ Total(g, T) = g[First(T)] + Total(g, T \ {First(T)})
    BY <1>2, FS_Subset, SumChosen
  <2>. QED  BY <1>2, <2>1
<1>. HIDE DEF Good
<1>3. S \in Good
  BY <1>1, <1>2, BySubsets, Zenon
<1>. QED  BY <1>3 DEF Good

\* A part adds up to no more than the whole.
LEMMA SumOfPart ==
  ASSUME NEW S, IsFiniteSet(S), NEW g, \A x \in S : g[x] \in Nat, NEW P \in SUBSET S
  PROVE  Total(g, P) \in Nat /\ Total(g, S) \in Nat /\ Total(g, P) <= Total(g, S)
<1>. DEFINE Good == {T \in SUBSET S : Total(g, T \cap P) <= Total(g, T)}
<1>0. \A T \in SUBSET S : IsFiniteSet(T) /\ \A x \in T : g[x] \in Nat
  BY FS_Subset
<1>1. \A T \in SUBSET S : Total(g, T) \in Nat /\ \A x \in T : Total(g, T) = g[x] + Total(g, T \ {x})
  BY <1>0, SumTakeOut
<1>2. {} \in Good
  BY <1>1
<1>3. ASSUME NEW T \in SUBSET S, T # {}, \A x \in T : T \ {x} \in Good
      PROVE  T \in Good
  <2>1. PICK x \in T : TRUE
    BY <1>3
  <2>2. /\ T \ {x} \in SUBSET S /\ T \cap P \in SUBSET S /\ (T \ {x}) \cap P \in SUBSET S /\ g[x] \in Nat
        /\ Total(g, (T \ {x}) \cap P) <= Total(g, T \ {x}) /\ Total(g, T) = g[x] + Total(g, T \ {x})
    BY <1>1, <1>3
  <2>3. CASE x \in P
    <3>1. (T \ {x}) \cap P = (T \cap P) \ {x} /\ x \in T \cap P
      BY <2>3
    <3>2. Total(g, T \cap P) = g[x] + Total(g, (T \ {x}) \cap P)
      BY <1>1, <2>2, <3>1
    <3>. QED  BY <1>1, <2>2, <3>2
  <2>4. CASE x \notin P
    <3>1. (T \ {x}) \cap P = T \cap P
      BY <2>4
    <3>2. Total(g, T \cap P) <= Total(g, T \ {x}) /\ Total(g, T \cap P) \in Nat
          /\ Total(g, T \ {x}) \in Nat
      BY <1>1, <2>2, <3>1
    <3>. QED  BY <2>2, <3>2
  <2>. QED  BY <2>3, <2>4
<1>. HIDE DEF Good
<1>4. S \in Good
  BY <1>2, <1>3, BySubsets, Zenon
<1>5. S \cap P = P
  OBVIOUS
<1>. QED  BY <1>1, <1>4, <1>5 DEF Good

\* Sets that have nothing in common.
LEMMA SumUnion ==
  ASSUME NEW S, IsFiniteSet(S), NEW R, IsFiniteSet(R), S \cap R = {},
         NEW g, \A x \in S \cup R : g[x] \in Nat
  PROVE  Total(g, S \cup R) = Total(g, S) + Total(g, R)
<1>. DEFINE Good == {T \in SUBSET S : Total(g, T \cup R) = Total(g, T) + Total(g, R)}
<1>0. Total(g, R) \in Nat
  BY SumTakeOut
<1>1. {} \in Good
  <2>1. {} \cup R = R
    OBVIOUS
  <2>. QED  BY <1>0, <2>1, SumEmpty
<1>2. ASSUME NEW T \in SUBSET S, T # {}, \A x \in T : T \ {x} \in Good
      PROVE  T \in Good
  <2>1. PICK x \in T : TRUE
    BY <1>2
  <2>2. IsFiniteSet(T) /\ IsFiniteSet(T \cup R) /\ (T \cup R) \ {x} = (T \ {x}) \cup R
    BY FS_Subset, FS_Union
  <2>3. Total(g, T \cup R) = g[x] + Total(g, (T \ {x}) \cup R)
    BY <2>2, SumTakeOut
  <2>4. Total(g, T) = g[x] + Total(g, T \ {x}) /\ Total(g, T \ {x}) \in Nat
    <3>1. IsFiniteSet(T \ {x})
      BY <2>2, FS_Subset
    <3>. QED  BY <2>2, <3>1, SumTakeOut
  <2>5. Total(g, (T \ {x}) \cup R) = Total(g, T \ {x}) + Total(g, R)
    BY <1>2
  <2>6. g[x] \in Nat
    OBVIOUS
  <2>7. Total(g, T \cup R) = Total(g, T) + Total(g, R)
    BY <1>0, <2>3, <2>4, <2>5, <2>6
  <2>. QED  BY <2>7
<1>. HIDE DEF Good
<1>3. S \in Good
  BY <1>1, <1>2, BySubsets, Zenon
<1>. QED  BY <1>3 DEF Good

\* Two sums over one set.
LEMMA SumPlus ==
  ASSUME NEW S, IsFiniteSet(S), NEW g, NEW h, NEW k,
         \A x \in S : g[x] \in Nat /\ h[x] \in Nat /\ k[x] = g[x] + h[x]
  PROVE  Total(k, S) = Total(g, S) + Total(h, S)
<1>. DEFINE Good == {T \in SUBSET S : Total(k, T) = Total(g, T) + Total(h, T)}
<1>1. {} \in Good
  BY SumEmpty
<1>2. ASSUME NEW T \in SUBSET S, T # {}, \A x \in T : T \ {x} \in Good
      PROVE  T \in Good
  <2>1. PICK x \in T : TRUE
    BY <1>2
  <2>2. IsFiniteSet(T) /\ IsFiniteSet(T \ {x}) /\ \A y \in T : g[y] \in Nat /\ h[y] \in Nat /\ k[y] \in Nat
    BY FS_Subset
  <2>3. /\ Total(g, T) = g[x] + Total(g, T \ {x}) /\ Total(h, T) = h[x] + Total(h, T \ {x})
        /\ Total(k, T) = k[x] + Total(k, T \ {x})
        /\ Total(g, T \ {x}) \in Nat /\ Total(h, T \ {x}) \in Nat
    BY <2>2, SumTakeOut
  <2>. QED  BY <1>2, <2>3
<1>. HIDE DEF Good
<1>3. S \in Good
  BY <1>1, <1>2, BySubsets, Zenon
<1>. QED  BY <1>3 DEF Good

\* A sum of numbers that are bounded.
LEMMA SumBounded ==
  ASSUME NEW S, IsFiniteSet(S), NEW g, NEW b \in Nat, \A x \in S : g[x] \in 0..b
  PROVE  Total(g, S) \in Nat /\ Total(g, S) <= Cardinality(S) * b
<1>. DEFINE Good == {T \in SUBSET S : Total(g, T) <= Cardinality(T) * b}
<1>1. {} \in Good
  BY SumEmpty, FS_EmptySet
<1>2. ASSUME NEW T \in SUBSET S, T # {}, \A x \in T : T \ {x} \in Good
      PROVE  T \in Good
  <2>1. PICK x \in T : TRUE
    BY <1>2
  <2>2. /\ IsFiniteSet(T) /\ IsFiniteSet(T \ {x}) /\ \A y \in T : g[y] \in Nat /\ g[y] <= b
        /\ Cardinality(T \ {x}) = Cardinality(T) - 1 /\ Cardinality(T) \in Nat
    BY FS_Subset, FS_RemoveElement, FS_CardinalityType
  <2>3. Total(g, T) = g[x] + Total(g, T \ {x}) /\ Total(g, T \ {x}) \in Nat
    BY <2>2, SumTakeOut
  <2>4. Total(g, T \ {x}) <= (Cardinality(T) - 1) * b
    BY <1>2, <2>2
  <2>. DEFINE n == Cardinality(T)
  <2>5. (n - 1) * b = n * b - b /\ n * b \in Int
    BY <2>2
  <2>. QED  BY <2>2, <2>3, <2>4, <2>5
<1>. HIDE DEF Good
<1>3. S \in Good
  BY <1>1, <1>2, BySubsets, Zenon
<1>4. Total(g, S) \in Nat
  BY SumTakeOut
<1>. QED  BY <1>3, <1>4 DEF Good

\* Sums over two sets of which one numbers the other.
LEMMA SumRenamed ==
  ASSUME NEW S, IsFiniteSet(S), NEW m, \A x, y \in S : m[x] = m[y] => x = y,
         NEW R, R = {m[x] : x \in S}, NEW g, NEW h, \A x \in S : g[x] \in Nat /\ h[m[x]] = g[x]
  PROVE  Total(h, R) = Total(g, S) /\ IsFiniteSet(R)
<1>. DEFINE Of(T) == {m[x] : x \in T}
            Good == {T \in SUBSET S : Total(h, Of(T)) = Total(g, T) /\ IsFiniteSet(Of(T))}
<1>1. {} \in Good
  <2>1. Of({}) = {}
    OBVIOUS
  <2>. HIDE DEF Of
  <2>. QED  BY <2>1, SumEmpty, FS_EmptySet
<1>2. ASSUME NEW T \in SUBSET S, T # {}, \A x \in T : T \ {x} \in Good
      PROVE  T \in Good
  <2>1. PICK x \in T : TRUE
    BY <1>2
  <2>2. /\ Of(T) = Of(T \ {x}) \cup {m[x]} /\ m[x] \notin Of(T \ {x})
        /\ \A z \in Of(T) : h[z] \in Nat
    BY <2>1
  <2>3. Total(h, Of(T \ {x})) = Total(g, T \ {x}) /\ IsFiniteSet(Of(T \ {x}))
    BY <1>2
  <2>. DEFINE P == Of(T \ {x})
              c == m[x]
  <2>. HIDE DEF Of
  <2>4. Total(h, Of(T)) = h[m[x]] + Total(h, Of(T \ {x})) /\ IsFiniteSet(Of(T))
    <3>1. IsFiniteSet(P) /\ c \notin P /\ Of(T) = P \cup {c} /\ \A z \in P \cup {c} : h[z] \in Nat
      BY <2>2, <2>3
    <3>. HIDE DEF P, c
    <3>2. Total(h, P \cup {c}) = h[c] + Total(h, P) /\ IsFiniteSet(P \cup {c})
      BY <3>1, SumPutIn, FS_AddElement
    <3>. QED  BY <3>1, <3>2 DEF P, c
  <2>5. Total(g, T) = g[x] + Total(g, T \ {x})
    BY FS_Subset, SumTakeOut
  <2>. QED  BY <2>3, <2>4, <2>5
<1>. HIDE DEF Good
<1>3. S \in Good
  BY <1>1, <1>2, BySubsets, Zenon
<1>. QED  BY <1>3 DEF Good

\* Adding up group by group.
LEMMA SumByKey ==
  ASSUME NEW S, IsFiniteSet(S), NEW g, \A x \in S : g[x] \in Nat,
         NEW K, IsFiniteSet(K), NEW key, \A x \in S : key[x] \in K,
         NEW of, \A k \in K : of[k] = Total(g, {x \in S : key[x] = k})
  PROVE  Total(of, K) = Total(g, S)
<1>. DEFINE Group(T, k) == {x \in T : key[x] = k}
            By(T) == [k \in K |-> Total(g, Group(T, k))]
            Good == {T \in SUBSET S : Total(By(T), K) = Total(g, T)}
<1>0. \A T \in SUBSET S : IsFiniteSet(T) /\ \A x \in T : g[x] \in Nat
  BY FS_Subset
<1>1. ASSUME NEW T \in SUBSET S, NEW k  PROVE Total(g, Group(T, k)) \in Nat
  <2>1. Group(T, k) \in SUBSET S
    OBVIOUS
  <2>. HIDE DEF Group
  <2>. QED  BY <1>0, <2>1, SumTakeOut
<1>2. {} \in Good
  <2>1. \A k \in K : By({})[k] = 0
    <3>1. \A k : Group({}, k) = {}
      OBVIOUS
    <3>. HIDE DEF Group
    <3>. QED  BY <3>1, SumEmpty
  <2>. HIDE DEF By
  <2>. QED  BY <2>1, SumZero, SumEmpty
<1>3. ASSUME NEW T \in SUBSET S, T # {}, \A x \in T : T \ {x} \in Good
      PROVE  T \in Good
  <2>1. PICK x \in T : TRUE
    BY <1>3
  <2>. DEFINE U == T \ {x}
              c == key[x]
              a == By(T)
              b == By(U)
  <2>2. c \in K /\ U \in SUBSET S /\ Group(T, c) \in SUBSET S /\ x \in Group(T, c)
        /\ Group(U, c) = Group(T, c) \ {x} /\ \A k \in K \ {c} : Group(U, k) = Group(T, k)
    BY <2>1
  <2>3. \A k \in K : a[k] = Total(g, Group(T, k)) /\ b[k] = Total(g, Group(U, k))
                     /\ a[k] \in Nat /\ b[k] \in Nat
    <3>1. \A k \in K : a[k] = Total(g, Group(T, k)) /\ b[k] = Total(g, Group(U, k))
      OBVIOUS
    <3>2. \A k \in K : Total(g, Group(T, k)) \in Nat /\ Total(g, Group(U, k)) \in Nat
      <4>1. U \in SUBSET S
        BY <2>2
      <4>. HIDE DEF U, Group
      <4>. QED  BY <1>1, <4>1
    <3>. HIDE DEF a, b, U, Group
    <3>. QED  BY <3>1, <3>2
  <2>4. Total(b, K) = Total(g, U)
    BY <1>3
  <2>5. Total(g, T) = g[x] + Total(g, U) /\ Total(g, U) \in Nat /\ g[x] \in Nat
    <3>1. IsFiniteSet(T) /\ IsFiniteSet(U) /\ \A y \in T : g[y] \in Nat
      BY <1>0, <2>2
    <3>. QED  BY <3>1, SumTakeOut
  <2>. HIDE DEF a, b, U, Group
  <2>6. a[c] = g[x] + b[c] /\ \A k \in K \ {c} : a[k] = b[k]
    <3>1. Total(g, Group(T, c)) = g[x] + Total(g, Group(T, c) \ {x})
      BY <1>0, <2>2, SumTakeOut
    <3>. QED  BY <2>2, <2>3, <3>1
  <2>7. Total(a, K) = a[c] + Total(a, K \ {c}) /\ Total(b, K) = b[c] + Total(b, K \ {c})
        /\ Total(b, K \ {c}) \in Nat
    <3>1. IsFiniteSet(K \ {c}) /\ c \in K
      BY <2>2, FS_Subset
    <3>2. (\A k \in K : a[k] \in Nat) /\ (\A k \in K : b[k] \in Nat) /\ (\A k \in K \ {c} : b[k] \in Nat)
      BY <2>3
    <3>3. Total(a, K) = a[c] + Total(a, K \ {c})
      BY <3>1, <3>2, SumTakeOut
    <3>4. Total(b, K) = b[c] + Total(b, K \ {c})
      BY <3>1, <3>2, SumTakeOut
    <3>5. Total(b, K \ {c}) \in Nat
      BY <3>1, <3>2, SumTakeOut
    <3>. QED  BY <3>3, <3>4, <3>5
  <2>8. Total(a, K \ {c}) = Total(b, K \ {c})
    BY <2>6, FS_Subset, SumSame
  <2>9. Total(a, K) = Total(g, T)
    BY <2>2, <2>3, <2>4, <2>5, <2>6, <2>7, <2>8
  <2>. QED  BY <2>9 DEF a
<1>. HIDE DEF Good
<1>4. S \in Good
  BY <1>2, <1>3, BySubsets, Zenon
<1>5. \A k \in K : of[k] = By(S)[k]
  OBVIOUS
<1>. HIDE DEF By
<1>6. Total(of, K) = Total(By(S), K)
  BY <1>5, SumSame
<1>. QED  BY <1>4, <1>6 DEF Good

\* The groups may be given as sets.
LEMMA SumByGroups ==
  ASSUME NEW S, IsFiniteSet(S), NEW g, \A x \in S : g[x] \in Nat,
         NEW K, IsFiniteSet(K), NEW key, \A x \in S : key[x] \in K,
         NEW part, \A k \in K : part[k] \in SUBSET S /\ \A x \in S : x \in part[k] <=> key[x] = k,
         NEW of, \A k \in K : of[k] = Total(g, part[k])
  PROVE  Total(of, K) = Total(g, S)
<1>1. \A k \in K : part[k] = {x \in S : key[x] = k}
  OBVIOUS
<1>2. \A k \in K : of[k] = Total(g, {x \in S : key[x] = k})
  BY <1>1
<1>. QED  BY <1>2, SumByKey

-----------------------------------------------------------------------------
\* A finite set of numbers has a greatest and a least.
LEMMA MaxIs ==
  ASSUME NEW S, IsFiniteSet(S), S \in SUBSET Int, S # {}
  PROVE  Max(S) \in S /\ \A y \in S : y <= Max(S)
<1>. DEFINE Good == {T \in SUBSET S : T # {} => \E x \in T : \A y \in T : x >= y}
<1>1. {} \in Good
  OBVIOUS
<1>2. ASSUME NEW T \in SUBSET S, T # {}, \A x \in T : T \ {x} \in Good
      PROVE  T \in Good
  <2>1. PICK x \in T : TRUE
    BY <1>2
  <2>2. x \in Int /\ \A y \in T : y \in Int
    OBVIOUS
  <2>3. CASE T \ {x} = {}
    <3>1. \A y \in T : x >= y
      BY <2>2, <2>3
    <3>. QED  BY <2>1, <3>1
  <2>4. CASE T \ {x} # {}
    <3>1. PICK z \in T \ {x} : \A y \in T \ {x} : z >= y
      BY <1>2, <2>1, <2>4
    <3>2. CASE x >= z
      <4>1. \A y \in T : x >= y
        BY <2>2, <3>1, <3>2
      <4>. QED  BY <2>1, <4>1
    <3>3. CASE ~(x >= z)
      <4>1. \A y \in T : z >= y
        BY <2>2, <3>1, <3>3
      <4>. QED  BY <3>1, <4>1
    <3>. QED  BY <3>2, <3>3
  <2>. QED  BY <2>3, <2>4
<1>. HIDE DEF Good
<1>3. S \in Good
  BY <1>1, <1>2, BySubsets, Zenon
<1>4. \E x \in S : \A y \in S : x >= y
  BY <1>3 DEF Good
<1>5. Max(S) \in S /\ \A y \in S : Max(S) >= y
  BY <1>4 DEF Max
<1>. QED  BY <1>5

LEMMA MinIs ==
  ASSUME NEW S, IsFiniteSet(S), S \in SUBSET Int, S # {}
  PROVE  Min(S) \in S /\ \A y \in S : Min(S) <= y
<1>. DEFINE Good == {T \in SUBSET S : T # {} => \E x \in T : \A y \in T : x =< y}
<1>1. {} \in Good
  OBVIOUS
<1>2. ASSUME NEW T \in SUBSET S, T # {}, \A x \in T : T \ {x} \in Good
      PROVE  T \in Good
  <2>1. PICK x \in T : TRUE
    BY <1>2
  <2>2. x \in Int /\ \A y \in T : y \in Int
    OBVIOUS
  <2>3. CASE T \ {x} = {}
    <3>1. \A y \in T : x =< y
      BY <2>2, <2>3
    <3>. QED  BY <2>1, <3>1
  <2>4. CASE T \ {x} # {}
    <3>1. PICK z \in T \ {x} : \A y \in T \ {x} : z =< y
      BY <1>2, <2>1, <2>4
    <3>2. CASE x =< z
      <4>1. \A y \in T : x =< y
        BY <2>2, <3>1, <3>2
      <4>. QED  BY <2>1, <4>1
    <3>3. CASE ~(x =< z)
      <4>1. \A y \in T : z =< y
        BY <2>2, <3>1, <3>3
      <4>. QED  BY <3>1, <4>1
    <3>. QED  BY <3>2, <3>3
  <2>. QED  BY <2>3, <2>4
<1>. HIDE DEF Good
<1>3. S \in Good
  BY <1>1, <1>2, BySubsets, Zenon
<1>4. \E x \in S : \A y \in S : x =< y
  BY <1>3 DEF Good
<1>5. Min(S) \in S /\ \A y \in S : Min(S) =< y
  BY <1>4 DEF Min
<1>. QED  BY <1>5

-----------------------------------------------------------------------------
(* FoldLeft takes the greatest index of those that are left, so that what  *)
(* it makes of the first i elements is a step on from what it makes of the *)
(* first i - 1. The steps are given as a function.                         *)

Folded(f, base, step, N, A) ==
  /\ f \in [SUBSET (1..N) -> A] /\ f[{}] = base
  /\ \A T \in SUBSET (1..N) : T # {} =>
       /\ f[T] = step[<<f[T \ {Max(T)}], Max(T)>>]
       /\ Max(T) \in 1..N /\ f[T \ {Max(T)}] \in A

LEMMA FoldRounds ==
  ASSUME NEW N \in Nat, NEW A, NEW base \in A, NEW step \in [A \X (1..N) -> A]
  PROVE  \E f : Folded(f, base, step, N, A)
<1>. DEFINE S == 1..N
            Round(f, T) == IF T = {} THEN base ELSE step[<<f[T \ {Max(T)}], Max(T)>>]
            Low(k) == SUBSET (1..k)
            Runs(k) == \E f : f = [T \in Low(k) |-> Round(f, T)] /\ \A T \in Low(k) : f[T] \in A
<1>1. ASSUME NEW k \in Nat, NEW T \in Low(k), T # {}
      PROVE  Max(T) \in 1..k /\ T \ {Max(T)} \in Low(Max(T) - 1)
  <2>1. IsFiniteSet(1..k) /\ T \in SUBSET Int
    <3>1. IsFiniteSet(1..k)
      BY FS_Interval
    <3>. QED  BY <3>1
  <2>2. IsFiniteSet(T)
    BY <2>1, FS_Subset
  <2>3. Max(T) \in T /\ \A y \in T : y <= Max(T)
    BY <1>1, <2>1, <2>2, MaxIs
  <2>4. PICK m : m = Max(T)
    OBVIOUS
  <2>5. m \in 1..k /\ \A y \in T : y \in 1..k /\ (y # m => y \in 1..(m - 1))
    <3>1. m \in T /\ \A y \in T : y \in 1..k /\ y <= m
      BY <2>3, <2>4
    <3>. HIDE DEF Low
    <3>. QED  BY <3>1
  <2>6. T \ {m} \in SUBSET (1..(m - 1))
    BY <2>5
  <2>. QED  BY <2>4, <2>5, <2>6
<1>2. Runs(0)
  <2>. DEFINE h == [T \in Low(0) |-> base]
  <2>1. \A T \in Low(0) : T = {}
    OBVIOUS
  <2>2. h = [T \in Low(0) |-> Round(h, T)]
    BY <2>1
  <2>3. \A T \in Low(0) : h[T] \in A
    OBVIOUS
  <2>. HIDE DEF h, Low, Round
  <2>. QED  BY <2>2, <2>3
<1>3. ASSUME NEW k \in Nat, k + 1 <= N, Runs(k)  PROVE Runs(k + 1)
  <2>1. PICK f : f = [T \in Low(k) |-> Round(f, T)] /\ \A T \in Low(k) : f[T] \in A
    BY <1>3
  <2>. DEFINE h == [T \in Low(k + 1) |-> Round(f, T)]
  <2>2. ASSUME NEW T \in Low(k + 1)  PROVE h[T] = Round(h, T) /\ h[T] \in A
    <3>1. CASE T = {}
      BY <3>1
    <3>2. CASE T # {}
      <4>1. Max(T) \in 1..(k + 1) /\ T \ {Max(T)} \in Low(Max(T) - 1)
        BY <1>1, <3>2, k + 1 \in Nat
      <4>. DEFINE U == T \ {Max(T)}
      <4>2. U \in Low(k) /\ U \in Low(k + 1)
        BY <4>1
      <4>3. f[U] = Round(f, U) /\ h[U] = Round(f, U) /\ f[U] \in A /\ Max(T) \in 1..N
        <5>1. Max(T) \in 1..N
          BY <1>3, <4>1
        <5>. HIDE DEF U, Round
        <5>. QED  BY <2>1, <4>2, <5>1
      <4>4. h[T] = step[<<f[U], Max(T)>>]
        BY <3>2
      <4>. HIDE DEF U, h
      <4>5. h[T] = step[<<h[U], Max(T)>>] /\ h[T] \in A
        BY <4>3, <4>4
      <4>. QED  BY <3>2, <4>5 DEF U
    <3>. QED  BY <3>1, <3>2
  <2>3. h = [T \in Low(k + 1) |-> h[T]]
    OBVIOUS
  <2>. HIDE DEF h
  <2>4. h = [T \in Low(k + 1) |-> Round(h, T)]
    BY <2>2, <2>3
  <2>. QED  BY <2>2, <2>4
<1>4. Runs(N)
  <2>. DEFINE Good == {k \in Nat : k <= N => Runs(k)}
  <2>. HIDE DEF Runs
  <2>1. 0 \in Good /\ \A k \in Nat : k \in Good => k + 1 \in Good
    BY <1>2, <1>3
  <2>. HIDE DEF Good
  <2>2. \A k \in Nat : k \in Good
    BY <2>1, ByNumbers
  <2>. QED  BY <2>2 DEF Good
<1>5. PICK f : f = [T \in Low(N) |-> Round(f, T)] /\ \A T \in Low(N) : f[T] \in A
  BY <1>4
<1>6. ASSUME NEW T \in Low(N), T # {}  PROVE Max(T) \in 1..N /\ f[T \ {Max(T)}] \in A
  <2>1. Max(T) \in 1..N /\ T \ {Max(T)} \in Low(N)
    BY <1>1, <1>6
  <2>. QED  BY <1>5, <2>1
<1>7. f \in [Low(N) -> A]
  <2>. HIDE DEF Low, Round
  <2>. QED  BY <1>5
<1>8. {} \in Low(N)
  OBVIOUS
<1>. HIDE DEF Low
<1>9. f[{}] = base /\ \A T \in Low(N) : T # {} => f[T] = step[<<f[T \ {Max(T)}], Max(T)>>]
  BY <1>5, <1>8
<1>10. Folded(f, base, step, N, A)
  BY <1>6, <1>7, <1>9 DEF Low, Folded
<1>. QED  BY <1>10

\* What it takes first of the first i indices is i.
LEMMA LastIsMax ==
  ASSUME NEW N \in Nat, NEW i \in 1..N
  PROVE  /\ (1..i) \in SUBSET (1..N) /\ 1..i # {}
         /\ Max(1..i) = i /\ (1..i) \ {Max(1..i)} = 1..(i - 1)
<1>1. IsFiniteSet(1..i)
  BY FS_Interval
<1>2. i \in 1..i /\ \A y \in 1..i : y \in Int /\ y \in 1..N
  OBVIOUS
<1>3. (1..i) \in SUBSET Int /\ 1..i # {} /\ (1..i) \in SUBSET (1..N)
  BY <1>2, Zenon
<1>4. PICK m : m = Max(1..i)
  OBVIOUS
<1>5. m \in 1..i /\ \A y \in 1..i : y <= m
  BY <1>1, <1>3, <1>4, MaxIs
<1>6. m = i
  BY <1>5
<1>7. (1..i) \ {i} = 1..(i - 1)
  OBVIOUS
<1>. QED  BY <1>3, <1>4, <1>6, <1>7
=============================================================================
