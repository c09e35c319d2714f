------------------------------ MODULE SetInduction ------------------------------
(***************************************************************************)
(* Induction over the natural numbers and over finite sets, stated about a *)
(* set instead of a predicate: what the proofs about recursive functions   *)
(* rest on.  The sum of the values of a function is one of these.          *)
(***************************************************************************)
EXTENDS Integers, Functions, FiniteSetTheorems, WellFoundedInduction, TLAPS

\* A set of natural numbers that is not empty has a least one.
LEMMA LeastNumber ==
  ASSUME NEW T, T \subseteq Nat, T # {}
  PROVE  \E n \in T : \A m \in T : n <= m
<1>1. \E n \in T : \A m \in T : <<m, n>> \notin OpToRel(<, Nat)
  BY NatLessThanWellFounded, WFMin
<1>2. ASSUME NEW n \in T, NEW m \in T, <<m, n>> \notin OpToRel(<, Nat)
      PROVE  n <= m
  BY <1>2 DEF OpToRel
<1> QED  BY <1>1, <1>2

\* A set that holds 0, and n + 1 whenever it holds n, holds every natural number.
LEMMA NaturalInduction ==
  ASSUME NEW T, 0 \in T, \A n \in Nat : n \in T => n + 1 \in T
  PROVE  Nat \subseteq T
<1> SUFFICES ASSUME Nat \ T # {} PROVE FALSE
  OBVIOUS
<1>1. PICK n \in Nat \ T : \A m \in Nat \ T : n <= m
  BY LeastNumber
<1>2. n - 1 \in Nat /\ n - 1 \in T
  BY <1>1
<1> QED  BY <1>1, <1>2

\* Induction over the finite subsets of a set, stated about a set of them.
LEMMA SubsetInduction ==
  ASSUME NEW D, NEW G, {} \in G,
         \A S \in SUBSET D : (IsFiniteSet(S) /\ S # {} /\ \A x \in S : S \ {x} \in G) => S \in G
  PROVE  \A S \in SUBSET D : IsFiniteSet(S) => S \in G
<1> DEFINE T == {n \in Nat : \A S \in SUBSET D : IsFiniteSet(S) /\ Cardinality(S) = n => S \in G}
<1>1. 0 \in T
  BY FS_EmptySet
<1>2. ASSUME NEW n \in Nat, n \in T PROVE n + 1 \in T
  <2> SUFFICES ASSUME NEW S \in SUBSET D, IsFiniteSet(S), Cardinality(S) = n + 1 PROVE S \in G
    OBVIOUS
  <2>1. S # {}
    BY FS_EmptySet
  <2>2. ASSUME NEW x \in S PROVE S \ {x} \in G
    <3>1. IsFiniteSet(S \ {x}) /\ Cardinality(S \ {x}) = Cardinality(S) - 1
      BY FS_RemoveElement
    <3>2. Cardinality(S \ {x}) = n
      BY <3>1
    <3> QED  BY <1>2, <3>1, <3>2
  <2> QED  BY <2>1, <2>2
<1> HIDE DEF T
<1>3. Nat \subseteq T
  BY <1>1, <1>2, NaturalInduction
<1>4. \A S \in SUBSET D : IsFiniteSet(S) => Cardinality(S) \in Nat
  BY FS_CardinalityType
<1> QED  BY <1>3, <1>4 DEF T

--------------------------------------------------------------------------------
(***************************************************************************)
(* Sums.  The library adds up the values of a function in an order of its  *)
(* own choice, by recursion over the subsets of a set.                     *)
(***************************************************************************)

Chosen(S) == CHOOSE x \in S : TRUE

\* f is the sum of the values of a, as a function of the subsets in F.
Sums(f, a, F) ==
  f = [s \in F |-> IF s = {} THEN 0 ELSE a[Chosen(s)] + f[s \ {Chosen(s)}]]

\* There is such a function for the subsets of a finite set.
LEMMA SumsExist ==
  ASSUME NEW a, NEW S, IsFiniteSet(S)
  PROVE  \E f : Sums(f, a, SUBSET S)
<1> DEFINE Small(n) == {s \in SUBSET S : Cardinality(s) <= n}
           T == {n \in Nat : \E f : Sums(f, a, Small(n))}
<1>0. \A s \in SUBSET S : IsFiniteSet(s) /\ Cardinality(s) \in Nat
  BY FS_Subset, FS_CardinalityType
<1>1. 0 \in T
  <2>1. \A s \in Small(0) : s = {}
    BY <1>0, FS_EmptySet
  <2> DEFINE f == [s \in Small(0) |-> 0]
  <2>2. Sums(f, a, Small(0))
    BY <2>1 DEF Sums
  <2> HIDE DEF f
  <2> QED  BY <2>2
<1>2. ASSUME NEW n \in Nat, n \in T PROVE n + 1 \in T
  <2>1. PICK f : Sums(f, a, Small(n))
    BY <1>2
  <2> DEFINE next(s) == IF s = {} THEN 0 ELSE a[Chosen(s)] + f[s \ {Chosen(s)}]
             g == [s \in Small(n + 1) |-> next(s)]
  <2>2. ASSUME NEW s \in Small(n + 1), s # {} PROVE s \ {Chosen(s)} \in Small(n)
    <3>1. Chosen(s) \in s
      BY <2>2 DEF Chosen
    <3>2. Cardinality(s \ {Chosen(s)}) = Cardinality(s) - 1
      BY <1>0, <3>1, FS_RemoveElement
    <3> QED  BY <1>0, <3>2
  <2>3. ASSUME NEW s \in Small(n) PROVE s \in Small(n + 1) /\ f[s] = next(s)
    <3>1. s \in Small(n + 1)
      BY <1>0
    <3>2. f[s] = next(s)
      <4> HIDE DEF Small
      <4> QED  BY <2>1 DEF Sums
    <3> QED  BY <3>1, <3>2
  <2>4. \A s \in Small(n) : g[s] = f[s]
    <3> HIDE DEF Small, next
    <3> QED  BY <2>3
  <2>5. Sums(g, a, Small(n + 1))
    <3> SUFFICES ASSUME NEW s \in Small(n + 1)
                 PROVE  next(s) = IF s = {} THEN 0 ELSE a[Chosen(s)] + g[s \ {Chosen(s)}]
      BY Zenon DEF Sums
    <3> HIDE DEF Small, g
    <3> QED  BY <2>2, <2>4
  <2> HIDE DEF g, next, Small
  <2>6. \E h : Sums(h, a, Small(n + 1))
    BY <2>5
  <2>7. n + 1 \in Nat
    OBVIOUS
  <2> QED  BY <2>6, <2>7, Zenon
<1> HIDE DEF T
<1>3. Cardinality(S) \in T
  BY <1>0, <1>1, <1>2, NaturalInduction
<1>4. Small(Cardinality(S)) = SUBSET S
  <2>1. \A s \in SUBSET S : Cardinality(s) <= Cardinality(S)
    BY FS_Subset
  <2> QED  BY <2>1
<1> HIDE DEF Small
<1> QED  BY <1>3, <1>4 DEF T

\* Two of them agree where both are defined.
LEMMA SumsAgree ==
  ASSUME NEW a, NEW S, NEW R, NEW f, NEW g, IsFiniteSet(S), R \in SUBSET S,
         Sums(f, a, SUBSET S), Sums(g, a, SUBSET R)
  PROVE  f[R] = g[R]
<1> DEFINE G == {s \in SUBSET R : f[s] = g[s]}
<1>1. {} \in G
  <2>1. {} \in SUBSET S /\ {} \in SUBSET R
    OBVIOUS
  <2>2. f[{}] = 0 /\ g[{}] = 0
    BY <2>1 DEF Sums
  <2> QED  BY <2>1, <2>2
<1>2. ASSUME NEW s \in SUBSET R, s # {}, \A x \in s : s \ {x} \in G PROVE s \in G
  <2>1. Chosen(s) \in s
    BY <1>2 DEF Chosen
  <2>2. f[s \ {Chosen(s)}] = g[s \ {Chosen(s)}]
    BY <1>2, <2>1
  <2>3. /\ f[s] = a[Chosen(s)] + f[s \ {Chosen(s)}]
        /\ g[s] = a[Chosen(s)] + g[s \ {Chosen(s)}]
    BY <1>2 DEF Sums
  <2> QED  BY <2>2, <2>3
<1>3. IsFiniteSet(R)
  BY FS_Subset
<1> HIDE DEF G
<1>4. R \in G
  BY <1>1, <1>2, <1>3, SubsetInduction
<1> QED  BY <1>4 DEF G

\* The sum over a set: nothing, or the chosen element and the rest.
LEMMA SumUnfold ==
  ASSUME NEW a, NEW S, IsFiniteSet(S)
  PROVE  /\ SumFunctionOnSet(a, {}) = 0
         /\ S # {} => SumFunctionOnSet(a, S) =
                        a[Chosen(S)] + SumFunctionOnSet(a, S \ {Chosen(S)})
<1>1. \A R : SumFunctionOnSet(a, R) = (CHOOSE f : Sums(f, a, SUBSET R))[R]
  BY DEF SumFunctionOnSet, FoldFunctionOnSet, MapThenFoldSet, Sums, Chosen
<1> DEFINE sums(R) == CHOOSE f : Sums(f, a, SUBSET R)
<1>2. ASSUME NEW R, IsFiniteSet(R) PROVE Sums(sums(R), a, SUBSET R)
  BY <1>2, SumsExist
<1> HIDE DEF sums
<1>3. SumFunctionOnSet(a, {}) = 0
  <2>1. Sums(sums({}), a, SUBSET {})
    BY <1>2, FS_EmptySet
  <2>2. sums({})[{}] = 0
    BY <2>1 DEF Sums
  <2> QED  BY <1>1, <2>2 DEF sums
<1>4. ASSUME S # {} PROVE SumFunctionOnSet(a, S) = a[Chosen(S)] + SumFunctionOnSet(a, S \ {Chosen(S)})
  <2> DEFINE R == S \ {Chosen(S)}
             f == sums(S)
             g == sums(R)
  <2>1. IsFiniteSet(R) /\ R \in SUBSET S
    BY FS_Subset
  <2>2. Sums(f, a, SUBSET S) /\ Sums(g, a, SUBSET R)
    BY <1>2, <2>1
  <2> HIDE DEF f, g
  <2>3. f[S] = a[Chosen(S)] + f[R]
    BY <1>4, <2>2 DEF Sums
  <2> HIDE DEF R
  <2>4. f[R] = g[R]
    BY <2>1, <2>2, SumsAgree
  <2> QED  BY <1>1, <2>3, <2>4, Zenon DEF f, g, R, sums
<1> QED  BY <1>3, <1>4

\* The sum over no element.
LEMMA SumOfNone == \A a : SumFunctionOnSet(a, {}) = 0
BY SumUnfold, FS_EmptySet

\* The sum of integers is one.
LEMMA SumType ==
  ASSUME NEW D, NEW a \in [D -> Int], NEW S \in SUBSET D, IsFiniteSet(S)
  PROVE  SumFunctionOnSet(a, S) \in Int
<1> DEFINE G == {s \in SUBSET D : SumFunctionOnSet(a, s) \in Int}
<1>1. {} \in G
  BY SumOfNone
<1>2. ASSUME NEW s \in SUBSET D, IsFiniteSet(s), s # {}, \A x \in s : s \ {x} \in G PROVE s \in G
  <2>1. Chosen(s) \in s
    BY <1>2 DEF Chosen
  <2>2. SumFunctionOnSet(a, s) = a[Chosen(s)] + SumFunctionOnSet(a, s \ {Chosen(s)})
    BY <1>2, SumUnfold
  <2>3. a[Chosen(s)] \in Int /\ SumFunctionOnSet(a, s \ {Chosen(s)}) \in Int
    BY <1>2, <2>1
  <2>4. SumFunctionOnSet(a, s) \in Int
    BY <2>2, <2>3
  <2> QED  BY <2>4
<1> HIDE DEF G
<1>3. S \in G
  BY <1>1, <1>2, SubsetInduction
<1> QED  BY <1>3 DEF G

\* Any element may be taken out of a sum.
LEMMA SumTake ==
  ASSUME NEW D, NEW a \in [D -> Int], NEW S \in SUBSET D, IsFiniteSet(S), NEW x \in S
  PROVE  SumFunctionOnSet(a, S) = a[x] + SumFunctionOnSet(a, S \ {x})
<1> DEFINE G == {s \in SUBSET D : \A y \in s : SumFunctionOnSet(a, s) = a[y] + SumFunctionOnSet(a, s \ {y})}
<1>1. {} \in G
  OBVIOUS
<1>2. ASSUME NEW s \in SUBSET D, IsFiniteSet(s), s # {}, \A z \in s : s \ {z} \in G PROVE s \in G
  <2> DEFINE c == Chosen(s)
  <2>1. c \in s
    BY <1>2 DEF Chosen
  <2>2. SumFunctionOnSet(a, s) = a[c] + SumFunctionOnSet(a, s \ {c})
    BY <1>2, SumUnfold
  <2> SUFFICES ASSUME NEW y \in s, y # c
               PROVE  SumFunctionOnSet(a, s) = a[y] + SumFunctionOnSet(a, s \ {y})
    BY <2>2
  <2> HIDE DEF c
  <2>3. /\ SumFunctionOnSet(a, s \ {c}) = a[y] + SumFunctionOnSet(a, (s \ {c}) \ {y})
        /\ SumFunctionOnSet(a, s \ {y}) = a[c] + SumFunctionOnSet(a, (s \ {y}) \ {c})
    BY <1>2, <2>1
  <2>4. (s \ {c}) \ {y} = (s \ {y}) \ {c}
    OBVIOUS
  <2>5. (s \ {c}) \ {y} \in SUBSET D /\ IsFiniteSet((s \ {c}) \ {y})
    BY <1>2, FS_Subset
  <2>6. SumFunctionOnSet(a, (s \ {c}) \ {y}) \in Int
    BY <2>5, SumType
  <2>7. a[c] \in Int /\ a[y] \in Int
    BY <2>1
  <2> DEFINE r == SumFunctionOnSet(a, (s \ {c}) \ {y})
  <2>8. /\ SumFunctionOnSet(a, s \ {c}) = a[y] + r
        /\ SumFunctionOnSet(a, s \ {y}) = a[c] + r
        /\ r \in Int
    BY <2>3, <2>4, <2>6
  <2> HIDE DEF r
  <2> QED  BY <2>2, <2>7, <2>8
<1> HIDE DEF G
<1>3. S \in G
  BY <1>1, <1>2, SubsetInduction
<1> QED  BY <1>3 DEF G

\* Functions that agree on a set have the same sum over it.
LEMMA SumSame ==
  ASSUME NEW a, NEW b, NEW S, IsFiniteSet(S), \A x \in S : a[x] = b[x]
  PROVE  SumFunctionOnSet(a, S) = SumFunctionOnSet(b, S)
<1> DEFINE G == {s \in SUBSET S : SumFunctionOnSet(a, s) = SumFunctionOnSet(b, s)}
<1>1. {} \in G
  BY SumOfNone
<1>2. ASSUME NEW s \in SUBSET S, IsFiniteSet(s), s # {}, \A x \in s : s \ {x} \in G PROVE s \in G
  <2>1. Chosen(s) \in s
    BY <1>2 DEF Chosen
  <2>2. /\ SumFunctionOnSet(a, s) = a[Chosen(s)] + SumFunctionOnSet(a, s \ {Chosen(s)})
        /\ SumFunctionOnSet(b, s) = b[Chosen(s)] + SumFunctionOnSet(b, s \ {Chosen(s)})
    BY <1>2, SumUnfold
  <2>3. SumFunctionOnSet(a, s \ {Chosen(s)}) = SumFunctionOnSet(b, s \ {Chosen(s)})
    BY <1>2, <2>1
  <2>4. a[Chosen(s)] = b[Chosen(s)]
    BY <2>1
  <2>5. SumFunctionOnSet(a, s) = SumFunctionOnSet(b, s)
    BY <2>2, <2>3, <2>4
  <2> QED  BY <2>5
<1> HIDE DEF G
<1>3. S \in G
  BY <1>1, <1>2, SubsetInduction
<1> QED  BY <1>3 DEF G

\* Changing one value changes the sum by as much.
LEMMA SumExcept ==
  ASSUME NEW D, IsFiniteSet(D), NEW a \in [D -> Int], NEW x \in D, NEW v \in Int
  PROVE  SumFunction([a EXCEPT ![x] = v]) = SumFunction(a) - a[x] + v
<1> DEFINE b == [a EXCEPT ![x] = v]
           R == D \ {x}
<1>1. /\ b \in [D -> Int] /\ b[x] = v /\ \A y \in R : a[y] = b[y]
      /\ DOMAIN a = D /\ DOMAIN b = D
  OBVIOUS
<1>2. IsFiniteSet(R) /\ R \in SUBSET D
  BY FS_Subset
<1> HIDE DEF b
<1>3. /\ SumFunctionOnSet(a, D) = a[x] + SumFunctionOnSet(a, R)
      /\ SumFunctionOnSet(b, D) = b[x] + SumFunctionOnSet(b, R)
  BY <1>1, SumTake
<1> HIDE DEF R
<1>4. SumFunctionOnSet(a, R) = SumFunctionOnSet(b, R) /\ SumFunctionOnSet(a, R) \in Int
  BY <1>1, <1>2, SumSame, SumType
<1>5. SumFunctionOnSet(b, D) = SumFunctionOnSet(a, D) - a[x] + v
  BY <1>1, <1>3, <1>4
<1> QED  BY <1>1, <1>5 DEF b, SumFunction

\* Values that are all the same.
LEMMA SumConstant ==
  ASSUME NEW S, IsFiniteSet(S), NEW v \in Int
  PROVE  SumFunction([x \in S |-> v]) = Cardinality(S) * v
<1> DEFINE a == [x \in S |-> v]
           G == {s \in SUBSET S : SumFunctionOnSet(a, s) = Cardinality(s) * v}
<1>1. {} \in G
  <2>1. Cardinality({}) = 0 /\ 0 * v = 0
    BY FS_EmptySet
  <2>2. SumFunctionOnSet(a, {}) = 0
    BY SumOfNone
  <2> HIDE DEF a
  <2> QED  BY <2>1, <2>2
<1>2. ASSUME NEW s \in SUBSET S, IsFiniteSet(s), s # {}, \A x \in s : s \ {x} \in G PROVE s \in G
  <2>1. Chosen(s) \in s
    BY <1>2 DEF Chosen
  <2>2. SumFunctionOnSet(a, s) = a[Chosen(s)] + SumFunctionOnSet(a, s \ {Chosen(s)})
    BY <1>2, SumUnfold
  <2> DEFINE r == s \ {Chosen(s)}
  <2>3. a[Chosen(s)] = v /\ SumFunctionOnSet(a, r) = Cardinality(r) * v
    BY <1>2, <2>1
  <2>4. Cardinality(r) = Cardinality(s) - 1 /\ Cardinality(s) \in Nat
    BY <1>2, <2>1, FS_RemoveElement, FS_CardinalityType
  <2> HIDE DEF a
  <2>5. SumFunctionOnSet(a, s) = v + (Cardinality(s) - 1) * v
    BY <2>2, <2>3, <2>4
  <2>6. \A n \in Nat : v + (n - 1) * v = n * v
    OBVIOUS
  <2>7. SumFunctionOnSet(a, s) = Cardinality(s) * v
    BY <2>4, <2>5, <2>6
  <2> QED  BY <2>7
<1> HIDE DEF G
<1>3. S \in G
  BY <1>1, <1>2, SubsetInduction
<1>4. DOMAIN a = S
  OBVIOUS
<1> HIDE DEF a
<1>5. SumFunctionOnSet(a, DOMAIN a) = Cardinality(S) * v
  BY <1>3, <1>4 DEF G
<1> QED  BY <1>5 DEF SumFunction, a

\* A function that is nowhere larger has no larger sum.
LEMMA SumMonotonic ==
  ASSUME NEW D, IsFiniteSet(D), NEW a \in [D -> Int], NEW b \in [D -> Int],
         \A x \in D : a[x] <= b[x]
  PROVE  SumFunction(a) <= SumFunction(b)
<1> DEFINE G == {s \in SUBSET D : SumFunctionOnSet(a, s) <= SumFunctionOnSet(b, s)}
<1>1. {} \in G
  BY SumOfNone
<1>2. ASSUME NEW s \in SUBSET D, IsFiniteSet(s), s # {}, \A x \in s : s \ {x} \in G PROVE s \in G
  <2>1. Chosen(s) \in s /\ s \ {Chosen(s)} \in SUBSET D /\ IsFiniteSet(s \ {Chosen(s)})
    BY <1>2, FS_Subset DEF Chosen
  <2>2. /\ SumFunctionOnSet(a, s) = a[Chosen(s)] + SumFunctionOnSet(a, s \ {Chosen(s)})
        /\ SumFunctionOnSet(b, s) = b[Chosen(s)] + SumFunctionOnSet(b, s \ {Chosen(s)})
    BY <1>2, SumUnfold
  <2>3. SumFunctionOnSet(a, s \ {Chosen(s)}) <= SumFunctionOnSet(b, s \ {Chosen(s)})
    BY <1>2, <2>1
  <2>4. /\ SumFunctionOnSet(a, s \ {Chosen(s)}) \in Int
        /\ SumFunctionOnSet(b, s \ {Chosen(s)}) \in Int
    BY <2>1, SumType
  <2>5. a[Chosen(s)] <= b[Chosen(s)] /\ a[Chosen(s)] \in Int /\ b[Chosen(s)] \in Int
    BY <2>1
  <2>6. SumFunctionOnSet(a, s) <= SumFunctionOnSet(b, s)
    BY <2>2, <2>3, <2>4, <2>5
  <2> QED  BY <2>6
<1> HIDE DEF G
<1>3. D \in G
  BY <1>1, <1>2, SubsetInduction
<1>4. DOMAIN a = D /\ DOMAIN b = D
  OBVIOUS
<1> QED  BY <1>3, <1>4 DEF G, SumFunction
================================================================================
