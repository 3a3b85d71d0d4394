----------------------------- MODULE FoldLemmas -----------------------------
(***************************************************************************)
(* Lemmas about two folds of the community modules.  SumFunctionOnSet sums *)
(* a function over a finite set: what it is for the empty set, when one    *)
(* element is added or taken, and when the function changes at one point.  *)
(* FoldLeft goes through a list: it passes from one result to the next.    *)
(* The proofs are inductions over the size of a set or the index in a      *)
(* list, by way of the set of numbers for which the fact holds.            *)
(***************************************************************************)
EXTENDS FiniteSetsExt, Functions, FiniteSetTheorems, TLAPS

LEMMA SetInduction ==
  ASSUME NEW S, 0 \in S, \A n \in Nat : n \in S => n + 1 \in S
  PROVE  \A n \in Nat : n \in S
<1> SUFFICES ASSUME NEW k \in Nat, k \notin S PROVE FALSE
  OBVIOUS
<1>1. PICK x \in Nat \ S : \A y \in Nat \ S : ~(<<y, x>> \in OpToRel(<, Nat))
  BY NatLessThanWellFounded, WFMin
<1>2. \A y \in Nat \ S : ~(y < x)
  BY <1>1 DEF OpToRel
<1>3. x # 0 /\ x - 1 \in Nat
  OBVIOUS
<1>4. QED
  BY <1>2, <1>3

-----------------------------------------------------------------------------
(* The fold that computes a sum                                            *)

OneOf(s) == CHOOSE x \in s : TRUE

\* The equation of the recursive function in MapThenFoldSet, on the subsets U.
Adds(g, f, U) ==
  g = [s \in U |-> IF s = {} THEN 0 ELSE f[OneOf(s)] + g[s \ {OneOf(s)}]]

SmallSubsets(S, n) == {s \in SUBSET S : Cardinality(s) <= n}

\* A subset without one of its elements.
LEMMA Smaller ==
  ASSUME NEW S, IsFiniteSet(S), NEW x \in S
  PROVE  /\ IsFiniteSet(S \ {x}) /\ Cardinality(S) \in Nat /\ Cardinality(S \ {x}) \in Nat
         /\ Cardinality(S) = Cardinality(S \ {x}) + 1
  BY FS_RemoveElement, FS_CardinalityType

LEMMA AddsExists ==
  ASSUME NEW f, NEW S, IsFiniteSet(S)
  PROVE  \E g : Adds(g, f, SUBSET S)
<1> DEFINE N == {n \in Nat : \E g : Adds(g, f, SmallSubsets(S, n))}
<1>0. \A s \in SUBSET S : IsFiniteSet(s) /\ Cardinality(s) \in Nat
  BY FS_Subset, FS_CardinalityType
<1>1. 0 \in N
  <2> DEFINE g == [s \in SmallSubsets(S, 0) |-> 0]
  <2>1. \A s \in SmallSubsets(S, 0) : s = {}
    BY <1>0, FS_EmptySet DEF SmallSubsets
  <2>2. Adds(g, f, SmallSubsets(S, 0))
    BY <2>1 DEF Adds
  <2>3. QED
    BY <2>2
<1>2. ASSUME NEW n \in Nat, n \in N PROVE n + 1 \in N
  <2>1. PICK g : Adds(g, f, SmallSubsets(S, n))
    BY <1>2
  <2> DEFINE h == [s \in SmallSubsets(S, n + 1) |->
                     IF s = {} THEN 0 ELSE f[OneOf(s)] + g[s \ {OneOf(s)}]]
  <2>2. ASSUME NEW s \in SmallSubsets(S, n + 1), s # {}
        PROVE  h[s \ {OneOf(s)}] = g[s \ {OneOf(s)}]
    <3> DEFINE t == s \ {OneOf(s)}
    <3>1. OneOf(s) \in s
      BY <2>2 DEF OneOf
    <3>2. t \in SmallSubsets(S, n)
      BY <1>0, <3>1, Smaller DEF SmallSubsets
    <3>3. t \in SmallSubsets(S, n + 1)
      BY <1>0, <3>2 DEF SmallSubsets
    <3>4. g[t] = IF t = {} THEN 0 ELSE f[OneOf(t)] + g[t \ {OneOf(t)}]
      BY <2>1, <3>2 DEF Adds
    <3>5. QED
      BY <3>3, <3>4
  <2>3. Adds(h, f, SmallSubsets(S, n + 1))
    BY <2>2 DEF Adds
  <2>4. QED
    BY <2>3
<1>3. Cardinality(S) \in N
  <2> HIDE DEF N
  <2>1. QED
    BY <1>0, <1>1, <1>2, SetInduction
<1>4. SmallSubsets(S, Cardinality(S)) = SUBSET S
  BY FS_Subset DEF SmallSubsets
<1>5. QED
  BY <1>3, <1>4

\* c has the sums of f over the subsets of S.
Partial(c, f, S) ==
  /\ c[{}] = 0
  /\ \A s \in SUBSET S : s # {} => c[s] = f[OneOf(s)] + c[s \ {OneOf(s)}]

\* The sum is the value of a function on the subsets that adds one element at a time.
LEMMA SumAdds ==
  ASSUME NEW f, NEW S, IsFiniteSet(S)
  PROVE  \E g : SumFunctionOnSet(f, S) = g[S] /\ Partial(g, f, S)
<1> DEFINE c == CHOOSE g : Adds(g, f, SUBSET S)
<1>1. Adds(c, f, SUBSET S)
  BY AddsExists
<1>2. SumFunctionOnSet(f, S) = c[S]
  BY DEF SumFunctionOnSet, FoldFunctionOnSet, MapThenFoldSet, Adds, OneOf
<1> HIDE DEF c
<1>3. Partial(c, f, S)
  BY <1>1 DEF Adds, Partial
<1>4. QED
  BY <1>2, <1>3

-----------------------------------------------------------------------------
(* Sums                                                                    *)

LEMMA SumEmpty == \A f : SumFunctionOnSet(f, {}) = 0
  BY SumAdds, FS_EmptySet DEF Partial

\* Two functions that agree on a set have the same sum, also if one is summed by a
\* function for a larger set: what OneOf picks is the same.
LEMMA SumOfSubset ==
  ASSUME NEW f, NEW g, NEW c, NEW S, IsFiniteSet(S),
         Partial(c, f, S), \A x \in S : f[x] = g[x]
  PROVE  \A s \in SUBSET S : SumFunctionOnSet(g, s) = c[s]
<1> SUFFICES ASSUME NEW T \in SUBSET S PROVE SumFunctionOnSet(g, T) = c[T]
  OBVIOUS
<1>0. \A s \in SUBSET S : IsFiniteSet(s) /\ Cardinality(s) \in Nat
  BY FS_Subset, FS_CardinalityType
<1>1. PICK d : SumFunctionOnSet(g, T) = d[T] /\ Partial(d, g, T)
  BY <1>0, SumAdds
<1> DEFINE N == {n \in Nat : \A s \in SUBSET T : Cardinality(s) = n => c[s] = d[s]}
<1>2. 0 \in N
  BY <1>0, <1>1, FS_EmptySet DEF Partial
<1>3. ASSUME NEW n \in Nat, n \in N PROVE n + 1 \in N
  <2> SUFFICES ASSUME NEW s \in SUBSET T, Cardinality(s) = n + 1 PROVE c[s] = d[s]
    OBVIOUS
  <2>1. s # {} /\ OneOf(s) \in s
    BY FS_EmptySet DEF OneOf
  <2>2. Cardinality(s \ {OneOf(s)}) = n
    BY <1>0, <2>1, Smaller
  <2>3. c[s \ {OneOf(s)}] = d[s \ {OneOf(s)}]
    BY <1>3, <2>2
  <2>4. QED
    BY <1>1, <2>1, <2>3 DEF Partial
<1>4. Cardinality(T) \in N
  <2> HIDE DEF N
  <2>1. QED
    BY <1>0, <1>2, <1>3, SetInduction
<1>5. QED
  BY <1>1, <1>4

LEMMA SumAgrees ==
  ASSUME NEW f, NEW g, NEW S, IsFiniteSet(S), \A x \in S : f[x] = g[x]
  PROVE  SumFunctionOnSet(f, S) = SumFunctionOnSet(g, S)
<1>1. PICK c : SumFunctionOnSet(f, S) = c[S] /\ Partial(c, f, S)
  BY SumAdds
<1>2. \A s \in SUBSET S : SumFunctionOnSet(g, s) = c[s]
  BY <1>1, SumOfSubset
<1>3. QED
  BY <1>1, <1>2

\* The first element that the fold takes may be any.
LEMMA SumRemove ==
  ASSUME NEW f, NEW S, IsFiniteSet(S), \A x \in S : f[x] \in Int, NEW e \in S
  PROVE  /\ SumFunctionOnSet(f, S) \in Int
         /\ SumFunctionOnSet(f, S \ {e}) \in Int
         /\ SumFunctionOnSet(f, S) = f[e] + SumFunctionOnSet(f, S \ {e})
<1>0. \A s \in SUBSET S : IsFiniteSet(s) /\ Cardinality(s) \in Nat
  BY FS_Subset, FS_CardinalityType
<1>1. PICK c : SumFunctionOnSet(f, S) = c[S] /\ Partial(c, f, S)
  BY SumAdds
<1> DEFINE N == {n \in Nat : \A s \in SUBSET S : Cardinality(s) = n =>
                     c[s] \in Int /\ \A x \in s : c[s \ {x}] \in Int /\ c[s] = f[x] + c[s \ {x}]}
<1>2. 0 \in N
  <2>1. c[{}] = 0
    BY <1>1 DEF Partial
  <2>2. ASSUME NEW s \in SUBSET S, Cardinality(s) = 0 PROVE s = {} /\ c[s] = 0
    BY <1>0, <2>1, <2>2, FS_EmptySet
  <2>3. QED
    BY <2>2
<1>3. ASSUME NEW n \in Nat, n \in N PROVE n + 1 \in N
  <2> SUFFICES ASSUME NEW s \in SUBSET S, Cardinality(s) = n + 1
               PROVE  c[s] \in Int /\ \A x \in s : c[s \ {x}] \in Int /\ c[s] = f[x] + c[s \ {x}]
    OBVIOUS
  <2> DEFINE o == OneOf(s)
  <2>1. s # {} /\ o \in s
    BY FS_EmptySet DEF OneOf
  <2>2. \A x \in s : Cardinality(s \ {x}) = n /\ s \ {x} \in SUBSET S
    BY <1>0, Smaller
  <2>3. \A x \in s : /\ c[s \ {x}] \in Int
                     /\ \A y \in s \ {x} : /\ c[(s \ {x}) \ {y}] \in Int
                                           /\ c[s \ {x}] = f[y] + c[(s \ {x}) \ {y}]
    BY <1>3, <2>2
  <2>4. c[s] = f[o] + c[s \ {o}]
    BY <1>1, <2>1 DEF Partial
  <2>5. ASSUME NEW x \in s, x # o PROVE c[s] = f[x] + c[s \ {x}]
    <3> DEFINE d == c[(s \ {o}) \ {x}]
    <3>1. c[(s \ {x}) \ {o}] = d
      <4>1. (s \ {x}) \ {o} = (s \ {o}) \ {x}
        OBVIOUS
      <4>2. QED
        BY <4>1
    <3>2. x \in s \ {o} /\ o \in s \ {x}
      BY <2>1, <2>5
    <3>3. c[s \ {o}] = f[x] + d /\ c[s \ {x}] = f[o] + d /\ d \in Int
      BY <2>1, <2>3, <3>1, <3>2
    <3>4. f[x] \in Int /\ f[o] \in Int
      BY <2>1
    <3> HIDE DEF o, d
    <3>5. QED
      BY <2>4, <3>3, <3>4
  <2>6. c[s] \in Int
    BY <2>1, <2>3, <2>4
  <2>7. \A x \in s : c[s] = f[x] + c[s \ {x}]
    BY <2>4, <2>5
  <2>8. QED
    BY <2>3, <2>6, <2>7
<1>4. Cardinality(S) \in N
  <2> HIDE DEF N
  <2>1. QED
    BY <1>0, <1>2, <1>3, SetInduction
<1>5. \A s \in SUBSET S : SumFunctionOnSet(f, s) = c[s]
  BY <1>1, SumOfSubset
<1>6. c[S] \in Int /\ c[S \ {e}] \in Int /\ c[S] = f[e] + c[S \ {e}]
  BY <1>4
<1>7. QED
  BY <1>5, <1>6

LEMMA SumType ==
  ASSUME NEW f, NEW S, IsFiniteSet(S), \A x \in S : f[x] \in Int
  PROVE  SumFunctionOnSet(f, S) \in Int
<1>1. CASE S = {}
  BY <1>1, SumEmpty
<1>2. CASE S # {}
  BY <1>2, SumRemove
<1>3. QED
  BY <1>1, <1>2

LEMMA SumAdd ==
  ASSUME NEW f, NEW S, IsFiniteSet(S), NEW e, e \notin S, \A x \in S \cup {e} : f[x] \in Int
  PROVE  SumFunctionOnSet(f, S \cup {e}) = SumFunctionOnSet(f, S) + f[e]
<1>1. (S \cup {e}) \ {e} = S /\ IsFiniteSet(S \cup {e})
  BY FS_AddElement
<1>2. SumFunctionOnSet(f, S \cup {e}) = f[e] + SumFunctionOnSet(f, S)
  BY <1>1, SumRemove
<1>3. QED
  BY <1>2, SumType

\* The function changes at one point only.
LEMMA SumChange ==
  ASSUME NEW f, NEW g, NEW S, IsFiniteSet(S), NEW e \in S,
         \A x \in S : f[x] \in Int, \A x \in S : g[x] \in Int,
         \A x \in S \ {e} : g[x] = f[x]
  PROVE  SumFunctionOnSet(g, S) = SumFunctionOnSet(f, S) - f[e] + g[e]
<1>1. SumFunctionOnSet(f, S \ {e}) = SumFunctionOnSet(g, S \ {e})
  BY FS_RemoveElement, SumAgrees
<1>2. /\ SumFunctionOnSet(f, S \ {e}) \in Int
      /\ SumFunctionOnSet(f, S) = f[e] + SumFunctionOnSet(f, S \ {e})
  BY SumRemove
<1>3. SumFunctionOnSet(g, S) = g[e] + SumFunctionOnSet(g, S \ {e})
  BY SumRemove
<1>4. QED
  BY <1>1, <1>2, <1>3

LEMMA SumZero ==
  ASSUME NEW f, NEW S, IsFiniteSet(S), \A x \in S : f[x] = 0
  PROVE  SumFunctionOnSet(f, S) = 0
<1> DEFINE N == {n \in Nat : \A s \in SUBSET S : Cardinality(s) = n => SumFunctionOnSet(f, s) = 0}
<1>0. \A s \in SUBSET S : IsFiniteSet(s) /\ Cardinality(s) \in Nat
  BY FS_Subset, FS_CardinalityType
<1>1. 0 \in N
  <2>1. \A s \in SUBSET S : Cardinality(s) = 0 => s = {}
    BY <1>0, FS_EmptySet
  <2>2. QED
    BY <2>1, SumEmpty
<1>2. ASSUME NEW n \in Nat, n \in N PROVE n + 1 \in N
  <2> SUFFICES ASSUME NEW s \in SUBSET S, Cardinality(s) = n + 1
               PROVE  SumFunctionOnSet(f, s) = 0
    OBVIOUS
  <2>1. PICK x \in s : TRUE
    BY FS_EmptySet
  <2>2. Cardinality(s \ {x}) = n
    BY <1>0, Smaller
  <2>3. SumFunctionOnSet(f, s \ {x}) = 0
    BY <1>2, <2>2
  <2>4. SumFunctionOnSet(f, s) = f[x] + SumFunctionOnSet(f, s \ {x})
    BY <1>0, SumRemove
  <2>5. QED
    BY <2>3, <2>4
<1>3. Cardinality(S) \in N
  <2> HIDE DEF N
  <2>1. QED
    BY <1>0, <1>1, <1>2, SetInduction
<1>4. QED
  BY <1>3

LEMMA SumNat ==
  ASSUME NEW f, NEW S, IsFiniteSet(S), \A x \in S : f[x] \in Nat
  PROVE  SumFunctionOnSet(f, S) \in Nat
<1> DEFINE N == {n \in Nat : \A s \in SUBSET S : Cardinality(s) = n => SumFunctionOnSet(f, s) \in Nat}
<1>0. \A s \in SUBSET S : IsFiniteSet(s) /\ Cardinality(s) \in Nat
  BY FS_Subset, FS_CardinalityType
<1>1. 0 \in N
  <2>1. \A s \in SUBSET S : Cardinality(s) = 0 => s = {}
    BY <1>0, FS_EmptySet
  <2>2. QED
    BY <2>1, SumEmpty
<1>2. ASSUME NEW n \in Nat, n \in N PROVE n + 1 \in N
  <2> SUFFICES ASSUME NEW s \in SUBSET S, Cardinality(s) = n + 1
               PROVE  SumFunctionOnSet(f, s) \in Nat
    OBVIOUS
  <2>1. PICK x \in s : TRUE
    BY FS_EmptySet
  <2>2. Cardinality(s \ {x}) = n
    BY <1>0, Smaller
  <2>3. SumFunctionOnSet(f, s \ {x}) \in Nat
    BY <1>2, <2>2
  <2>4. SumFunctionOnSet(f, s) = f[x] + SumFunctionOnSet(f, s \ {x})
    BY <1>0, SumRemove
  <2>5. QED
    BY <2>3, <2>4
<1>3. Cardinality(S) \in N
  <2> HIDE DEF N
  <2>1. QED
    BY <1>0, <1>1, <1>2, SetInduction
<1>4. QED
  BY <1>3

\* Of natural numbers none is more than their sum.
LEMMA SumAtLeast ==
  ASSUME NEW f, NEW S, IsFiniteSet(S), \A x \in S : f[x] \in Nat, NEW e \in S
  PROVE  SumFunctionOnSet(f, S) >= f[e]
<1>1. SumFunctionOnSet(f, S \ {e}) \in Nat
  BY FS_RemoveElement, SumNat
<1>2. SumFunctionOnSet(f, S) = f[e] + SumFunctionOnSet(f, S \ {e})
  BY SumRemove
<1>3. QED
  BY <1>1, <1>2

-----------------------------------------------------------------------------
(* The fold over a list                                                    *)

LEMMA PrefixMax ==
  ASSUME NEW k \in Nat
  PROVE  /\ Max(1..(k + 1)) = k + 1
         /\ (1..(k + 1)) \ {k + 1} = 1..k /\ 1..(k + 1) # {} /\ 1..0 = {}
<1>1. k + 1 \in 1..(k + 1) /\ \A y \in 1..(k + 1) : k + 1 >= y
  OBVIOUS
<1>2. \A x \in 1..(k + 1) : (\A y \in 1..(k + 1) : x >= y) => x = k + 1
  OBVIOUS
<1>3. Max(1..(k + 1)) = k + 1
  BY <1>1, <1>2 DEF Max
<1>4. QED
  BY <1>3

LEMMA MaxIsMember ==
  ASSUME NEW n \in Nat, NEW s \in SUBSET (1..n), s # {}
  PROVE  Max(s) \in s
<1> DEFINE above == {n - x : x \in s}
<1>0. \A x \in s : x \in Int /\ n - x \in Nat
  OBVIOUS
<1>1. above \subseteq Nat /\ above # {}
  BY <1>0
<1>2. PICK d \in above : \A y \in above : ~(<<y, d>> \in OpToRel(<, Nat))
  BY <1>1, NatLessThanWellFounded, WFMin
<1>3. \A y \in above : ~(y < d)
  BY <1>1, <1>2 DEF OpToRel
<1>4. PICK x \in s : d = n - x
  OBVIOUS
<1>5. \A y \in s : x >= y
  <2> TAKE y \in s
  <2>1. n - y \in above /\ y \in Int /\ x \in Int
    BY <1>0
  <2>2. ~(n - y < n - x)
    BY <1>3, <1>4, <2>1
  <2>3. QED
    BY <2>1, <2>2
<1>6. QED
  BY <1>5 DEF Max

\* The equation of the recursive function in FoldLeft, for an operation given as the
\* function F, on the subsets U.
FoldsTo(g, F, base, list, U) ==
  g = [s \in U |-> IF s = {} THEN base ELSE F[<<g[s \ {Max(s)}], list[Max(s)]>>]]

LEMMA FoldExists ==
  ASSUME NEW D, NEW E, NEW base \in D, NEW F \in [D \X E -> D], NEW n \in Nat,
         NEW list \in [1..n -> E]
  PROVE  \E g \in [SUBSET (1..n) -> D] : FoldsTo(g, F, base, list, SUBSET (1..n))
<1> DEFINE S == 1..n
           N == {k \in Nat : \E g \in [SmallSubsets(S, k) -> D] :
                               FoldsTo(g, F, base, list, SmallSubsets(S, k))}
<1>0. /\ IsFiniteSet(S) /\ Cardinality(S) \in Nat
      /\ \A s \in SUBSET S : IsFiniteSet(s) /\ Cardinality(s) \in Nat
  <2>1. 1 \in Int /\ n \in Int
    OBVIOUS
  <2>2. IsFiniteSet(S)
    BY <2>1, FS_Interval
  <2> HIDE DEF S
  <2>3. QED
    BY <2>2, FS_Subset, FS_CardinalityType
<1>m. \A s \in SUBSET S : s # {} => Max(s) \in s
  BY MaxIsMember
<1> HIDE DEF S
<1>1. 0 \in N
  <2> DEFINE g == [s \in SmallSubsets(S, 0) |-> base]
  <2>1. \A s \in SmallSubsets(S, 0) : s = {}
    BY <1>0, FS_EmptySet DEF SmallSubsets
  <2>2. FoldsTo(g, F, base, list, SmallSubsets(S, 0)) /\ g \in [SmallSubsets(S, 0) -> D]
    BY <2>1 DEF FoldsTo
  <2>3. QED
    BY <2>2
<1>2. ASSUME NEW k \in Nat, k \in N PROVE k + 1 \in N
  <2>1. PICK g \in [SmallSubsets(S, k) -> D] : FoldsTo(g, F, base, list, SmallSubsets(S, k))
    BY <1>2
  <2> DEFINE h == [s \in SmallSubsets(S, k + 1) |->
                     IF s = {} THEN base ELSE F[<<g[s \ {Max(s)}], list[Max(s)]>>]]
  <2>2. ASSUME NEW s \in SmallSubsets(S, k + 1), s # {}
        PROVE  /\ h[s \ {Max(s)}] = g[s \ {Max(s)}] /\ g[s \ {Max(s)}] \in D
               /\ list[Max(s)] \in E
    <3> DEFINE t == s \ {Max(s)}
    <3>1. Max(s) \in s /\ s \in SUBSET S
      BY <1>m, <2>2 DEF SmallSubsets
    <3>2. t \in SmallSubsets(S, k)
      BY <1>0, <3>1, Smaller DEF SmallSubsets
    <3>3. t \in SmallSubsets(S, k + 1)
      BY <1>0, <3>2 DEF SmallSubsets
    <3>4. g[t] = IF t = {} THEN base ELSE F[<<g[t \ {Max(t)}], list[Max(t)]>>]
      BY <2>1, <3>2 DEF FoldsTo
    <3>5. h[t] = g[t] /\ g[t] \in D
      BY <2>1, <3>2, <3>3, <3>4
    <3>6. list[Max(s)] \in E
      BY <3>1 DEF S
    <3>7. QED
      BY <3>5, <3>6
  <2>3. FoldsTo(h, F, base, list, SmallSubsets(S, k + 1))
    BY <2>2 DEF FoldsTo
  <2>4. h \in [SmallSubsets(S, k + 1) -> D]
    BY <2>2
  <2> HIDE DEF h
  <2>5. QED
    BY <2>3, <2>4
<1>3. Cardinality(S) \in N
  <2> HIDE DEF N
  <2>1. QED
    BY <1>0, <1>1, <1>2, SetInduction
<1>4. SmallSubsets(S, Cardinality(S)) = SUBSET S
  BY <1>0, FS_Subset DEF SmallSubsets
<1>5. QED
  BY <1>3, <1>4 DEF S

\* Function c has the values of a fold on the sets of the first indices.
FoldsOver(c, F, base, n, list, D, E) ==
  /\ base \in D /\ F \in [D \X E -> D] /\ n \in Nat /\ list \in [1..n -> E]
  /\ c[{}] = base
  /\ \A k \in 0..(n - 1) : c[1..k] \in D => c[1..(k + 1)] = F[<<c[1..k], list[k + 1]>>]

\* The results on the way of a fold.
Passes(h, F, base, n, list, D) ==
  /\ h[0] = base
  /\ \A k \in 0..n : h[k] \in D
  /\ \A k \in 0..(n - 1) : h[k + 1] = F[<<h[k], list[k + 1]>>]

LEMMA FoldPasses ==
  ASSUME NEW D, NEW E, NEW base, NEW F, NEW n, NEW list, NEW c, FoldsOver(c, F, base, n, list, D, E)
  PROVE  \E h : Passes(h, F, base, n, list, D) /\ h[n] = c[1..n]
<1> DEFINE h == [k \in 0..n |-> c[1..k]]
           N == {k \in Nat : k <= n => c[1..k] \in D}
<1>0. base \in D /\ F \in [D \X E -> D] /\ n \in Nat /\ list \in [1..n -> E]
  BY DEF FoldsOver
<1>1. 0 \in N
  BY <1>0, PrefixMax DEF FoldsOver
<1>2. ASSUME NEW k \in Nat, k \in N PROVE k + 1 \in N
  <2> SUFFICES ASSUME k + 1 <= n PROVE c[1..(k + 1)] \in D
    OBVIOUS
  <2>1. c[1..k] \in D /\ k \in 0..(n - 1) /\ list[k + 1] \in E
    BY <1>0, <1>2
  <2>2. c[1..(k + 1)] = F[<<c[1..k], list[k + 1]>>]
    BY <2>1 DEF FoldsOver
  <2>3. QED
    BY <1>0, <2>1, <2>2
<1>3. \A k \in Nat : k \in N
  <2> HIDE DEF N
  <2>1. QED
    BY <1>1, <1>2, SetInduction
<1>4. /\ \A k \in 0..n : h[k] = c[1..k] /\ h[k] \in D
      /\ 0 \in 0..n /\ n \in 0..n
  BY <1>0, <1>3
<1> HIDE DEF h, N
<1>5. h[0] = base
  BY <1>4, PrefixMax DEF FoldsOver
<1>6. \A k \in 0..(n - 1) : h[k + 1] = F[<<h[k], list[k + 1]>>]
  <2> TAKE k \in 0..(n - 1)
  <2>1. k \in 0..n /\ k + 1 \in 0..n
    BY <1>0
  <2>2. QED
    BY <1>4, <2>1 DEF FoldsOver
<1>7. h[n] = c[1..n] /\ Passes(h, F, base, n, list, D)
  BY <1>4, <1>5, <1>6 DEF Passes
<1>8. QED
  BY <1>7
=============================================================================
