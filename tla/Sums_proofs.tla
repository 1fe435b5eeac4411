----------------------------- MODULE Sums_proofs -----------------------------
(***************************************************************************)
(* Sums over finite sets: what SumAt returns, from its definition as a     *)
(* fold of the community modules.  The library's induction theorems are    *)
(* about an operator, which cannot be instantiated here; the first lemma   *)
(* is induction about a set of sets, which can.                            *)
(***************************************************************************)
EXTENDS Fields, FiniteSetsExt, FiniteSetTheorems, WellFoundedInduction, TLAPS

-----------------------------------------------------------------------------
(* Induction. *)

\* A collection of subsets of S that has a set whenever it has all sets of one
\* element less has them all.
LEMMA SubsetInduction ==
  ASSUME NEW S, IsFiniteSet(S), NEW P \in SUBSET (SUBSET S),
         \A T \in SUBSET S : (\A x \in T : T \ {x} \in P) => T \in P
  PROVE  P = SUBSET S
<1> DEFINE bad == (SUBSET S) \ P
           below == StrictSubsetOrdering(S)
<1> SUFFICES ASSUME bad # {} PROVE FALSE
  OBVIOUS
<1>1. IsWellFoundedOn(below, SUBSET S)
  <2>1. FiniteSubsetsOf(S) = SUBSET S
    BY FS_FiniteSubsetsOfFinite
  <2>2. IsWellFoundedOn(StrictSubsetOrdering(S), FiniteSubsetsOf(S))
    BY FS_StrictSubsetOrderingWellFounded
  <2> QED BY <2>1, <2>2
<1>2. bad \subseteq SUBSET S
  OBVIOUS
<1> HIDE DEF below, bad
<1>3. PICK T \in bad : \A U \in bad : <<U, T>> \notin below
  BY <1>1, <1>2, WFMin
<1>4. T \in SUBSET S /\ T \notin P
  BY DEF bad
<1>5. ASSUME NEW x \in T PROVE T \ {x} \in P
  <2>1. <<T \ {x}, T>> \in below
    BY <1>4 DEF below, StrictSubsetOrdering
  <2> QED BY <1>3, <1>4, <2>1 DEF bad
<1> QED BY <1>4, <1>5

\* A collection with the empty set and, with a set, all those of one element
\* more has them all.
LEMMA SetInduction ==
  ASSUME NEW S, IsFiniteSet(S), NEW P \in SUBSET (SUBSET S), {} \in P,
         \A T \in P : \A x \in S \ T : T \cup {x} \in P
  PROVE  S \in P
<1>1. ASSUME NEW T \in SUBSET S, \A x \in T : T \ {x} \in P PROVE T \in P
  <2>1. CASE T = {}
    BY <2>1
  <2>2. CASE T # {}
    <3>1. PICK x \in T : T \ {x} \in P
      BY <1>1, <2>2
    <3>2. (T \ {x}) \cup {x} = T
      OBVIOUS
    <3>3. x \in S \ (T \ {x})
      OBVIOUS
    <3> QED BY <3>1, <3>2, <3>3
  <2> QED BY <2>1, <2>2
<1>2. P = SUBSET S
  BY <1>1, SubsetInduction
<1> QED BY <1>2
-----------------------------------------------------------------------------
(* The fold. *)

Some(S) == CHOOSE x \in S : TRUE

\* One step of the fold, and the function on all subsets that it folds with.
StepOf(f, g, s) == IF s = {} THEN 0 ELSE f[Some(s)] + g[s \ {Some(s)}]
Partial(f, S)   == CHOOSE g : g = [s \in SUBSET S |-> StepOf(f, g, s)]

LEMMA SumIsPartial ==
  ASSUME NEW f, NEW S PROVE SumAt(f, S) = Partial(f, S)[S]
BY DEF SumAt, SumFunctionOnSet, FoldFunctionOnSet, MapThenFoldSet, Partial, StepOf, Some

LEMMA SomeIn == ASSUME NEW S, S # {} PROVE Some(S) \in S
BY DEF Some

\* The fold's equation has a solution.  It is put together from those below a
\* set, all of which agree.
LEMMA SolutionsAgree ==
  ASSUME NEW f, NEW S, IsFiniteSet(S), NEW g, NEW h,
         \A s \in SUBSET S : g[s] = StepOf(f, g, s),
         \A s \in SUBSET S : h[s] = StepOf(f, h, s)
  PROVE  \A s \in SUBSET S : g[s] = h[s]
<1> DEFINE P == {s \in SUBSET S : g[s] = h[s]}
<1>1. ASSUME NEW T \in SUBSET S, \A x \in T : T \ {x} \in P PROVE T \in P
  <2>1. CASE T = {}
    BY <2>1 DEF StepOf
  <2>2. CASE T # {}
    <3>1. Some(T) \in T
      BY <2>2, SomeIn
    <3>2. g[T \ {Some(T)}] = h[T \ {Some(T)}]
      BY <1>1, <3>1
    <3> QED BY <2>2, <3>2 DEF StepOf
  <2> QED BY <2>1, <2>2
<1>2. P \in SUBSET (SUBSET S)
  OBVIOUS
<1> HIDE DEF P
<1>3. P = SUBSET S
  BY <1>1, <1>2, SubsetInduction
<1> QED BY <1>3 DEF P

LEMMA SolutionExists ==
  ASSUME NEW f, NEW S, IsFiniteSet(S)
  PROVE  \E g : g = [s \in SUBSET S |-> StepOf(f, g, s)]
<1> DEFINE Solves(g, T) == \A s \in SUBSET T : g[s] = StepOf(f, g, s)
           P == {T \in SUBSET S : \E g : Solves(g, T)}
<1>1. ASSUME NEW T \in SUBSET S, \A x \in T : T \ {x} \in P PROVE T \in P
  <2> DEFINE G(x) == CHOOSE g : Solves(g, T \ {x})
             low(s) == G(Some(T \ s))[s]
             h == [s \in SUBSET T |-> IF s = T THEN StepOf(f, [u \in SUBSET T |-> low(u)], T)
                                      ELSE low(s)]
  <2>1. ASSUME NEW x \in T PROVE Solves(G(x), T \ {x})
    BY <1>1
  <2>2. ASSUME NEW x \in T, NEW s \in SUBSET T, x \notin s PROVE low(s) = G(x)[s]
    <3> DEFINE y == Some(T \ s)
    <3>1. y \in T \ s
      BY <2>2, SomeIn
    <3>2. IsFiniteSet(s)
      BY FS_Subset
    <3>3. Solves(G(x), s) /\ Solves(G(y), s)
      BY <2>1, <2>2, <3>1
    <3> DEFINE a == G(x)
               b == G(y)
    <3>4. /\ \A t \in SUBSET s : a[t] = StepOf(f, a, t)
          /\ \A t \in SUBSET s : b[t] = StepOf(f, b, t)
      BY <3>3
    <3> HIDE DEF G, a, b
    <3>5. \A t \in SUBSET s : a[t] = b[t]
      BY <3>2, <3>4, SolutionsAgree
    <3>6. G(x)[s] = G(y)[s]
      BY <3>5 DEF a, b
    <3> QED BY <3>6
  <2>3. ASSUME NEW s \in SUBSET T, s # T PROVE low(s) = StepOf(f, [u \in SUBSET T |-> low(u)], s)
    <3> DEFINE y == Some(T \ s)
               l == [u \in SUBSET T |-> low(u)]
    <3>1. y \in T \ s
      BY <2>3, SomeIn
    <3>2. low(s) = StepOf(f, G(y), s)
      BY <2>1, <3>1
    <3>3. s # {} => l[s \ {Some(s)}] = G(y)[s \ {Some(s)}]
      <4> HIDE DEF G, low
      <4>1. \A u \in SUBSET s : u \in SUBSET T /\ y \notin u
        BY <3>1
      <4>2. \A u \in SUBSET s : low(u) = G(y)[u]
        BY <2>2, <3>1, <4>1
      <4> QED BY <4>2
    <3> HIDE DEF G, low, y
    <3> QED BY <3>2, <3>3 DEF StepOf
  <2>4. Solves(h, T)
    <3> SUFFICES ASSUME NEW s \in SUBSET T PROVE h[s] = StepOf(f, h, s)
      OBVIOUS
    <3> DEFINE l == [u \in SUBSET T |-> low(u)]
    <3>1. s # {} => s \ {Some(s)} # T
      BY SomeIn
    <3> HIDE DEF G, low
    <3>2. s # {} => h[s \ {Some(s)}] = l[s \ {Some(s)}]
      BY <3>1
    <3>3. StepOf(f, h, s) = StepOf(f, l, s)
      BY <3>2 DEF StepOf
    <3>4. h[s] = StepOf(f, l, s)
      BY <2>3
    <3> QED BY <3>3, <3>4
  <2> HIDE DEF h, G, low
  <2> QED BY <2>4
<1>2. P \in SUBSET (SUBSET S)
  OBVIOUS
<1>3. P = SUBSET S
  <2> HIDE DEF P
  <2> QED BY <1>1, <1>2, SubsetInduction
<1>4. PICK g : Solves(g, S)
  <2>1. S \in P
    BY <1>3
  <2> QED BY <2>1
<1> DEFINE r == [s \in SUBSET S |-> g[s]]
<1>5. \A s \in SUBSET S : StepOf(f, g, s) = StepOf(f, r, s)
  BY DEF StepOf
<1>6. r = [s \in SUBSET S |-> StepOf(f, r, s)]
  <2>1. \A s \in SUBSET S : g[s] = StepOf(f, r, s)
    BY <1>4, <1>5
  <2> QED BY <2>1
<1> QED BY <1>6
-----------------------------------------------------------------------------
(* What SumAt returns. *)

\* The sum over a set is one of its values and the sum over the others.
LEMMA SumStep ==
  ASSUME NEW f, NEW S, IsFiniteSet(S)
  PROVE  SumAt(f, S) = IF S = {} THEN 0 ELSE f[Some(S)] + SumAt(f, S \ {Some(S)})
<1> DEFINE g == Partial(f, S)
<1>1. g = [s \in SUBSET S |-> StepOf(f, g, s)]
  BY SolutionExists DEF Partial
<1>2. SumAt(f, S) = g[S]
  BY SumIsPartial
<1>3. g[S] = StepOf(f, g, S)
  BY <1>1
<1>4. CASE S = {}
  BY <1>2, <1>3, <1>4 DEF StepOf
<1>5. CASE S # {}
  <2> DEFINE T == S \ {Some(S)}
             h == Partial(f, T)
  <2>1. T \in SUBSET S /\ IsFiniteSet(T)
    BY FS_RemoveElement
  <2> HIDE DEF T
  <2>2. h = [s \in SUBSET T |-> StepOf(f, h, s)]
    BY <2>1, SolutionExists DEF Partial
  <2>3. /\ \A s \in SUBSET T : g[s] = StepOf(f, g, s)
        /\ \A s \in SUBSET T : h[s] = StepOf(f, h, s)
    BY <1>1, <2>1, <2>2
  <2> HIDE DEF g, h
  <2>4. g[T] = h[T]
    BY <2>1, <2>3, SolutionsAgree
  <2>5. SumAt(f, T) = h[T]
    BY SumIsPartial DEF h
  <2> QED BY <1>2, <1>3, <1>5, <2>4, <2>5 DEF StepOf, T
<1> QED BY <1>4, <1>5

LEMMA SumEmpty == ASSUME NEW f PROVE SumAt(f, {}) = 0
BY SumStep, FS_EmptySet

LEMMA SumInt ==
  ASSUME NEW f, NEW S, IsFiniteSet(S), \A x \in S : f[x] \in Int
  PROVE  SumAt(f, S) \in Int
<1> DEFINE P == {s \in SUBSET S : SumAt(f, s) \in Int}
<1>1. ASSUME NEW T \in SUBSET S, \A x \in T : T \ {x} \in P PROVE T \in P
  <2>1. IsFiniteSet(T)
    BY FS_Subset
  <2>2. CASE T = {}
    BY <2>2, SumEmpty
  <2>3. CASE T # {}
    <3>1. Some(T) \in T
      BY <2>3, SomeIn
    <3>2. SumAt(f, T) = f[Some(T)] + SumAt(f, T \ {Some(T)})
      BY <2>1, <2>3, SumStep
    <3> QED BY <1>1, <3>1, <3>2
  <2> QED BY <2>2, <2>3
<1>2. P \in SUBSET (SUBSET S)
  OBVIOUS
<1> HIDE DEF P
<1>3. P = SUBSET S
  BY <1>1, <1>2, SubsetInduction
<1> QED BY <1>3 DEF P

\* Any element may be taken first.
LEMMA SumRemove ==
  ASSUME NEW f, NEW S, IsFiniteSet(S), \A x \in S : f[x] \in Int, NEW x \in S
  PROVE  SumAt(f, S) = f[x] + SumAt(f, S \ {x})
<1> DEFINE P == {s \in SUBSET S : \A y \in s : SumAt(f, s) = f[y] + SumAt(f, s \ {y})}
<1>1. ASSUME NEW T \in SUBSET S, \A y \in T : T \ {y} \in P PROVE T \in P
  <2> SUFFICES ASSUME NEW y \in T PROVE SumAt(f, T) = f[y] + SumAt(f, T \ {y})
    OBVIOUS
  <2> DEFINE c == Some(T)
             U == (T \ {c}) \ {y}
  <2>1. c \in T /\ IsFiniteSet(T)
    BY SomeIn, FS_Subset
  <2>2. SumAt(f, T) = f[c] + SumAt(f, T \ {c})
    BY <2>1, SumStep
  <2> HIDE DEF c
  <2>3. CASE c = y
    BY <2>2, <2>3
  <2>4. CASE c # y
    <3>1. SumAt(f, T \ {c}) = f[y] + SumAt(f, U)
      BY <1>1, <2>1, <2>4
    <3>2. SumAt(f, T \ {y}) = f[c] + SumAt(f, (T \ {y}) \ {c})
      BY <1>1, <2>1, <2>4
    <3>3. (T \ {y}) \ {c} = U
      OBVIOUS
    <3>4. SumAt(f, U) \in Int
      <4>1. IsFiniteSet(U) /\ \A z \in U : f[z] \in Int
        BY <2>1, FS_Subset
      <4> HIDE DEF U
      <4> QED BY <4>1, SumInt
    <3>5. f[c] \in Int /\ f[y] \in Int
      BY <2>1
    <3> DEFINE u == SumAt(f, U)
               v == SumAt(f, T \ {y})
               w == SumAt(f, T \ {c})
    <3>6. v = f[c] + u /\ w = f[y] + u
      BY <3>1, <3>2, <3>3
    <3>7. SumAt(f, T) = f[c] + w
      BY <2>2
    <3> HIDE DEF u, v, w
    <3>8. SumAt(f, T) = f[y] + v
      BY <3>4, <3>5, <3>6, <3>7 DEF u
    <3> QED BY <3>8 DEF v
  <2> QED BY <2>3, <2>4
<1>2. P \in SUBSET (SUBSET S)
  OBVIOUS
<1>3. P = SUBSET S
  <2> HIDE DEF P
  <2> QED BY <1>1, <1>2, SubsetInduction
<1>4. S \in P
  BY <1>3
<1> QED BY <1>4

LEMMA SumAdd ==
  ASSUME NEW f, NEW S, IsFiniteSet(S), NEW x, x \notin S,
         \A y \in S \cup {x} : f[y] \in Int
  PROVE  SumAt(f, S \cup {x}) = f[x] + SumAt(f, S)
<1> DEFINE T == S \cup {x}
<1>1. IsFiniteSet(T) /\ x \in T /\ T \ {x} = S
  BY FS_AddElement
<1> QED BY <1>1, SumRemove

LEMMA SumNat ==
  ASSUME NEW f, NEW S, IsFiniteSet(S), \A x \in S : f[x] \in Nat
  PROVE  SumAt(f, S) \in Nat
<1> DEFINE P == {s \in SUBSET S : SumAt(f, s) \in Nat}
<1>1. {} \in P
  BY SumEmpty
<1>2. ASSUME NEW T \in P, NEW x \in S \ T PROVE T \cup {x} \in P
  <2>1. IsFiniteSet(T) /\ T \subseteq S
    BY FS_Subset
  <2>2. SumAt(f, T \cup {x}) = f[x] + SumAt(f, T)
    BY <2>1, SumAdd
  <2> QED BY <2>1, <2>2
<1>3. P \in SUBSET (SUBSET S)
  OBVIOUS
<1> HIDE DEF P
<1>4. S \in P
  BY <1>1, <1>2, <1>3, SetInduction
<1> QED BY <1>4 DEF P

\* Columns that agree on the set have the same sum.
LEMMA SumSame ==
  ASSUME NEW f, NEW g, NEW S, IsFiniteSet(S),
         \A x \in S : f[x] \in Int /\ f[x] = g[x]
  PROVE  SumAt(f, S) = SumAt(g, S)
<1> DEFINE P == {s \in SUBSET S : SumAt(f, s) = SumAt(g, s)}
<1>1. {} \in P
  BY SumEmpty
<1>2. ASSUME NEW T \in P, NEW x \in S \ T PROVE T \cup {x} \in P
  <2>1. IsFiniteSet(T) /\ T \subseteq S
    BY FS_Subset
  <2>2. SumAt(f, T \cup {x}) = f[x] + SumAt(f, T)
    BY <2>1, SumAdd
  <2>3. SumAt(g, T \cup {x}) = g[x] + SumAt(g, T)
    BY <2>1, SumAdd
  <2>4. SumAt(f, T \cup {x}) = SumAt(g, T \cup {x})
    BY <2>2, <2>3
  <2> QED BY <2>1, <2>4
<1>3. P \in SUBSET (SUBSET S)
  OBVIOUS
<1> HIDE DEF P
<1>4. S \in P
  BY <1>1, <1>2, <1>3, SetInduction
<1> QED BY <1>4 DEF P

\* The sum over two sets with nothing in common.
LEMMA SumUnion ==
  ASSUME NEW f, NEW S, NEW R, IsFiniteSet(S), IsFiniteSet(R), S \cap R = {},
         \A x \in S \cup R : f[x] \in Int
  PROVE  SumAt(f, S \cup R) = SumAt(f, S) + SumAt(f, R)
<1> DEFINE P == {s \in SUBSET S : SumAt(f, s \cup R) = SumAt(f, s) + SumAt(f, R)}
<1>1. {} \in P
  <2>1. SumAt(f, R) \in Int
    BY SumInt
  <2>2. {} \cup R = R
    OBVIOUS
  <2> QED BY <2>1, <2>2, SumEmpty
<1>2. ASSUME NEW T \in P, NEW x \in S \ T PROVE T \cup {x} \in P
  <2>1. IsFiniteSet(T) /\ T \subseteq S /\ IsFiniteSet(T \cup R)
    BY FS_Subset, FS_Union
  <2>2. SumAt(f, T \cup {x}) = f[x] + SumAt(f, T)
    BY <2>1, SumAdd
  <2>3. SumAt(f, (T \cup R) \cup {x}) = f[x] + SumAt(f, T \cup R)
    <3>1. x \notin T \cup R /\ \A y \in (T \cup R) \cup {x} : f[y] \in Int
      BY <2>1
    <3> QED BY <2>1, <3>1, SumAdd
  <2>4. (T \cup R) \cup {x} = (T \cup {x}) \cup R
    OBVIOUS
  <2>5. SumAt(f, (T \cup {x}) \cup R) = f[x] + SumAt(f, T \cup R)
    BY <2>3, <2>4
  <2>6. SumAt(f, T) \in Int /\ SumAt(f, R) \in Int /\ f[x] \in Int
    BY <2>1, SumInt
  <2>7. SumAt(f, (T \cup {x}) \cup R) = SumAt(f, T \cup {x}) + SumAt(f, R)
    <3>1. SumAt(f, T \cup R) = SumAt(f, T) + SumAt(f, R)
      OBVIOUS
    <3> QED BY <2>2, <2>5, <2>6, <3>1
  <2> QED BY <2>1, <2>7
<1>3. P \in SUBSET (SUBSET S)
  OBVIOUS
<1> HIDE DEF P
<1>4. S \in P
  BY <1>1, <1>2, <1>3, SetInduction
<1> QED BY <1>4 DEF P

\* A sum of natural numbers is at least that over a part, and at least each of them.
LEMMA SumSubset ==
  ASSUME NEW f, NEW S, IsFiniteSet(S), \A x \in S : f[x] \in Nat, NEW T \in SUBSET S
  PROVE  SumAt(f, T) <= SumAt(f, S)
<1> DEFINE R == S \ T
<1>1. IsFiniteSet(T) /\ IsFiniteSet(R) /\ T \cap R = {} /\ T \cup R = S
  BY FS_Subset, FS_Difference
<1>2. SumAt(f, T \cup R) = SumAt(f, T) + SumAt(f, R)
  BY <1>1, SumUnion
<1>3. SumAt(f, T) \in Nat /\ SumAt(f, R) \in Nat
  BY <1>1, SumNat
<1>4. SumAt(f, S) = SumAt(f, T) + SumAt(f, R)
  BY <1>1, <1>2
<1> DEFINE t == SumAt(f, T)
           r == SumAt(f, R)
<1> HIDE DEF t, r
<1>5. t <= t + r
  BY <1>3 DEF t, r
<1> QED BY <1>4, <1>5 DEF t, r

\* The sum over the image of a set under an injection.
LEMMA SumImage ==
  ASSUME NEW S, IsFiniteSet(S), NEW b, \A x, y \in S : b[x] = b[y] => x = y,
         NEW f, NEW g, \A x \in S : f[x] \in Int /\ f[x] = g[b[x]]
  PROVE  /\ IsFiniteSet({b[x] : x \in S})
         /\ SumAt(g, {b[x] : x \in S}) = SumAt(f, S)
<1> DEFINE P == {s \in SUBSET S : /\ IsFiniteSet({b[x] : x \in s})
                                  /\ SumAt(g, {b[x] : x \in s}) = SumAt(f, s)}
<1>1. {} \in P
  <2>1. {b[x] : x \in {}} = {}
    OBVIOUS
  <2> QED BY <2>1, SumEmpty, FS_EmptySet
<1>2. ASSUME NEW T \in P, NEW x \in S \ T PROVE T \cup {x} \in P
  <2> DEFINE I == {b[y] : y \in T}
  <2>1. IsFiniteSet(T) /\ T \subseteq S
    BY FS_Subset
  <2>2. {b[y] : y \in T \cup {x}} = I \cup {b[x]}
    OBVIOUS
  <2>3. b[x] \notin I /\ \A y \in I \cup {b[x]} : g[y] \in Int
    BY <2>1
  <2>4. IsFiniteSet(I) /\ SumAt(g, I) = SumAt(f, T)
    OBVIOUS
  <2> HIDE DEF I
  <2>5. IsFiniteSet(I \cup {b[x]}) /\ SumAt(g, I \cup {b[x]}) = g[b[x]] + SumAt(g, I)
    BY <2>3, <2>4, SumAdd, FS_AddElement
  <2>6. SumAt(f, T \cup {x}) = f[x] + SumAt(f, T)
    BY <2>1, SumAdd
  <2>7. SumAt(g, I \cup {b[x]}) = SumAt(f, T \cup {x})
    BY <2>4, <2>5, <2>6
  <2> QED BY <2>1, <2>2, <2>5, <2>7
<1>3. P \in SUBSET (SUBSET S)
  OBVIOUS
<1> HIDE DEF P
<1>4. S \in P
  BY <1>1, <1>2, <1>3, SetInduction
<1> QED BY <1>4 DEF P
\* Places whose value is 0 may be left out.
LEMMA SumSupport ==
  ASSUME NEW f, NEW S, IsFiniteSet(S), \A x \in S : f[x] \in Int,
         NEW T \in SUBSET S, \A x \in S \ T : f[x] = 0
  PROVE  SumAt(f, S) = SumAt(f, T)
<1> DEFINE R == S \ T
           P == {s \in SUBSET R : SumAt(f, s) = 0}
<1>1. IsFiniteSet(T) /\ IsFiniteSet(R) /\ T \cap R = {} /\ T \cup R = S
  BY FS_Subset, FS_Difference
<1>2. {} \in P
  BY SumEmpty
<1>3. ASSUME NEW U \in P, NEW x \in R \ U PROVE U \cup {x} \in P
  <2>1. IsFiniteSet(U) /\ U \subseteq R
    BY <1>1, FS_Subset
  <2>2. SumAt(f, U \cup {x}) = f[x] + SumAt(f, U)
    BY <2>1, SumAdd
  <2> QED BY <2>1, <2>2
<1>4. P \in SUBSET (SUBSET R)
  OBVIOUS
<1> HIDE DEF P
<1>5. R \in P
  BY <1>1, <1>2, <1>3, <1>4, SetInduction
<1>6. SumAt(f, R) = 0
  BY <1>5 DEF P
<1>7. \A x \in T \cup R : f[x] \in Int
  BY <1>1
<1> HIDE DEF R
<1>8. SumAt(f, T \cup R) = SumAt(f, T) + SumAt(f, R)
  BY <1>1, <1>7, SumUnion
<1>9. SumAt(f, T) \in Int
  BY <1>1, <1>7, SumInt
<1>10. SumAt(f, T \cup R) = SumAt(f, S)
  BY <1>1
<1> DEFINE a == SumAt(f, T)
<1>11. a \in Int /\ SumAt(f, S) = a + 0
  BY <1>6, <1>8, <1>9, <1>10
<1> HIDE DEF a
<1>12. SumAt(f, S) = a
  BY <1>11
<1> QED BY <1>12 DEF a

\* The sum of two columns.
LEMMA SumPlus ==
  ASSUME NEW S, IsFiniteSet(S), NEW f, NEW g, NEW h,
         \A x \in S : f[x] \in Int /\ g[x] \in Int /\ h[x] = f[x] + g[x]
  PROVE  SumAt(h, S) = SumAt(f, S) + SumAt(g, S)
<1> DEFINE P == {s \in SUBSET S : SumAt(h, s) = SumAt(f, s) + SumAt(g, s)}
<1>1. {} \in P
  BY SumEmpty
<1>2. ASSUME NEW T \in P, NEW x \in S \ T PROVE T \cup {x} \in P
  <2>1. IsFiniteSet(T) /\ T \subseteq S
    BY FS_Subset
  <2> DEFINE a == SumAt(f, T)
             b == SumAt(g, T)
             d == SumAt(h, T)
  <2>2. SumAt(f, T \cup {x}) = f[x] + a
    BY <2>1, SumAdd
  <2>3. SumAt(g, T \cup {x}) = g[x] + b
    BY <2>1, SumAdd
  <2>4. SumAt(h, T \cup {x}) = h[x] + d
    BY <2>1, SumAdd
  <2>5. a \in Int /\ b \in Int /\ d = a + b
    BY <2>1, SumInt
  <2>6. f[x] \in Int /\ g[x] \in Int /\ h[x] = f[x] + g[x]
    OBVIOUS
  <2> HIDE DEF a, b, d
  <2>7. h[x] + d = (f[x] + a) + (g[x] + b)
    BY <2>5, <2>6
  <2> QED BY <2>1, <2>2, <2>3, <2>4, <2>7
<1>3. P \in SUBSET (SUBSET S)
  OBVIOUS
<1> HIDE DEF P
<1>4. S \in P
  BY <1>1, <1>2, <1>3, SetInduction
<1> QED BY <1>4 DEF P

\* A sum of natural numbers is positive when one of them is.
LEMMA SumPositive ==
  ASSUME NEW f, NEW S, IsFiniteSet(S), \A x \in S : f[x] \in Nat
  PROVE  SumAt(f, S) > 0 <=> \E x \in S : f[x] > 0
<1>1. ASSUME NEW x \in S, f[x] > 0 PROVE SumAt(f, S) > 0
  <2> DEFINE a == SumAt(f, S \ {x})
  <2>1. IsFiniteSet(S \ {x})
    BY FS_RemoveElement
  <2>2. a \in Nat
    <3> DEFINE T == S \ {x}
    <3>1. \A y \in T : f[y] \in Nat
      OBVIOUS
    <3> HIDE DEF T
    <3>2. SumAt(f, T) \in Nat
      BY <2>1, <3>1, SumNat DEF T
    <3> QED BY <3>2 DEF T
  <2>3. SumAt(f, S) = f[x] + a
    BY SumRemove
  <2> HIDE DEF a
  <2>4. f[x] + a > 0
    BY <1>1, <2>2
  <2> QED BY <2>3, <2>4
<1>2. ASSUME \A x \in S : ~ (f[x] > 0) PROVE SumAt(f, S) = 0
  <2>1. \A x \in S : f[x] \in Int /\ f[x] = 0
    BY <1>2
  <2>2. ASSUME NEW T \in SUBSET S PROVE SumAt(f, S) = SumAt(f, T)
    <3>1. \A x \in S : f[x] \in Int
      BY <2>1
    <3>2. \A x \in S \ T : f[x] = 0
      BY <2>1
    <3> QED BY <3>1, <3>2, SumSupport
  <2>3. SumAt(f, S) = SumAt(f, {})
    BY <2>2
  <2> QED BY <2>3, SumEmpty
<1>3. 0 > 0 <=> FALSE
  OBVIOUS
<1> QED BY <1>1, <1>2, <1>3

\* What holds place by place holds of the sums.
LEMMA SumAtMost ==
  ASSUME NEW S, IsFiniteSet(S), NEW f, NEW g,
         \A x \in S : f[x] \in Int /\ g[x] \in Int /\ f[x] <= g[x]
  PROVE  SumAt(f, S) <= SumAt(g, S)
<1> DEFINE P == {s \in SUBSET S : SumAt(f, s) <= SumAt(g, s)}
<1>1. {} \in P
  BY SumEmpty
<1>2. ASSUME NEW T \in P, NEW x \in S \ T PROVE T \cup {x} \in P
  <2>1. IsFiniteSet(T) /\ T \subseteq S
    BY FS_Subset
  <2> DEFINE a == SumAt(f, T)
             b == SumAt(g, T)
  <2>2. SumAt(f, T \cup {x}) = f[x] + a
    BY <2>1, SumAdd
  <2>3. SumAt(g, T \cup {x}) = g[x] + b
    BY <2>1, SumAdd
  <2>4. a \in Int /\ b \in Int /\ a <= b
    BY <2>1, SumInt
  <2>5. f[x] \in Int /\ g[x] \in Int /\ f[x] <= g[x]
    OBVIOUS
  <2> HIDE DEF a, b
  <2>6. f[x] + a <= g[x] + b
    BY <2>4, <2>5
  <2> QED BY <2>1, <2>2, <2>3, <2>6
<1>3. P \in SUBSET (SUBSET S)
  OBVIOUS
<1> HIDE DEF P
<1>4. S \in P
  BY <1>1, <1>2, <1>3, SetInduction
<1> QED BY <1>4 DEF P

\* Counting is adding up ones.
LEMMA CountIsSum ==
  ASSUME NEW S, IsFiniteSet(S), NEW f, \A x \in S : f[x] = 1
  PROVE  SumAt(f, S) = Cardinality(S)
<1> DEFINE P == {s \in SUBSET S : SumAt(f, s) = Cardinality(s)}
<1>1. {} \in P
  BY SumEmpty, FS_EmptySet
<1>2. ASSUME NEW T \in P, NEW x \in S \ T PROVE T \cup {x} \in P
  <2>1. IsFiniteSet(T) /\ T \subseteq S
    BY FS_Subset
  <2>2. SumAt(f, T \cup {x}) = f[x] + SumAt(f, T)
    BY <2>1, SumAdd
  <2>3. Cardinality(T \cup {x}) = Cardinality(T) + 1 /\ Cardinality(T) \in Nat
    BY <2>1, FS_AddElement, FS_CardinalityType
  <2> DEFINE a == Cardinality(T)
  <2>4. a \in Nat /\ SumAt(f, T) = a /\ f[x] = 1
    BY <2>3
  <2> HIDE DEF a
  <2>5. f[x] + a = a + 1
    BY <2>4
  <2> QED BY <2>1, <2>2, <2>3, <2>4, <2>5 DEF a
<1>3. P \in SUBSET (SUBSET S)
  OBVIOUS
<1> HIDE DEF P
<1>4. S \in P
  BY <1>1, <1>2, <1>3, SetInduction
<1> QED BY <1>4 DEF P

-----------------------------------------------------------------------------
(* Sums of sums. *)

LEMMA SumZeros ==
  ASSUME NEW f, NEW S, IsFiniteSet(S), \A x \in S : f[x] = 0
  PROVE  SumAt(f, S) = 0
<1>1. ASSUME NEW T \in SUBSET S PROVE SumAt(f, S) = SumAt(f, T)
  <2>1. \A x \in S : f[x] \in Int
    OBVIOUS
  <2>2. \A x \in S \ T : f[x] = 0
    OBVIOUS
  <2> QED BY <2>1, <2>2, SumSupport
<1>2. SumAt(f, S) = SumAt(f, {})
  BY <1>1
<1> QED BY <1>2, SumEmpty

LEMMA SumOne == ASSUME NEW f, NEW x, f[x] \in Int PROVE SumAt(f, {x}) = f[x]
<1> DEFINE S == {x}
<1>1. x \in S /\ S \ {x} = {} /\ \A y \in S : f[y] \in Int
  OBVIOUS
<1>2. IsFiniteSet(S)
  BY FS_Singleton
<1> HIDE DEF S
<1>3. SumAt(f, S) = f[x] + SumAt(f, S \ {x})
  BY <1>1, <1>2, SumRemove
<1> QED BY <1>1, <1>3, SumEmpty DEF S

\* The pairs of an element of T and one of its set.
Pairs(D, T) == UNION {{<<n, i>> : i \in D[n]} : n \in T}

\* f is on the pairs what the columns C are, and g their sums.
Grouped(T, D, C, f, g) ==
  /\ \A n \in T : IsFiniteSet(D[n])
  /\ \A n \in T : \A i \in D[n] : C[n][i] \in Int /\ f[<<n, i>>] = C[n][i]
  /\ \A n \in T : g[n] = SumAt(C[n], D[n])

\* The sum over pairs is that of the sums.
LEMMA SumGrouped ==
  ASSUME NEW T, IsFiniteSet(T), NEW D, NEW C, NEW f, NEW g, Grouped(T, D, C, f, g)
  PROVE  IsFiniteSet(Pairs(D, T)) /\ SumAt(f, Pairs(D, T)) = SumAt(g, T)
<1> SUFFICES ASSUME \A n \in T : IsFiniteSet(D[n]),
                    \A n \in T : \A i \in D[n] : C[n][i] \in Int /\ f[<<n, i>>] = C[n][i],
                    \A n \in T : g[n] = SumAt(C[n], D[n])
             PROVE  IsFiniteSet(Pairs(D, T)) /\ SumAt(f, Pairs(D, T)) = SumAt(g, T)
  BY DEF Grouped
<1> DEFINE P == {s \in SUBSET T : /\ IsFiniteSet(Pairs(D, s))
                                  /\ SumAt(f, Pairs(D, s)) = SumAt(g, s)}
<1>1. {} \in P
  <2>1. Pairs(D, {}) = {}
    BY DEF Pairs
  <2> QED BY <2>1, SumEmpty, FS_EmptySet
<1>2. ASSUME NEW s \in P, NEW x \in T \ s PROVE s \cup {x} \in P
  <2> DEFINE own == {<<x, i>> : i \in D[x]}
             col == C[x]
             b   == [i \in D[x] |-> <<x, i>>]
             old == Pairs(D, s)
  <2>1. Pairs(D, s \cup {x}) = old \cup own
    BY DEF Pairs
  <2>2. old \cap own = {}
    BY DEF Pairs
  <2>3. IsFiniteSet(s) /\ s \subseteq T /\ IsFiniteSet(old) /\ SumAt(f, old) = SumAt(g, s)
    BY FS_Subset
  <2>4. \A p \in old \cup own : f[p] \in Int
    BY <2>3 DEF Pairs
  <2>5. own = {b[i] : i \in D[x]} /\ g[x] = SumAt(col, D[x]) /\ IsFiniteSet(D[x])
    OBVIOUS
  <2>6. \A i, j \in D[x] : b[i] = b[j] => i = j
    OBVIOUS
  <2>7. \A i \in D[x] : col[i] \in Int /\ col[i] = f[b[i]]
    OBVIOUS
  <2> HIDE DEF own, col, b, old
  <2>8. IsFiniteSet({b[i] : i \in D[x]}) /\ SumAt(f, {b[i] : i \in D[x]}) = SumAt(col, D[x])
    BY ONLY <2>5, <2>6, <2>7, SumImage
  <2>9. IsFiniteSet(own) /\ SumAt(f, own) = g[x]
    BY <2>5, <2>8
  <2>10. IsFiniteSet(old \cup own) /\ SumAt(f, old \cup own) = SumAt(f, old) + SumAt(f, own)
    <3>1. IsFiniteSet(old) /\ IsFiniteSet(own) /\ old \cap own = {}
      BY <2>2, <2>3, <2>9
    <3>2. IsFiniteSet(old \cup own)
      BY <3>1, FS_Union
    <3>3. SumAt(f, old \cup own) = SumAt(f, old) + SumAt(f, own)
      BY ONLY <3>1, <2>4, SumUnion
    <3> QED BY <3>2, <3>3
  <2>11. \A y \in T : g[y] \in Int
    <3> SUFFICES ASSUME NEW y \in T PROVE g[y] \in Int
      OBVIOUS
    <3> DEFINE c == C[y]
    <3>1. g[y] = SumAt(c, D[y]) /\ IsFiniteSet(D[y]) /\ \A i \in D[y] : c[i] \in Int
      OBVIOUS
    <3> HIDE DEF c
    <3> QED BY <3>1, SumInt
  <2>12. SumAt(g, s \cup {x}) = g[x] + SumAt(g, s)
    BY <2>3, <2>11, SumAdd
  <2>13. g[x] \in Int /\ SumAt(g, s) \in Int
    BY <2>3, <2>11, SumInt
  <2> DEFINE a == SumAt(g, s)
  <2>14. SumAt(f, old \cup own) = a + g[x] /\ SumAt(g, s \cup {x}) = g[x] + a /\ a \in Int
    BY <2>3, <2>9, <2>10, <2>12, <2>13
  <2> HIDE DEF a
  <2>15. SumAt(f, old \cup own) = SumAt(g, s \cup {x})
    BY <2>13, <2>14
  <2> QED BY <2>1, <2>3, <2>10, <2>15
<1>3. P \in SUBSET (SUBSET T)
  OBVIOUS
<1> HIDE DEF P
<1>4. T \in P
  BY <1>1, <1>2, <1>3, SetInduction
<1> QED BY <1>4 DEF P

\* The number of pairs is the sum of the numbers.
LEMMA CountGrouped ==
  ASSUME NEW T, IsFiniteSet(T), NEW D, \A n \in T : IsFiniteSet(D[n]),
         NEW g, \A n \in T : g[n] = Cardinality(D[n])
  PROVE  IsFiniteSet(Pairs(D, T)) /\ Cardinality(Pairs(D, T)) = SumAt(g, T)
<1> DEFINE Q == Pairs(D, T)
           f == [p \in Q |-> 1]
           C == [n \in T |-> [i \in D[n] |-> 1]]
<1>1. \A n \in T : \A i \in D[n] : C[n][i] \in Int /\ f[<<n, i>>] = C[n][i]
  BY DEF Pairs
<1>2. \A p \in Q : f[p] = 1
  OBVIOUS
<1>3. ASSUME NEW n \in T PROVE g[n] = SumAt(C[n], D[n])
  <2> DEFINE c == C[n]
  <2>1. IsFiniteSet(D[n]) /\ \A i \in D[n] : c[i] = 1
    OBVIOUS
  <2> HIDE DEF c
  <2>2. SumAt(c, D[n]) = Cardinality(D[n])
    BY <2>1, CountIsSum
  <2> QED BY <2>2 DEF c
<1> HIDE DEF f, C
<1>4. IsFiniteSet(Pairs(D, T)) /\ SumAt(f, Pairs(D, T)) = SumAt(g, T)
  <2>1. Grouped(T, D, C, f, g)
    BY <1>1, <1>3 DEF Grouped
  <2> QED BY <2>1, SumGrouped
<1> HIDE DEF Q
<1>5. SumAt(f, Q) = Cardinality(Q)
  BY <1>2, <1>4, CountIsSum DEF Q
<1> QED BY <1>4, <1>5 DEF Q

\* Rows and columns may be added up in either order.
LEMMA SumSwap ==
  ASSUME NEW S, IsFiniteSet(S), NEW T, IsFiniteSet(T),
         NEW F, \A n \in S : \A k \in T : F[n][k] \in Int,
         NEW r, \A n \in S : r[n] = SumAt(F[n], T),
         NEW G, \A n \in S : \A k \in T : G[k][n] = F[n][k],
         NEW q, \A k \in T : q[k] = SumAt(G[k], S)
  PROVE  SumAt(r, S) = SumAt(q, T)
<1> DEFINE w(s) == [k \in T |-> SumAt(G[k], s)]
           P == {s \in SUBSET S : SumAt(r, s) = SumAt(w(s), T)}
<1>1. {} \in P
  <2> DEFINE z == w({})
  <2>1. \A k \in T : z[k] = 0
    BY SumEmpty
  <2> HIDE DEF z
  <2>2. SumAt(z, T) = 0
    BY <2>1, SumZeros
  <2> QED BY <2>2, SumEmpty DEF z
<1>2. ASSUME NEW s \in P, NEW x \in S \ s PROVE s \cup {x} \in P
  <2> DEFINE new == w(s \cup {x})
             old == w(s)
             own == F[x]
  <2>1. IsFiniteSet(s) /\ s \subseteq S
    BY FS_Subset
  <2>2. ASSUME NEW k \in T PROVE old[k] \in Int /\ own[k] \in Int /\ new[k] = old[k] + own[k]
    <3> DEFINE g == G[k]
               a == SumAt(g, s)
    <3>1. \A y \in s \cup {x} : g[y] \in Int
      BY <2>1
    <3>2. own[k] = g[x] /\ g[x] \in Int
      OBVIOUS
    <3>3. old[k] = SumAt(g, s) /\ new[k] = SumAt(g, s \cup {x})
      OBVIOUS
    <3> HIDE DEF g, old, new, own
    <3>4. a \in Int /\ SumAt(g, s \cup {x}) = g[x] + a
      BY <2>1, <3>1, SumInt, SumAdd
    <3>5. new[k] = g[x] + a /\ old[k] = a
      BY <3>3, <3>4
    <3> HIDE DEF a
    <3> QED BY <3>2, <3>4, <3>5
  <2> HIDE DEF old, new, own
  <2>3. SumAt(new, T) = SumAt(old, T) + SumAt(own, T)
    BY <2>2, SumPlus
  <2>4. \A n \in S : r[n] \in Int
    <3> SUFFICES ASSUME NEW n \in S PROVE r[n] \in Int
      OBVIOUS
    <3> DEFINE f == F[n]
    <3>1. r[n] = SumAt(f, T) /\ \A k \in T : f[k] \in Int
      OBVIOUS
    <3> HIDE DEF f
    <3> QED BY <3>1, SumInt
  <2>5. SumAt(r, s \cup {x}) = r[x] + SumAt(r, s)
    BY <2>1, <2>4, SumAdd
  <2>6. r[x] = SumAt(own, T) /\ SumAt(r, s) = SumAt(old, T)
    BY DEF own, old
  <2>7. SumAt(own, T) \in Int /\ SumAt(old, T) \in Int
    BY <2>2, SumInt
  <2> DEFINE a == SumAt(own, T)
             b == SumAt(old, T)
  <2>8. SumAt(new, T) = b + a /\ SumAt(r, s \cup {x}) = a + b /\ a \in Int /\ b \in Int
    BY <2>3, <2>5, <2>6, <2>7
  <2> HIDE DEF a, b
  <2>9. SumAt(new, T) = SumAt(r, s \cup {x})
    BY <2>8
  <2> QED BY <2>1, <2>9 DEF new
<1>3. P \in SUBSET (SUBSET S)
  OBVIOUS
<1> HIDE DEF P
<1>4. S \in P
  BY <1>1, <1>2, <1>3, SetInduction
<1>5. SumAt(r, S) = SumAt(w(S), T)
  BY <1>4 DEF P
<1> DEFINE all == w(S)
<1>6. \A k \in T : all[k] = q[k]
  OBVIOUS
<1>7. \A k \in T : q[k] \in Int
  <2> SUFFICES ASSUME NEW k \in T PROVE q[k] \in Int
    OBVIOUS
  <2> DEFINE g == G[k]
  <2>1. q[k] = SumAt(g, S) /\ \A n \in S : g[n] \in Int
    OBVIOUS
  <2> HIDE DEF g
  <2> QED BY <2>1, SumInt
<1> HIDE DEF all
<1>8. SumAt(all, T) = SumAt(q, T)
  BY <1>6, <1>7, SumSame
<1> QED BY <1>5, <1>8 DEF all

\* A factor may be taken out of a sum.
LEMMA SumScale ==
  ASSUME NEW S, IsFiniteSet(S), NEW m \in Int, NEW g, NEW h,
         \A x \in S : g[x] \in Int /\ h[x] = m * g[x]
  PROVE  SumAt(h, S) = m * SumAt(g, S)
<1> DEFINE P == {s \in SUBSET S : SumAt(h, s) = m * SumAt(g, s)}
<1>1. {} \in P
  BY SumEmpty
<1>2. ASSUME NEW T \in P, NEW x \in S \ T PROVE T \cup {x} \in P
  <2>1. IsFiniteSet(T) /\ T \subseteq S
    BY FS_Subset
  <2> DEFINE a == SumAt(g, T)
             b == SumAt(h, T)
  <2>2. \A y \in T \cup {x} : h[y] \in Int /\ g[y] \in Int
    BY <2>1
  <2>3. SumAt(g, T \cup {x}) = g[x] + a
    BY <2>1, <2>2, SumAdd
  <2>4. SumAt(h, T \cup {x}) = h[x] + b
    BY <2>1, <2>2, SumAdd
  <2>5. a \in Int /\ b = m * a
    BY <2>1, <2>2, SumInt
  <2>6. g[x] \in Int /\ h[x] = m * g[x]
    OBVIOUS
  <2> HIDE DEF a, b
  <2>7. h[x] + b = m * (g[x] + a)
    BY <2>5, <2>6
  <2> QED BY <2>1, <2>3, <2>4, <2>7
<1>3. P \in SUBSET (SUBSET S)
  OBVIOUS
<1> HIDE DEF P
<1>4. S \in P
  BY <1>1, <1>2, <1>3, SetInduction
<1> QED BY <1>4 DEF P

-----------------------------------------------------------------------------
(* The highest and the lowest of a finite set. *)

LEMMA HighestIn ==
  ASSUME NEW S \in SUBSET Int, IsFiniteSet(S), S # {}
  PROVE  Max(S) \in S /\ \A x \in S : x <= Max(S)
<1> DEFINE P == {T \in SUBSET S : T # {} => \E m \in T : \A x \in T : x <= m}
<1>1. {} \in P
  OBVIOUS
<1>2. ASSUME NEW T \in P, NEW y \in S \ T PROVE T \cup {y} \in P
  <2>1. CASE T = {}
    BY <2>1
  <2>2. CASE T # {}
    <3>1. PICK m \in T : \A x \in T : x <= m
      BY <2>2
    <3>2. CASE y <= m
      BY <3>1, <3>2
    <3>3. CASE ~ (y <= m)
      <4>1. \A x \in T \cup {y} : x <= y
        BY <3>1, <3>3
      <4> QED BY <4>1
    <3> QED BY <3>2, <3>3
  <2> QED BY <2>1, <2>2
<1>3. P \in SUBSET (SUBSET S)
  OBVIOUS
<1> HIDE DEF P
<1>4. S \in P
  BY <1>1, <1>2, <1>3, SetInduction
<1>5. \E m \in S : \A x \in S : m >= x
  <2>1. \E m \in S : \A x \in S : x <= m
    BY <1>4 DEF P
  <2> QED BY <2>1
<1>6. Max(S) \in S /\ \A x \in S : Max(S) >= x
  BY <1>5 DEF Max
<1> QED BY <1>6

LEMMA LowestIn ==
  ASSUME NEW S \in SUBSET Int, IsFiniteSet(S), S # {}
  PROVE  Min(S) \in S /\ \A x \in S : Min(S) <= x
<1> DEFINE P == {T \in SUBSET S : T # {} => \E m \in T : \A x \in T : m <= x}
<1>1. {} \in P
  OBVIOUS
<1>2. ASSUME NEW T \in P, NEW y \in S \ T PROVE T \cup {y} \in P
  <2>1. CASE T = {}
    BY <2>1
  <2>2. CASE T # {}
    <3>1. PICK m \in T : \A x \in T : m <= x
      BY <2>2
    <3>2. CASE m <= y
      BY <3>1, <3>2
    <3>3. CASE ~ (m <= y)
      <4>1. \A x \in T \cup {y} : y <= x
        BY <3>1, <3>3
      <4> QED BY <4>1
    <3> QED BY <3>2, <3>3
  <2> QED BY <2>1, <2>2
<1>3. P \in SUBSET (SUBSET S)
  OBVIOUS
<1> HIDE DEF P
<1>4. S \in P
  BY <1>1, <1>2, <1>3, SetInduction
<1>5. \E m \in S : \A x \in S : m <= x
  BY <1>4 DEF P
<1> QED BY <1>5 DEF Min

\* A set of places that has the first and, after each, the next, has them all.
LEMMA IntervalInduction ==
  ASSUME NEW N \in Nat, NEW P, N # 0 => 1 \in P,
         \A i \in 1 .. N : i \in P /\ i + 1 \in 1 .. N => i + 1 \in P
  PROVE  \A i \in 1 .. N : i \in P
<1> DEFINE bad == (1 .. N) \ P
<1> SUFFICES ASSUME bad # {} PROVE FALSE
  OBVIOUS
<1>1. bad \in SUBSET Int /\ IsFiniteSet(bad)
  <2>1. bad \in SUBSET (1 .. N) /\ bad \in SUBSET Int
    OBVIOUS
  <2>2. IsFiniteSet(1 .. N)
    BY FS_Interval
  <2> DEFINE I == 1 .. N
  <2> HIDE DEF bad, I
  <2>3. IsFiniteSet(bad)
    BY <2>1, <2>2, FS_Subset DEF I
  <2> QED BY <2>1, <2>3
<1> HIDE DEF bad
<1>2. Min(bad) \in bad /\ \A x \in bad : Min(bad) <= x
  BY <1>1, LowestIn
<1> DEFINE m == Min(bad)
<1> HIDE DEF m
<1>3. m \in 1 .. N /\ m \notin P /\ \A x \in bad : m <= x
  BY <1>2 DEF bad, m
<1>4. CASE m = 1
  BY <1>3, <1>4
<1>5. CASE m # 1
  <2>1. m - 1 \in 1 .. N /\ m = (m - 1) + 1 /\ ~ (m <= m - 1)
    BY <1>3, <1>5
  <2>2. m - 1 \in P
    BY <1>3, <2>1 DEF bad
  <2> QED BY <1>3, <2>1, <2>2
<1> QED BY <1>4, <1>5

\* What is the highest of a set, or the lowest, is so called.
LEMMA HighestIs ==
  ASSUME NEW S \in SUBSET Int, NEW m \in S, \A x \in S : x <= m PROVE Max(S) = m
<1>1. Max(S) \in S /\ \A x \in S : Max(S) >= x
  <2>1. \E k \in S : \A x \in S : k >= x
    <3>1. \A x \in S : m >= x
      OBVIOUS
    <3> QED BY <3>1
  <2> QED BY <2>1 DEF Max
<1> DEFINE k == Max(S)
<1>2. k \in S /\ k >= m
  BY <1>1
<1> HIDE DEF k
<1>3. k = m
  BY <1>2
<1> QED BY <1>3 DEF k

LEMMA LowestIs ==
  ASSUME NEW S \in SUBSET Int, NEW m \in S, \A x \in S : m <= x PROVE Min(S) = m
<1>1. Min(S) \in S /\ \A x \in S : Min(S) <= x
  BY DEF Min
<1> DEFINE k == Min(S)
<1>2. k \in S /\ k <= m
  BY <1>1
<1> HIDE DEF k
<1>3. k = m
  BY <1>2
<1> QED BY <1>3 DEF k

LEMMA ImageFinite ==
  ASSUME NEW f, NEW S, IsFiniteSet(S) PROVE IsFiniteSet({f[x] : x \in S})
<1> DEFINE I == {f[x] : x \in S}
           g == [x \in S |-> f[x]]
<1>1. g \in Surjection(S, I)
  BY DEF Surjection
<1> HIDE DEF I, g
<1> QED BY <1>1, FS_Surjection DEF I
-----------------------------------------------------------------------------
(* Quotients. *)

LEMMA QuotientNat ==
  ASSUME NEW a \in Nat, NEW b \in Nat, b # 0 PROVE a \div b \in Nat
OBVIOUS

LEMMA PercentNat ==
  ASSUME NEW part \in Nat, NEW whole \in Nat PROVE Percent(part, whole) \in Nat
<1>1. 100 * part \in Nat
  OBVIOUS
<1>2. whole # 0 => (100 * part) \div whole \in Nat
  BY <1>1, QuotientNat
<1> QED BY <1>2 DEF Percent

LEMMA AverageNat ==
  ASSUME NEW sum \in Nat, NEW count \in Nat PROVE Average(sum, count) \in Nat
BY QuotientNat DEF Average

LEMMA QuotientBounds ==
  ASSUME NEW a \in Nat, NEW b \in Nat, b # 0, NEW m \in Nat
  PROVE  /\ m * b <= a => m <= a \div b
         /\ a < (m + 1) * b => a \div b <= m
<1> DEFINE q == a \div b
           r == a % b
<1>1. q \in Nat /\ r \in Nat /\ r < b /\ a = b * q + r
  OBVIOUS
<1> HIDE DEF q, r
<1>2. m * b <= a => m <= q
  <2> SUFFICES ASSUME m * b <= a, q + 1 <= m PROVE FALSE
    BY <1>1
  <2>1. (q + 1) * b <= m * b
    BY <1>1
  <2>2. (q + 1) * b = b * q + b
    BY <1>1
  <2> QED BY <1>1, <2>1, <2>2
<1>3. a < (m + 1) * b => q <= m
  <2> SUFFICES ASSUME a < (m + 1) * b, m + 1 <= q PROVE FALSE
    BY <1>1
  <2>1. (m + 1) * b <= q * b
    BY <1>1
  <2>2. q * b = b * q
    BY <1>1
  <2> QED BY <1>1, <2>1, <2>2
<1> QED BY <1>2, <1>3 DEF q

\* A percentage does not grow with the whole.
LEMMA PercentOfMore ==
  ASSUME NEW a \in Nat, NEW b \in Nat, NEW x \in Nat, b > 0
  PROVE  Percent(a, b + x) <= Percent(a, b)
<1> DEFINE n == 100 * a
           w == b + x
           q == n \div b
<1>1. n \in Nat /\ w \in Nat /\ w # 0 /\ b # 0 /\ b <= w
  OBVIOUS
<1>2. Percent(a, b) = q /\ Percent(a, w) = n \div w
  BY <1>1 DEF Percent
<1> HIDE DEF n
<1>3. q \in Nat /\ n < (q + 1) * b
  <2> DEFINE r == n % b
  <2>1. q \in Nat /\ r \in Nat /\ r < b /\ n = b * q + r
    BY <1>1
  <2> HIDE DEF q, r
  <2>2. (q + 1) * b = b * q + b
    BY <2>1
  <2> QED BY <2>1, <2>2
<1> HIDE DEF q, w
<1>4. (q + 1) * b <= (q + 1) * w
  BY <1>1, <1>3
<1>5. n < (q + 1) * w
  BY <1>1, <1>3, <1>4
<1>6. n \div w <= q
  BY <1>1, <1>3, <1>5, QuotientBounds
<1> QED BY <1>2, <1>6 DEF w

\* A percentage of at most 100 does not shrink when as much is added to the part
\* as to the whole.
LEMMA PercentOfFuller ==
  ASSUME NEW a \in Nat, NEW b \in Nat, NEW t \in Nat, a <= b
  PROVE  Percent(a, b) <= Percent(a + t, b + t)
<1>1. CASE b = 0
  <2>1. Percent(a, b) = 0 /\ Percent(a + t, b + t) \in Nat
    BY <1>1, PercentNat DEF Percent
  <2> QED BY <2>1
<1>2. CASE b # 0
  <2> DEFINE n == 100 * a
             w == b + t
             u == 100 * (a + t)
             q == n \div b
  <2>1. /\ n \in Nat /\ w \in Nat /\ u \in Nat /\ w # 0
        /\ n <= 100 * b /\ u = n + 100 * t /\ w = b + t
    BY <1>2
  <2>2. Percent(a, b) = q /\ Percent(a + t, w) = u \div w
    BY <1>2, <2>1 DEF Percent
  <2> HIDE DEF n, w, u
  <2>3. q \in Nat /\ q * b <= n
    <3> DEFINE r == n % b
    <3>1. q \in Nat /\ r \in Nat /\ n = b * q + r
      BY <1>2, <2>1
    <3> HIDE DEF q, r
    <3>2. q * b = b * q
      BY <3>1
    <3> QED BY <3>1, <3>2
  <2>4. q <= 100
    <3>1. n < 101 * b
      BY <1>2, <2>1
    <3> QED BY <1>2, <2>1, <3>1, QuotientBounds
  <2> HIDE DEF q
  <2>5. q * t <= 100 * t
    BY <2>3, <2>4
  <2>6. q * w = q * b + q * t
    BY <2>1, <2>3
  <2>7. q * w <= u
    BY <2>1, <2>3, <2>5, <2>6
  <2>8. q <= u \div w
    BY <2>1, <2>3, <2>7, QuotientBounds
  <2> QED BY <2>2, <2>8 DEF w
<1> QED BY <1>1, <1>2

\* The mean of all lies between the lowest and the highest mean of a group.
LEMMA MeanBetween ==
  ASSUME NEW S, IsFiniteSet(S), NEW s, NEW g, NEW m \in Nat, NEW M \in Nat,
         \A x \in S : s[x] \in Nat /\ g[x] \in Nat,
         \A x \in S : g[x] = 0 => s[x] = 0,
         \A x \in S : g[x] # 0 => m <= s[x] \div g[x] /\ s[x] \div g[x] <= M,
         SumAt(g, S) # 0
  PROVE  LET mean == SumAt(s, S) \div SumAt(g, S)
         IN  m <= mean /\ mean <= M
<1> DEFINE lo == [x \in S |-> m * g[x]]
           up == [x \in S |-> (M + 1) * g[x]]
           d  == [x \in S |-> up[x] - s[x]]
           a  == SumAt(s, S)
           b  == SumAt(g, S)
<1>1. ASSUME NEW x \in S
      PROVE  /\ lo[x] \in Int /\ up[x] \in Int /\ s[x] \in Int /\ g[x] \in Int
             /\ lo[x] = m * g[x] /\ up[x] = (M + 1) * g[x] /\ up[x] = s[x] + d[x]
             /\ lo[x] <= s[x] /\ d[x] \in Nat /\ (g[x] # 0 => d[x] > 0)
  <2> DEFINE n == s[x]
             k == g[x]
  <2>1. n \in Nat /\ k \in Nat /\ (k = 0 => n = 0)
    OBVIOUS
  <2>2. CASE k = 0
    BY <2>1, <2>2
  <2>3. CASE k # 0
    <3>1. m <= n \div k /\ n \div k <= M
      BY <2>3
    <3> HIDE DEF n, k
    <3> DEFINE q == n \div k
               r == n % k
    <3>2. q \in Nat /\ r \in Nat /\ r < k /\ n = k * q + r
      BY <2>1, <2>3
    <3> HIDE DEF q
    <3> HIDE DEF r
    <3>3. m * k <= q * k /\ q * k <= M * k
      BY <2>1, <3>1, <3>2 DEF q
    <3>4. (M + 1) * k = M * k + k /\ q * k = k * q
      BY <2>1, <3>2
    <3>5. m * k <= n /\ n < (M + 1) * k /\ m * k \in Int /\ (M + 1) * k \in Int
      BY <2>1, <3>2, <3>3, <3>4
    <3>6. lo[x] = m * k /\ up[x] = (M + 1) * k /\ d[x] = up[x] - n /\ s[x] = n /\ g[x] = k
      BY DEF n, k
    <3> HIDE DEF lo, up, d
    <3>7. d[x] \in Nat /\ d[x] > 0 /\ up[x] = n + d[x] /\ lo[x] <= n
      BY <2>1, <3>5, <3>6
    <3> QED BY <2>1, <3>5, <3>6, <3>7
  <2> QED BY <2>2, <2>3
<1>2. m * b <= a
  <2>1. SumAt(lo, S) <= SumAt(s, S)
    <3> HIDE DEF lo, up, d
    <3> QED BY <1>1, SumAtMost
  <2>2. SumAt(lo, S) = m * b
    <3> HIDE DEF lo, up, d
    <3>1. m \in Int /\ \A x \in S : g[x] \in Int /\ lo[x] = m * g[x]
      BY <1>1
    <3> QED BY ONLY <3>1, IsFiniteSet(S), SumScale
  <2> QED BY <2>1, <2>2
<1>3. a < (M + 1) * b
  <2> HIDE DEF lo, up, d
  <2>1. SumAt(up, S) = (M + 1) * b
    <3>1. \A x \in S : g[x] \in Int /\ up[x] = (M + 1) * g[x]
      BY <1>1
    <3>2. M + 1 \in Int
      OBVIOUS
    <3> QED BY <3>1, <3>2, SumScale
  <2>2. SumAt(up, S) = SumAt(s, S) + SumAt(d, S)
    <3>1. \A x \in S : s[x] \in Int /\ d[x] \in Int /\ up[x] = s[x] + d[x]
      BY <1>1
    <3> QED BY <3>1, SumPlus
  <2>3. \E x \in S : g[x] # 0
    <3> SUFFICES ASSUME \A x \in S : g[x] = 0 PROVE FALSE
      OBVIOUS
    <3> QED BY SumZeros
  <2>4. SumAt(d, S) > 0
    BY <1>1, <2>3, SumPositive
  <2>5. SumAt(s, S) \in Int /\ SumAt(d, S) \in Int
    BY <1>1, SumInt
  <2> DEFINE e == SumAt(d, S)
  <2>6. SumAt(up, S) = a + e /\ a \in Int /\ e \in Int /\ e > 0
    BY <2>2, <2>4, <2>5
  <2> HIDE DEF a, b, e
  <2>7. a < a + e
    BY <2>6
  <2> QED BY <2>1, <2>6, <2>7
<1>4. a \in Nat /\ b \in Nat /\ b # 0
  BY SumNat
<1> HIDE DEF a, b
<1>5. m <= a \div b /\ a \div b <= M
  BY <1>2, <1>3, <1>4, QuotientBounds
<1> QED BY <1>5 DEF a, b
=============================================================================
