----------------------------- MODULE FiniteSums -----------------------------
(***************************************************************************)
(* Facts about SumFunctionOnSet of the module Functions, for finite sets   *)
(* and integer values: the sum of the empty set, adding and removing an    *)
(* element, and changing one value.                                        *)
(*                                                                         *)
(* The induction is over the subsets of a finite set.  It is stated with a *)
(* set of good subsets in place of a predicate, so that a set              *)
(* comprehension instantiates it.                                          *)
(***************************************************************************)
EXTENDS Integers, Functions, FiniteSetTheorems, TLAPS

\* What holds of the empty set, and of a set whenever it holds of the set
\* without any one of its elements, holds of every finite set.
LEMMA SubsetInduction ==
  ASSUME NEW S, IsFiniteSet(S), NEW Good,
         {} \in Good,
         \A T \in SUBSET S : T # {} /\ (\A x \in T : T \ {x} \in Good) => T \in Good
  PROVE  \A T \in SUBSET S : T \in Good
  <1> DEFINE Bad == {T \in SUBSET S : T \notin Good}
  <1> SUFFICES ASSUME Bad # {} PROVE FALSE
    OBVIOUS
  <1>1. IsWellFoundedOn(StrictSubsetOrdering(S), SUBSET S)
    BY FS_StrictSubsetOrderingWellFounded, FS_FiniteSubsetsOfFinite
  <1>2. PICK T \in Bad : \A U \in Bad : ~ (<<U, T>> \in StrictSubsetOrdering(S))
    <2>1. Bad \subseteq SUBSET S
      OBVIOUS
    <2> HIDE DEF Bad
    <2> QED
      BY <1>1, <2>1, WFMin
  <1>3. \A x \in T : T \ {x} \in Good
    <2> SUFFICES ASSUME NEW x \in T, T \ {x} \notin Good PROVE FALSE
      OBVIOUS
    <2>1. T \ {x} \in Bad /\ T \in SUBSET S /\ T \ {x} # T
      OBVIOUS
    <2>2. <<T \ {x}, T>> \in StrictSubsetOrdering(S)
      BY <2>1 DEF StrictSubsetOrdering
    <2> QED
      BY <1>2, <2>1, <2>2
  <1> QED
    BY <1>2, <1>3

-----------------------------------------------------------------------------
(* The recursive function behind SumFunctionOnSet *)

Pick(s) == CHOOSE x \in s : TRUE

\* g sums up f over every subset of S.
SumsUp(g, f, S) ==
    g = [s \in SUBSET S |-> IF s = {} THEN 0 ELSE f[Pick(s)] + g[s \ {Pick(s)}]]

LEMMA SumIsChosen ==
  ASSUME NEW f, NEW S
  PROVE  SumFunctionOnSet(f, S) = (CHOOSE g : SumsUp(g, f, S))[S]
  BY DEF SumFunctionOnSet, FoldFunctionOnSet, MapThenFoldSet, SumsUp, Pick

LEMMA PickInSet == ASSUME NEW s, s # {} PROVE Pick(s) \in s
  BY DEF Pick

LEMMA SumsUpEmpty ==
  ASSUME NEW g, NEW f, NEW S, SumsUp(g, f, S)
  PROVE  g[{}] = 0
  BY DEF SumsUp

LEMMA SumsUpNonempty ==
  ASSUME NEW g, NEW f, NEW S, SumsUp(g, f, S), NEW s \in SUBSET S, s # {}
  PROVE  g[s] = f[Pick(s)] + g[s \ {Pick(s)}]
  BY DEF SumsUp

\* A smaller set is summed up by the same values.
LEMMA SumsUpRestrict ==
  ASSUME NEW g, NEW f, NEW S, SumsUp(g, f, S), NEW T \in SUBSET S
  PROVE  \E h : SumsUp(h, f, T)
  <1> DEFINE h == [s \in SUBSET T |-> g[s]]
  <1>1. ASSUME NEW s \in SUBSET T
        PROVE  g[s] = IF s = {} THEN 0 ELSE f[Pick(s)] + h[s \ {Pick(s)}]
    <2>1. s \in SUBSET S /\ s \ {Pick(s)} \in SUBSET T
      OBVIOUS
    <2>2. CASE s = {}
      BY <2>2, SumsUpEmpty
    <2>3. CASE s # {}
      <3>1. g[s] = f[Pick(s)] + g[s \ {Pick(s)}]
        BY <2>1, <2>3, SumsUpNonempty
      <3> QED
        BY <2>1, <2>3, <3>1
    <2> QED
      BY <2>2, <2>3
  <1>2. SumsUp(h, f, T)
    BY <1>1 DEF SumsUp
  <1> QED
    BY <1>2

\* Two functions that sum up equal values agree wherever both are defined.
LEMMA SumsUpAgree ==
  ASSUME NEW g, NEW f, NEW S, SumsUp(g, f, S),
         NEW h, NEW e, NEW T, SumsUp(h, e, T),
         NEW U, IsFiniteSet(U), U \subseteq S, U \subseteq T,
         \A x \in U : f[x] = e[x]
  PROVE  g[U] = h[U]
  <1> DEFINE Good == {W \in SUBSET U : g[W] = h[W]}
  <1>1. {} \in Good
    BY SumsUpEmpty
  <1>2. ASSUME NEW W \in SUBSET U, W # {}, \A x \in W : W \ {x} \in Good
        PROVE  W \in Good
    <2> DEFINE c == Pick(W)
    <2>1. c \in W
      BY <1>2, PickInSet
    <2>2. g[W \ {c}] = h[W \ {c}] /\ f[c] = e[c]
      BY <1>2, <2>1
    <2>3. g[W] = f[c] + g[W \ {c}] /\ h[W] = e[c] + h[W \ {c}]
      BY <1>2, SumsUpNonempty
    <2> HIDE DEF c
    <2> QED
      BY <2>2, <2>3
  <1> HIDE DEF Good
  <1>3. \A W \in SUBSET U : W \in Good
    BY <1>1, <1>2, SubsetInduction
  <1> USE DEF Good
  <1> QED
    BY <1>3

\* The recursion is well founded on a finite set: there is such a function.
LEMMA SumsUpExists ==
  ASSUME NEW f, NEW S, IsFiniteSet(S)
  PROVE  \E g : SumsUp(g, f, S)
  <1> DEFINE Good == {T \in SUBSET S : \E g : SumsUp(g, f, T)}
  <1>1. {} \in Good
    <2> DEFINE g == [s \in SUBSET {} |-> 0]
    <2>1. SumsUp(g, f, {})
      BY DEF SumsUp
    <2> QED
      BY <2>1
  <1>2. ASSUME NEW T \in SUBSET S, T # {}, \A x \in T : T \ {x} \in Good
        PROVE  T \in Good
    <2> DEFINE H(s) == CHOOSE h : SumsUp(h, f, s)
               V(s) == H(s)[s]
    <2>1. ASSUME NEW s \in SUBSET T, s # T
          PROVE  SumsUp(H(s), f, s) /\ IsFiniteSet(s)
      <3>1. PICK x \in T : x \notin s
        BY <2>1
      <3>2. \E g : SumsUp(g, f, T \ {x})
        BY <1>2
      <3>3. s \in SUBSET (T \ {x})
        BY <3>1
      <3>4. \E g : SumsUp(g, f, s)
        BY <3>2, <3>3, SumsUpRestrict
      <3> QED
        BY <3>4, FS_Subset
    <2>2. ASSUME NEW s \in SUBSET T, s # T
          PROVE  V(s) = IF s = {} THEN 0 ELSE f[Pick(s)] + V(s \ {Pick(s)})
      <3>0. SumsUp(H(s), f, s) /\ IsFiniteSet(s)
        BY <2>1, <2>2
      <3>1. CASE s = {}
        BY <3>0, <3>1, SumsUpEmpty
      <3>2. CASE s # {}
        <4> DEFINE t == s \ {Pick(s)}
        <4>1. t \in SUBSET T /\ t # T /\ t \subseteq s /\ IsFiniteSet(t)
          BY <3>2, <2>2, <3>0, PickInSet, FS_Subset
        <4>2. SumsUp(H(t), f, t)
          BY <4>1, <2>1
        <4> HIDE DEF H
        <4>3. H(s)[t] = H(t)[t]
          BY <3>0, <4>1, <4>2, SumsUpAgree
        <4>4. H(s)[s] = f[Pick(s)] + H(s)[t]
          BY <3>0, <3>2, SumsUpNonempty
        <4> QED
          BY <3>2, <4>3, <4>4
      <3> QED
        BY <3>1, <3>2
    <2> HIDE DEF V, H
    <2> DEFINE g == [s \in SUBSET T |->
                        IF s = {} THEN 0 ELSE f[Pick(s)] + V(s \ {Pick(s)})]
    <2>3. ASSUME NEW s \in SUBSET T, s # {}
          PROVE  g[s \ {Pick(s)}] = V(s \ {Pick(s)})
      <3> DEFINE t == s \ {Pick(s)}
      <3>1. t \in SUBSET T /\ t # T
        BY <2>3, PickInSet
      <3> HIDE DEF t
      <3>2. g[t] = V(t)
        BY <3>1, <2>2
      <3> QED
        BY <3>2 DEF t
    <2>4. SumsUp(g, f, T)
      <3>1. \A s \in SUBSET T : g[s] = IF s = {} THEN 0
                                       ELSE f[Pick(s)] + g[s \ {Pick(s)}]
        BY <2>3
      <3>2. g = [s \in SUBSET T |-> g[s]]
        OBVIOUS
      <3> HIDE DEF g
      <3> QED
        BY <3>1, <3>2 DEF SumsUp
    <2> HIDE DEF g
    <2> QED
      BY <2>4
  <1> HIDE DEF Good
  <1>3. \A T \in SUBSET S : T \in Good
    BY <1>1, <1>2, SubsetInduction
  <1> QED
    BY <1>3 DEF Good

-----------------------------------------------------------------------------
(* SumFunctionOnSet *)

\* The recursive function that a sum applies exists.
LEMMA SumBySums ==
  ASSUME NEW f, NEW S, IsFiniteSet(S)
  PROVE  \E g : SumsUp(g, f, S) /\ SumFunctionOnSet(f, S) = g[S]
  <1> DEFINE g == CHOOSE g : SumsUp(g, f, S)
  <1>1. SumsUp(g, f, S)
    BY SumsUpExists
  <1>2. SumFunctionOnSet(f, S) = g[S]
    BY SumIsChosen
  <1> HIDE DEF g
  <1> QED
    BY <1>1, <1>2

LEMMA SumEmpty == ASSUME NEW f PROVE SumFunctionOnSet(f, {}) = 0
  BY SumBySums, SumsUpEmpty, FS_EmptySet

\* Equal values have equal sums.
LEMMA SumEqual ==
  ASSUME NEW f, NEW e, NEW S, IsFiniteSet(S), \A x \in S : f[x] = e[x]
  PROVE  SumFunctionOnSet(f, S) = SumFunctionOnSet(e, S)
  <1>1. PICK g : SumsUp(g, f, S) /\ SumFunctionOnSet(f, S) = g[S]
    BY SumBySums
  <1>2. PICK h : SumsUp(h, e, S) /\ SumFunctionOnSet(e, S) = h[S]
    BY SumBySums
  <1>3. g[S] = h[S]
    BY <1>1, <1>2, SumsUpAgree
  <1> QED
    BY <1>1, <1>2, <1>3

\* The element that the recursion takes first.
LEMMA SumPick ==
  ASSUME NEW f, NEW S, IsFiniteSet(S), S # {}
  PROVE  SumFunctionOnSet(f, S) = f[Pick(S)] + SumFunctionOnSet(f, S \ {Pick(S)})
  <1> DEFINE T == S \ {Pick(S)}
  <1>0. IsFiniteSet(T)
    BY FS_Subset
  <1>1. PICK g : SumsUp(g, f, S) /\ SumFunctionOnSet(f, S) = g[S]
    BY SumBySums
  <1>2. PICK h : SumsUp(h, f, T) /\ SumFunctionOnSet(f, T) = h[T]
    BY <1>0, SumBySums
  <1>3. g[T] = h[T]
    BY <1>0, <1>1, <1>2, SumsUpAgree
  <1>4. g[S] = f[Pick(S)] + g[T]
    BY <1>1, SumsUpNonempty
  <1> QED
    BY <1>1, <1>2, <1>3, <1>4

LEMMA SumType ==
  ASSUME NEW f, NEW S, IsFiniteSet(S), \A x \in S : f[x] \in Int
  PROVE  SumFunctionOnSet(f, S) \in Int
  <1> DEFINE Good == {T \in SUBSET S : SumFunctionOnSet(f, T) \in Int}
  <1>1. {} \in Good
    BY SumEmpty
  <1>2. ASSUME NEW T \in SUBSET S, T # {}, \A x \in T : T \ {x} \in Good
        PROVE  T \in Good
    <2> DEFINE c == Pick(T)
    <2>1. c \in T /\ IsFiniteSet(T)
      BY <1>2, PickInSet, FS_Subset
    <2>2. SumFunctionOnSet(f, T) = f[c] + SumFunctionOnSet(f, T \ {c})
      BY <1>2, <2>1, SumPick
    <2> HIDE DEF c
    <2>3. f[c] \in Int /\ SumFunctionOnSet(f, T \ {c}) \in Int
      BY <1>2, <2>1
    <2> QED
      BY <2>2, <2>3
  <1> HIDE DEF Good
  <1>3. \A T \in SUBSET S : T \in Good
    BY <1>1, <1>2, SubsetInduction
  <1> QED
    BY <1>3 DEF Good

\* Any element may be taken out first.
LEMMA SumRemove ==
  ASSUME NEW f, NEW S, IsFiniteSet(S), \A x \in S : f[x] \in Int, NEW y \in S
  PROVE  SumFunctionOnSet(f, S) = f[y] + SumFunctionOnSet(f, S \ {y})
  <1> DEFINE Sum(T) == SumFunctionOnSet(f, T)
             Good == {T \in SUBSET S : \A x \in T : Sum(T) = f[x] + Sum(T \ {x})}
  <1>0. \A T \in SUBSET S : T # {} => Sum(T) = f[Pick(T)] + Sum(T \ {Pick(T)})
    BY FS_Subset, SumPick
  <1>t. \A T \in SUBSET S : Sum(T) \in Int
    <2> SUFFICES ASSUME NEW T \in SUBSET S PROVE Sum(T) \in Int
      OBVIOUS
    <2>1. IsFiniteSet(T) /\ \A x \in T : f[x] \in Int
      BY FS_Subset
    <2> QED
      BY <2>1, SumType
  <1>1. {} \in Good
    OBVIOUS
  <1> HIDE DEF Sum
  <1>2. ASSUME NEW T \in SUBSET S, T # {}, \A x \in T : T \ {x} \in Good
        PROVE  T \in Good
    <2> DEFINE c == Pick(T)
    <2>1. c \in T /\ Sum(T) = f[c] + Sum(T \ {c})
      BY <1>0, <1>2, PickInSet
    <2> HIDE DEF c
    <2>2. ASSUME NEW x \in T, x # c
          PROVE  Sum(T) = f[x] + Sum(T \ {x})
      <3> DEFINE W == (T \ {c}) \ {x}
      <3>1. W = (T \ {x}) \ {c} /\ W \in SUBSET S
        OBVIOUS
      <3>2. Sum(T \ {c}) = f[x] + Sum(W)
        BY <1>2, <2>1, <2>2
      <3>3. Sum(T \ {x}) = f[c] + Sum((T \ {x}) \ {c})
        BY <1>2, <2>1, <2>2
      <3> HIDE DEF W
      <3>4. Sum(W) \in Int /\ f[x] \in Int /\ f[c] \in Int
        BY <1>t, <2>1, <3>1
      <3> QED
        BY <2>1, <3>1, <3>2, <3>3, <3>4
    <2>3. \A x \in T : Sum(T) = f[x] + Sum(T \ {x})
      BY <2>1, <2>2
    <2> QED
      BY <2>3
  <1> HIDE DEF Good
  <1>3. \A T \in SUBSET S : T \in Good
    BY <1>1, <1>2, SubsetInduction
  <1> QED
    BY <1>3 DEF Good, Sum

\* An element joins the set; the values of the others stay.
LEMMA SumJoin ==
  ASSUME NEW f, NEW e, NEW S, IsFiniteSet(S), NEW y, y \notin S,
         \A x \in S : f[x] \in Int /\ e[x] = f[x], e[y] \in Int
  PROVE  SumFunctionOnSet(e, S \cup {y}) = SumFunctionOnSet(f, S) + e[y]
  <1> DEFINE T == S \cup {y}
  <1>1. IsFiniteSet(T) /\ y \in T /\ T \ {y} = S /\ \A x \in T : e[x] \in Int
    BY FS_AddElement
  <1>2. SumFunctionOnSet(e, T) = e[y] + SumFunctionOnSet(e, S)
    <2> HIDE DEF T
    <2> QED
      BY <1>1, SumRemove
  <1>3. SumFunctionOnSet(e, S) = SumFunctionOnSet(f, S)
    BY SumEqual
  <1>4. SumFunctionOnSet(f, S) \in Int
    BY SumType
  <1> QED
    BY <1>2, <1>3, <1>4

\* An element leaves the set; the values of the others stay.
LEMMA SumLeave ==
  ASSUME NEW f, NEW e, NEW S, IsFiniteSet(S), NEW y, y \in S,
         \A x \in S : f[x] \in Int /\ e[x] = f[x]
  PROVE  SumFunctionOnSet(e, S \ {y}) = SumFunctionOnSet(f, S) - f[y]
  <1> DEFINE T == S \ {y}
  <1>1. IsFiniteSet(T) /\ \A x \in T : f[x] \in Int /\ f[x] = e[x]
    BY FS_Subset
  <1>2. SumFunctionOnSet(f, S) = f[y] + SumFunctionOnSet(f, T)
    BY SumRemove
  <1> HIDE DEF T
  <1>3. SumFunctionOnSet(f, T) = SumFunctionOnSet(e, T)
    BY <1>1, SumEqual
  <1>4. SumFunctionOnSet(f, T) \in Int
    BY <1>1, SumType
  <1> QED
    BY <1>2, <1>3, <1>4 DEF T

\* One value changes.
LEMMA SumChange ==
  ASSUME NEW f, NEW e, NEW S, IsFiniteSet(S), NEW y \in S,
         \A x \in S : f[x] \in Int /\ e[x] \in Int,
         \A x \in S : x # y => e[x] = f[x]
  PROVE  SumFunctionOnSet(e, S) = SumFunctionOnSet(f, S) + (e[y] - f[y])
  <1>1. IsFiniteSet(S \ {y})
    BY FS_RemoveElement
  <1>2. SumFunctionOnSet(e, S \ {y}) = SumFunctionOnSet(f, S \ {y})
    BY <1>1, SumEqual
  <1>3. SumFunctionOnSet(f, S) = f[y] + SumFunctionOnSet(f, S \ {y})
    BY SumRemove
  <1>4. SumFunctionOnSet(e, S) = e[y] + SumFunctionOnSet(e, S \ {y})
    BY SumRemove
  <1>5. SumFunctionOnSet(f, S \ {y}) \in Int
    BY <1>1, SumType
  <1> QED
    BY <1>2, <1>3, <1>4, <1>5

LEMMA SumZero ==
  ASSUME NEW f, NEW S, IsFiniteSet(S), \A x \in S : f[x] = 0
  PROVE  SumFunctionOnSet(f, S) = 0
  <1> DEFINE Good == {T \in SUBSET S : SumFunctionOnSet(f, T) = 0}
  <1>1. {} \in Good
    BY SumEmpty
  <1>2. ASSUME NEW T \in SUBSET S, T # {}, \A x \in T : T \ {x} \in Good
        PROVE  T \in Good
    <2>1. IsFiniteSet(T) /\ \A x \in T : f[x] \in Int
      BY FS_Subset
    <2>2. PICK x \in T : TRUE
      BY <1>2
    <2>3. SumFunctionOnSet(f, T) = f[x] + SumFunctionOnSet(f, T \ {x})
      BY <2>1, SumRemove
    <2>4. SumFunctionOnSet(f, T \ {x}) = 0 /\ f[x] = 0
      BY <1>2
    <2> QED
      BY <2>3, <2>4
  <1> HIDE DEF Good
  <1>3. \A T \in SUBSET S : T \in Good
    BY <1>1, <1>2, SubsetInduction
  <1> QED
    BY <1>3 DEF Good
=============================================================================
