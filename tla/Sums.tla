-------------------------------- MODULE Sums --------------------------------
(***************************************************************************)
(* Sums over finite sets, for the models that add things up.               *)
(*                                                                         *)
(* The induction over the subsets of a finite set is that of               *)
(* StrictSubsetOrdering: of the subsets that lack a property one is        *)
(* smallest.                                                               *)
(***************************************************************************)
EXTENDS Naturals, Functions, Folds, FiniteSetTheorems, TLAPS

----------------------------------------------------------------------------
(* Induction *)

\* What every subset of a finite set has if all smaller ones have it, the set has.
LEMMA SubsetInduction ==
    ASSUME NEW S, IsFiniteSet(S), NEW Good,
           \A T \in SUBSET S : (\A U \in SUBSET T : U # T => U \in Good) => T \in Good
    PROVE  S \in Good
  <1> DEFINE Bad == {T \in SUBSET S : T \notin Good}
  <1>1. SUFFICES ASSUME Bad # {}
                 PROVE  FALSE
    OBVIOUS
  <1>2. IsWellFoundedOn(StrictSubsetOrdering(S), SUBSET S)
    BY FS_StrictSubsetOrderingWellFounded, FS_FiniteSubsetsOfFinite
  <1>3. PICK T \in Bad : \A U \in Bad : <<U, T>> \notin StrictSubsetOrdering(S)
    <2> HIDE DEF Bad
    <2>1. Bad \subseteq SUBSET S
      BY DEF Bad
    <2> QED  BY <1>1, <1>2, <2>1, WFMin
  <1>4. \A U \in SUBSET T : U # T => U \in Good
    <2>1. ASSUME NEW U \in SUBSET T, U # T, U \notin Good
          PROVE  FALSE
      <3>1. U \in Bad
        BY <2>1
      <3>2. <<U, T>> \in StrictSubsetOrdering(S)
        BY <2>1 DEF StrictSubsetOrdering
      <3> QED  BY <1>3, <3>1, <3>2
    <2> QED  BY <2>1
  <1> QED  BY <1>4

----------------------------------------------------------------------------
(* The sum obeys its definition *)

Pick(s) == CHOOSE x \in s : TRUE

\* h is the recursive function by which the sum over S is defined.
Solves(h, f, S) ==
    h = [s \in SUBSET S |-> IF s = {} THEN 0 ELSE f[Pick(s)] + h[s \ {Pick(s)}]]

LEMMA SumIsChosen ==
    ASSUME NEW f, NEW S
    PROVE  SumFunctionOnSet(f, S) = (CHOOSE h : Solves(h, f, S))[S]
  BY DEF SumFunctionOnSet, FoldFunctionOnSet, MapThenFoldSet, Solves, Pick

LEMMA PickIsIn == \A s : s # {} => Pick(s) \in s
  BY DEF Pick

LEMMA SolvesPoint ==
    ASSUME NEW f, NEW S, NEW h, Solves(h, f, S), NEW s \in SUBSET S
    PROVE  h[s] = IF s = {} THEN 0 ELSE f[Pick(s)] + h[s \ {Pick(s)}]
  BY DEF Solves

\* Two of them agree where both are defined.
LEMMA SolutionsAgree ==
    ASSUME NEW f, NEW S, NEW T, NEW h, NEW k, Solves(h, f, S), Solves(k, f, T),
           NEW s, s \in SUBSET S, s \in SUBSET T, IsFiniteSet(s)
    PROVE  h[s] = k[s]
  <1> DEFINE Good == {u \in SUBSET s : h[u] = k[u]}
  <1>1. ASSUME NEW u \in SUBSET s, \A v \in SUBSET u : v # u => v \in Good
        PROVE  u \in Good
    <2>1. CASE u = {}
      BY <2>1, SolvesPoint
    <2>2. CASE u # {}
      <3>1. Pick(u) \in u
        BY <2>2, PickIsIn
      <3>2. u \ {Pick(u)} \in Good
        BY <1>1, <3>1
      <3>3. h[u] = f[Pick(u)] + h[u \ {Pick(u)}]
        BY <2>2, SolvesPoint
      <3>4. k[u] = f[Pick(u)] + k[u \ {Pick(u)}]
        BY <2>2, SolvesPoint
      <3> QED  BY <3>2, <3>3, <3>4
    <2> QED  BY <2>1, <2>2
  <1>2. s \in Good
    <2> HIDE DEF Good
    <2> QED  BY <1>1, SubsetInduction
  <1> QED  BY <1>2

LEMMA SolutionExists ==
    ASSUME NEW f, NEW S, IsFiniteSet(S)
    PROVE  \E h : Solves(h, f, S)
  <1> DEFINE Good == {T \in SUBSET S : \E h : Solves(h, f, T)}
  <1>1. ASSUME NEW T \in SUBSET S, \A U \in SUBSET T : U # T => U \in Good
        PROVE  T \in Good
    <2> DEFINE Of(s) == CHOOSE h : Solves(h, f, s)
               g == [s \in SUBSET T |->
                       IF s = T THEN IF T = {} THEN 0
                                     ELSE f[Pick(T)] + Of(T \ {Pick(T)})[T \ {Pick(T)}]
                       ELSE Of(s)[s]]
    <2>1. \A s \in SUBSET T : s # T => Solves(Of(s), f, s)
      BY <1>1
    <2>2. \A s \in SUBSET T : IsFiniteSet(s)
      BY FS_Subset
    <2> HIDE DEF Of
    <2>3. ASSUME NEW s \in SUBSET T
          PROVE  g[s] = IF s = {} THEN 0 ELSE f[Pick(s)] + g[s \ {Pick(s)}]
      <3>1. CASE s = {}
        BY <2>1, <3>1, SolvesPoint
      <3>2. CASE s # {}
        <4> DEFINE r == s \ {Pick(s)}
        <4>1. Pick(s) \in s
          BY <3>2, PickIsIn
        <4>2. r \in SUBSET T /\ r # T /\ r \in SUBSET s
          BY <4>1
        <4>3. g[r] = Of(r)[r]
          BY <4>2
        <4>4. CASE s = T
          BY <3>2, <4>3, <4>4
        <4>5. CASE s # T
          <5>1. Of(s)[s] = f[Pick(s)] + Of(s)[r]
            BY <2>1, <3>2, <4>5, SolvesPoint
          <5>2. Of(s)[r] = Of(r)[r]
            BY <2>1, <2>2, <4>2, <4>5, SolutionsAgree
          <5> QED  BY <3>2, <4>3, <4>5, <5>1, <5>2
        <4> QED  BY <4>4, <4>5
      <3> QED  BY <3>1, <3>2
    <2>4. Solves(g, f, T)
      BY <2>3 DEF Solves
    <2> QED  BY <2>4
  <1>2. S \in Good
    <2> HIDE DEF Good
    <2> QED  BY <1>1, SubsetInduction
  <1> QED  BY <1>2

LEMMA SumUnfolds ==
    ASSUME NEW f, NEW S, IsFiniteSet(S)
    PROVE  SumFunctionOnSet(f, S) = IF S = {} THEN 0
                           ELSE f[Pick(S)] + SumFunctionOnSet(f, S \ {Pick(S)})
  <1> DEFINE h == CHOOSE h : Solves(h, f, S)
             r == S \ {Pick(S)}
             k == CHOOSE k : Solves(k, f, r)
  <1>1. IsFiniteSet(r)
    BY FS_Subset
  <1>2. Solves(h, f, S)
    BY SolutionExists
  <1>3. Solves(k, f, r)
    BY <1>1, SolutionExists
  <1>4. SumFunctionOnSet(f, S) = h[S] /\ SumFunctionOnSet(f, r) = k[r]
    BY SumIsChosen
  <1> HIDE DEF h, k
  <1>5. h[r] = k[r]
    BY <1>1, <1>2, <1>3, SolutionsAgree
  <1> QED  BY <1>2, <1>4, <1>5, SolvesPoint

----------------------------------------------------------------------------
(* What the models need *)

LEMMA SumOfNone ==
    ASSUME NEW f
    PROVE  SumFunctionOnSet(f, {}) = 0
  BY SumUnfolds, FS_EmptySet

LEMMA SumType ==
    ASSUME NEW S, IsFiniteSet(S), NEW f, \A x \in S : f[x] \in Nat
    PROVE  SumFunctionOnSet(f, S) \in Nat
  <1> DEFINE Good == {T \in SUBSET S : SumFunctionOnSet(f, T) \in Nat}
  <1>1. ASSUME NEW T \in SUBSET S, \A U \in SUBSET T : U # T => U \in Good
        PROVE  T \in Good
    <2>1. IsFiniteSet(T)
      BY FS_Subset
    <2>2. T # {} => Pick(T) \in T /\ T \ {Pick(T)} \in Good
      BY <1>1, PickIsIn
    <2> QED  BY <2>1, <2>2, SumUnfolds
  <1>2. S \in Good
    <2> HIDE DEF Good
    <2> QED  BY <1>1, SubsetInduction
  <1> QED  BY <1>2

LEMMA SumOfZeros ==
    ASSUME NEW S, IsFiniteSet(S)
    PROVE  SumFunctionOnSet([x \in S |-> 0], S) = 0
  <1> DEFINE f == [x \in S |-> 0]
             Good == {T \in SUBSET S : SumFunctionOnSet(f, T) = 0}
  <1>1. ASSUME NEW T \in SUBSET S, \A U \in SUBSET T : U # T => U \in Good
        PROVE  T \in Good
    <2>1. IsFiniteSet(T)
      BY FS_Subset
    <2>2. \A x \in T : f[x] = 0
      OBVIOUS
    <2>3. T # {} => Pick(T) \in T /\ SumFunctionOnSet(f, T \ {Pick(T)}) = 0
      BY <1>1, PickIsIn
    <2> HIDE DEF f
    <2> QED  BY <2>1, <2>2, <2>3, SumUnfolds
  <1>2. S \in Good
    <2> HIDE DEF Good
    <2> QED  BY <1>1, SubsetInduction
  <1> QED  BY <1>2

\* Whichever element is taken out first.
LEMMA SumRemoves ==
    ASSUME NEW S, IsFiniteSet(S), NEW f, \A x \in S : f[x] \in Nat, NEW e \in S
    PROVE  SumFunctionOnSet(f, S) = f[e] + SumFunctionOnSet(f, S \ {e})
  <1> DEFINE Good == {T \in SUBSET S :
                        \A x \in T :
                          SumFunctionOnSet(f, T) = f[x] + SumFunctionOnSet(f, T \ {x})}
  <1>1. ASSUME NEW T \in SUBSET S, \A U \in SUBSET T : U # T => U \in Good, NEW x \in T
        PROVE  SumFunctionOnSet(f, T) = f[x] + SumFunctionOnSet(f, T \ {x})
    <2> DEFINE p == Pick(T)
               both == (T \ {x}) \ {p}
    <2>1. p \in T
      BY PickIsIn
    <2>2. SumFunctionOnSet(f, T) = f[p] + SumFunctionOnSet(f, T \ {p})
      BY SumUnfolds, FS_Subset
    <2>3. CASE x = p
      BY <2>2, <2>3
    <2>4. CASE x # p
      <3>1. T \ {p} \in Good /\ T \ {x} \in Good
        BY <1>1, <2>1
      <3>2. x \in T \ {p} /\ p \in T \ {x} /\ (T \ {p}) \ {x} = both
        BY <2>1, <2>4
      <3>3. SumFunctionOnSet(f, T \ {p}) = f[x] + SumFunctionOnSet(f, both)
        BY <3>1, <3>2
      <3>4. SumFunctionOnSet(f, T \ {x}) = f[p] + SumFunctionOnSet(f, both)
        BY <3>1, <3>2
      <3>5. SumFunctionOnSet(f, both) \in Nat /\ f[x] \in Nat /\ f[p] \in Nat
        BY <2>1, SumType, FS_Subset
      <3> QED  BY <2>2, <3>3, <3>4, <3>5
    <2> QED  BY <2>3, <2>4
  <1>2. S \in Good
    <2>1. \A T \in SUBSET S : (\A U \in SUBSET T : U # T => U \in Good) => T \in Good
      BY <1>1
    <2> HIDE DEF Good
    <2> QED  BY <2>1, SubsetInduction
  <1> QED  BY <1>2

LEMMA SumAdds ==
    ASSUME NEW S, IsFiniteSet(S), NEW e, e \notin S,
           NEW f, \A x \in S \cup {e} : f[x] \in Nat
    PROVE  SumFunctionOnSet(f, S \cup {e}) = f[e] + SumFunctionOnSet(f, S)
  <1>1. IsFiniteSet(S \cup {e})
    BY FS_AddElement
  <1>2. (S \cup {e}) \ {e} = S
    OBVIOUS
  <1> QED  BY <1>1, <1>2, SumRemoves

\* More of what is not less.
LEMMA SumMonotone ==
    ASSUME NEW S, IsFiniteSet(S), NEW T \in SUBSET S,
           NEW f, \A x \in T : f[x] \in Nat, NEW g, \A x \in S : g[x] \in Nat,
           \A x \in T : f[x] <= g[x]
    PROVE  SumFunctionOnSet(f, T) <= SumFunctionOnSet(g, S)
  <1> DEFINE Good == {U \in SUBSET S : SumFunctionOnSet(f, U \cap T) <= SumFunctionOnSet(g, U)}
  <1>1. ASSUME NEW U \in SUBSET S, \A V \in SUBSET U : V # U => V \in Good
        PROVE  U \in Good
    <2>1. CASE U = {}
      BY <2>1, SumOfNone
    <2>2. CASE U # {}
      <3>1. PICK e : e \in U
        BY <2>2
      <3> DEFINE rest == U \ {e}
      <3>2. rest \in Good /\ IsFiniteSet(U)
        BY <1>1, <3>1, FS_Subset
      <3>3. SumFunctionOnSet(g, U) = g[e] + SumFunctionOnSet(g, rest)
        BY <3>1, <3>2, SumRemoves
      <3>4. IsFiniteSet(rest) /\ IsFiniteSet(U \cap T) /\ IsFiniteSet(rest \cap T)
        BY FS_Subset
      <3>5. /\ SumFunctionOnSet(g, rest) \in Nat
            /\ SumFunctionOnSet(f, rest \cap T) \in Nat
            /\ g[e] \in Nat
        BY <3>1, <3>4, SumType
      <3>6. CASE e \in T
        <4>1. (U \cap T) \ {e} = rest \cap T /\ e \in U \cap T
          BY <3>1, <3>6
        <4>2. SumFunctionOnSet(f, U \cap T) = f[e] + SumFunctionOnSet(f, rest \cap T)
          BY <3>4, <4>1, SumRemoves
        <4> QED  BY <3>2, <3>3, <3>5, <3>6, <4>2
      <3>7. CASE e \notin T
        <4>1. U \cap T = rest \cap T
          BY <3>7
        <4>2. SumFunctionOnSet(f, U \cap T) = SumFunctionOnSet(f, rest \cap T)
          BY <4>1
        <4>3. SumFunctionOnSet(f, rest \cap T) <= SumFunctionOnSet(g, rest)
          BY <3>2
        <4>4. SumFunctionOnSet(f, U \cap T) <= SumFunctionOnSet(g, U)
          BY <3>3, <3>5, <4>2, <4>3
        <4> QED  BY <4>4
      <3> QED  BY <3>6, <3>7
    <2> QED  BY <2>1, <2>2
  <1>2. S \in Good
    <2> HIDE DEF Good
    <2> QED  BY <1>1, SubsetInduction
  <1>3. S \cap T = T
    OBVIOUS
  <1> QED  BY <1>2, <1>3

LEMMA SumSame ==
    ASSUME NEW S, IsFiniteSet(S), NEW f, NEW g, \A x \in S : f[x] \in Nat /\ g[x] = f[x]
    PROVE  SumFunctionOnSet(g, S) = SumFunctionOnSet(f, S)
  <1>1. \A x \in S : f[x] <= g[x] /\ g[x] <= f[x] /\ g[x] \in Nat
    OBVIOUS
  <1>2. SumFunctionOnSet(f, S) <= SumFunctionOnSet(g, S)
    BY <1>1, SumMonotone
  <1>3. SumFunctionOnSet(g, S) <= SumFunctionOnSet(f, S)
    BY <1>1, SumMonotone
  <1> QED  BY <1>1, <1>2, <1>3, SumType

\* One of the terms grows by d.
LEMMA SumGrows ==
    ASSUME NEW S, IsFiniteSet(S), NEW f \in [S -> Nat], NEW e \in S, NEW d \in Nat
    PROVE  SumFunctionOnSet([f EXCEPT ![e] = @ + d], S) = SumFunctionOnSet(f, S) + d
  <1> DEFINE g == [f EXCEPT ![e] = @ + d]
  <1>1. g \in [S -> Nat] /\ g[e] = f[e] + d /\ \A x \in S \ {e} : g[x] = f[x]
    OBVIOUS
  <1>2. IsFiniteSet(S \ {e})
    BY FS_RemoveElement
  <1> HIDE DEF g
  <1>3. SumFunctionOnSet(g, S \ {e}) = SumFunctionOnSet(f, S \ {e})
    BY <1>1, <1>2, SumSame
  <1>4. SumFunctionOnSet(g, S) = g[e] + SumFunctionOnSet(g, S \ {e})
    BY <1>1, SumRemoves
  <1>5. SumFunctionOnSet(f, S) = f[e] + SumFunctionOnSet(f, S \ {e})
    BY SumRemoves
  <1>6. SumFunctionOnSet(f, S \ {e}) \in Nat
    BY <1>2, SumType
  <1>7. SumFunctionOnSet(g, S) = SumFunctionOnSet(f, S) + d
    BY <1>1, <1>3, <1>4, <1>5, <1>6
  <1> QED  BY <1>7 DEF g

=============================================================================
