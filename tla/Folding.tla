------------------------------ MODULE Folding ------------------------------
(***************************************************************************)
(* What the community modules' folds compute, over any finite set: first   *)
(* SumFunctionOnSet, then a fold in a given order, of which FoldLeft is    *)
(* an instance.                                                            *)
(*                                                                         *)
(* The library's induction theorems take an operator; here induction goes  *)
(* over a set of sets, from the well-foundedness of the strict subset      *)
(* ordering.                                                               *)
(***************************************************************************)
EXTENDS FiniteSetsExt, FiniteSetTheorems, TLAPS

\* A set of subsets of S that contains each one whose proper subsets it
\* contains, contains S.
LEMMA SubsetInduction ==
    ASSUME NEW S, IsFiniteSet(S), NEW Q,
           \A T \in SUBSET S : (\A U \in SUBSET T : U # T => U \in Q) => T \in Q
    PROVE  S \in Q
<1> DEFINE R == StrictSubsetOrdering(S)
           Bad == (SUBSET S) \ Q
<1>1. IsWellFoundedOn(R, SUBSET S)
  BY FS_StrictSubsetOrderingWellFounded, FS_FiniteSubsetsOfFinite
<1>2. SUFFICES ASSUME S \notin Q PROVE FALSE
  OBVIOUS
<1>3. Bad \subseteq SUBSET S /\ Bad # {}
  BY <1>2
<1>4. PICK T \in Bad : \A U \in Bad : ~ (<<U, T>> \in R)
  <2> HIDE DEF Bad, R
  <2> QED
    BY <1>1, <1>3, WFMin
<1>5. \A U \in SUBSET T : U # T => U \in Q
  <2>1. SUFFICES ASSUME NEW U \in SUBSET T, U # T, U \notin Q PROVE FALSE
    OBVIOUS
  <2>2. U \in SUBSET S /\ T \in SUBSET S
    OBVIOUS
  <2>3. <<U, T>> \in R
    BY <2>1, <2>2 DEF StrictSubsetOrdering
  <2> QED
    BY <1>4, <2>1, <2>2, <2>3
<1> QED
  BY <1>4, <1>5

----------------------------------------------------------------------------
(* The function that the sum iterates.                                     *)

FirstIn(s) == CHOOSE x \in s : TRUE

SumNext(it, f, s) == IF s = {} THEN 0 ELSE f[FirstIn(s)] + it[s \ {FirstIn(s)}]

IsSum(it, f, S) == it = [s \in SUBSET S |-> SumNext(it, f, s)]

LEMMA FirstInSet == ASSUME NEW s, s # {} PROVE FirstIn(s) \in s
  BY DEF FirstIn

\* Two iterations, one over a larger set, agree on the smaller one.
LEMMA SumUnique ==
    ASSUME NEW f, NEW S, NEW T, IsFiniteSet(T), T \subseteq S, NEW it, NEW jt,
           IsSum(it, f, S), IsSum(jt, f, T)
    PROVE  it[T] = jt[T]
<1> DEFINE Q == {U \in SUBSET T : it[U] = jt[U]}
<1>1. ASSUME NEW U \in SUBSET T, \A V \in SUBSET U : V # U => V \in Q
      PROVE  U \in Q
  <2>1. it[U] = SumNext(it, f, U) /\ jt[U] = SumNext(jt, f, U)
    BY DEF IsSum
  <2>2. CASE U = {}
    BY <2>1, <2>2 DEF SumNext
  <2>3. CASE U # {}
    <3>1. U \ {FirstIn(U)} \in Q
      BY <1>1, <2>3, FirstInSet
    <3> QED
      BY <2>1, <2>3, <3>1 DEF SumNext
  <2> QED
    BY <2>2, <2>3
<1>2. T \in Q
  <2> HIDE DEF Q
  <2> QED
    BY <1>1, SubsetInduction
<1> QED
  BY <1>2

\* There is such a function: so the fold's CHOOSE is one.
LEMMA SumExists ==
    ASSUME NEW f, NEW S, IsFiniteSet(S)
    PROVE  \E it : IsSum(it, f, S)
<1> DEFINE Q == {T \in SUBSET S : \E it : IsSum(it, f, T)}
<1>1. ASSUME NEW T \in SUBSET S, \A U \in SUBSET T : U # T => U \in Q
      PROVE  T \in Q
  <2> DEFINE V(U) == CHOOSE it : IsSum(it, f, U)
             g == [s \in SUBSET T |->
                     IF s = {} THEN 0
                     ELSE f[FirstIn(s)] + V(s \ {FirstIn(s)})[s \ {FirstIn(s)}]]
  <2>1. ASSUME NEW U \in SUBSET T, U # T PROVE IsSum(V(U), f, U)
    <3>1. \E it : IsSum(it, f, U)
      BY <1>1, <2>1
    <3> QED
      BY <3>1
  <2>2. ASSUME NEW U \in SUBSET T, U # T PROVE g[U] = V(U)[U]
    <3>1. V(U)[U] = SumNext(V(U), f, U)
      BY <2>1, <2>2 DEF IsSum
    <3>2. CASE U = {}
      BY <3>1, <3>2 DEF SumNext
    <3>3. CASE U # {}
      <4> DEFINE W == U \ {FirstIn(U)}
      <4>1. W \in SUBSET U /\ W \in SUBSET T /\ W # T
        BY <3>3, FirstInSet
      <4>2. IsSum(V(W), f, W) /\ IsSum(V(U), f, U) /\ IsFiniteSet(W)
        BY <2>1, <2>2, <4>1, FS_Subset
      <4>3. V(U)[W] = V(W)[W]
        <5> HIDE DEF V, W
        <5> QED
          BY <4>1, <4>2, SumUnique
      <4> QED
        BY <3>1, <3>3, <4>3 DEF SumNext
    <3> QED
      BY <3>2, <3>3
  <2>3. ASSUME NEW s \in SUBSET T PROVE g[s] = SumNext(g, f, s)
    <3>1. CASE s = {}
      BY <3>1 DEF SumNext
    <3>2. CASE s # {}
      <4> DEFINE W == s \ {FirstIn(s)}
      <4>1. W \in SUBSET T /\ W # T
        BY <3>2, FirstInSet
      <4>2. g[W] = V(W)[W]
        BY <2>2, <4>1
      <4>3. g[s] = f[FirstIn(s)] + V(W)[W]
        BY <3>2
      <4> QED
        BY <3>2, <4>2, <4>3 DEF SumNext
    <3> QED
      BY <3>1, <3>2
  <2>4. IsSum(g, f, T)
    <3>1. g = [s \in SUBSET T |-> g[s]]
      OBVIOUS
    <3> HIDE DEF g
    <3> QED
      BY <2>3, <3>1 DEF IsSum
  <2> QED
    BY <2>4
<1>2. S \in Q
  <2> HIDE DEF Q
  <2> QED
    BY <1>1, SubsetInduction
<1> QED
  BY <1>2

\* The library's fold is this iteration.
LEMMA SumDef ==
    ASSUME NEW f, NEW S
    PROVE  SumFunctionOnSet(f, S) = (CHOOSE it : IsSum(it, f, S))[S]
  BY DEF SumFunctionOnSet, FoldFunctionOnSet, MapThenFoldSet, IsSum, SumNext, FirstIn

\* The sum over S takes f at the element chosen first and goes on.
LEMMA SumTakesFirst ==
    ASSUME NEW f, NEW S, IsFiniteSet(S)
    PROVE  /\ SumFunctionOnSet(f, {}) = 0
           /\ S # {} => SumFunctionOnSet(f, S) = f[FirstIn(S)] + SumFunctionOnSet(f, S \ {FirstIn(S)})
<1> DEFINE V(U) == CHOOSE it : IsSum(it, f, U)
<1>1. ASSUME NEW U \in SUBSET S
      PROVE  IsSum(V(U), f, U) /\ SumFunctionOnSet(f, U) = V(U)[U] /\ IsFiniteSet(U)
  <2>1. IsFiniteSet(U)
    BY FS_Subset
  <2>2. \E it : IsSum(it, f, U)
    BY <2>1, SumExists
  <2> QED
    BY <2>1, <2>2, SumDef
<1>2. SumFunctionOnSet(f, {}) = 0
  <2>1. V({})[{}] = SumNext(V({}), f, {})
    BY <1>1 DEF IsSum
  <2> QED
    BY <1>1, <2>1 DEF SumNext
<1>3. ASSUME S # {}
      PROVE  SumFunctionOnSet(f, S) = f[FirstIn(S)] + SumFunctionOnSet(f, S \ {FirstIn(S)})
  <2> DEFINE W == S \ {FirstIn(S)}
  <2>2. IsSum(V(S), f, S) /\ IsSum(V(W), f, W) /\ IsFiniteSet(W)
    BY <1>1
  <2>1. V(S)[S] = SumNext(V(S), f, S)
    <3> HIDE DEF V
    <3> QED
      BY <2>2 DEF IsSum
  <2>3. V(S)[W] = V(W)[W]
    <3> HIDE DEF V
    <3> QED
      BY <2>2, SumUnique
  <2> QED
    BY <1>1, <1>3, <2>1, <2>3 DEF SumNext
<1> QED
  BY <1>2, <1>3

LEMMA SumEmpty == ASSUME NEW f PROVE SumFunctionOnSet(f, {}) = 0
  BY FS_EmptySet, SumTakesFirst

----------------------------------------------------------------------------
(* Facts about sums of natural numbers.                                    *)

Natural(f, S) == \A x \in S : f[x] \in Nat

\* A sum of amounts is an amount.
LEMMA SumIsNat ==
    ASSUME NEW f, NEW S, IsFiniteSet(S), Natural(f, S)
    PROVE  SumFunctionOnSet(f, S) \in Nat
<1> DEFINE Q == {T \in SUBSET S : SumFunctionOnSet(f, T) \in Nat}
<1>1. ASSUME NEW T \in SUBSET S, \A U \in SUBSET T : U # T => U \in Q
      PROVE  T \in Q
  <2>1. IsFiniteSet(T)
    BY FS_Subset
  <2>2. CASE T = {}
    BY <2>2, SumEmpty
  <2>3. CASE T # {}
    <3>1. FirstIn(T) \in T /\ T \ {FirstIn(T)} \in Q
      BY <1>1, <2>3, FirstInSet
    <3> QED
      BY <2>1, <2>3, <3>1, SumTakesFirst DEF Natural
  <2> QED
    BY <2>2, <2>3
<1>2. S \in Q
  <2> HIDE DEF Q
  <2> QED
    BY <1>1, SubsetInduction
<1> QED
  BY <1>2

\* The order does not matter: any element can be taken first.
LEMMA SumRemove ==
    ASSUME NEW f, NEW S, IsFiniteSet(S), Natural(f, S), NEW y \in S
    PROVE  SumFunctionOnSet(f, S) = f[y] + SumFunctionOnSet(f, S \ {y})
<1> DEFINE Q == {T \in SUBSET S : \A z \in T : SumFunctionOnSet(f, T) = f[z] + SumFunctionOnSet(f, T \ {z})}
<1>1. ASSUME NEW T \in SUBSET S, \A U \in SUBSET T : U # T => U \in Q
      PROVE  T \in Q
  <2>1. SUFFICES ASSUME NEW z \in T
                 PROVE  SumFunctionOnSet(f, T) = f[z] + SumFunctionOnSet(f, T \ {z})
    OBVIOUS
  <2> DEFINE x == FirstIn(T)
  <2>2. x \in T /\ IsFiniteSet(T) /\ f[x] \in Nat /\ f[z] \in Nat
    BY FirstInSet, FS_Subset DEF Natural
  <2>3. SumFunctionOnSet(f, T) = f[x] + SumFunctionOnSet(f, T \ {x})
    BY <2>2, SumTakesFirst
  <2>4. CASE z = x
    BY <2>3, <2>4
  <2>5. CASE z # x
    <3>1. T \ {x} \in Q /\ T \ {z} \in Q /\ z \in T \ {x} /\ x \in T \ {z}
      BY <1>1, <2>2, <2>5
    <3>2. /\ SumFunctionOnSet(f, T \ {x}) = f[z] + SumFunctionOnSet(f, (T \ {x}) \ {z})
          /\ SumFunctionOnSet(f, T \ {z}) = f[x] + SumFunctionOnSet(f, (T \ {z}) \ {x})
      BY <3>1
    <3>3. SumFunctionOnSet(f, (T \ {x}) \ {z}) = SumFunctionOnSet(f, (T \ {z}) \ {x})
      <4>1. (T \ {x}) \ {z} = (T \ {z}) \ {x}
        OBVIOUS
      <4> QED
        BY <4>1, Zenon
    <3>4. SumFunctionOnSet(f, (T \ {x}) \ {z}) \in Nat
      <4>1. IsFiniteSet((T \ {x}) \ {z}) /\ Natural(f, (T \ {x}) \ {z})
        BY <2>2, FS_Subset DEF Natural
      <4> QED
        BY <4>1, SumIsNat
    <3>5. \A a, b, c \in Nat : a + (b + c) = b + (a + c)
      OBVIOUS
    <3> QED
      BY <2>2, <2>3, <3>2, <3>3, <3>4, <3>5
  <2> QED
    BY <2>4, <2>5
<1>2. S \in Q
  <2> HIDE DEF Q
  <2> QED
    BY <1>1, SubsetInduction
<1> QED
  BY <1>2

\* A sum is the sum of its parts.
LEMMA SumSplit ==
    ASSUME NEW f, NEW S, IsFiniteSet(S), Natural(f, S), NEW A
    PROVE  SumFunctionOnSet(f, S) = SumFunctionOnSet(f, S \cap A) + SumFunctionOnSet(f, S \ A)
<1> DEFINE Q == {T \in SUBSET S :
                    SumFunctionOnSet(f, T) = SumFunctionOnSet(f, T \cap A) + SumFunctionOnSet(f, T \ A)}
<1>1. ASSUME NEW T \in SUBSET S, \A U \in SUBSET T : U # T => U \in Q
      PROVE  T \in Q
  <2>1. /\ IsFiniteSet(T) /\ IsFiniteSet(T \cap A) /\ IsFiniteSet(T \ A)
        /\ Natural(f, T) /\ Natural(f, T \cap A) /\ Natural(f, T \ A)
    BY FS_Subset DEF Natural
  <2>2. CASE T = {}
    <3>1. T \cap A = {} /\ T \ A = {}
      BY <2>2
    <3> QED
      BY <2>2, <3>1, SumEmpty
  <2>3. CASE T # {}
    <3>1. PICK x \in T : TRUE
      BY <2>3
    <3> DEFINE U == T \ {x}
    <3>2. SumFunctionOnSet(f, T) = f[x] + SumFunctionOnSet(f, U)
      BY <2>1, SumRemove
    <3>3. SumFunctionOnSet(f, U) = SumFunctionOnSet(f, U \cap A) + SumFunctionOnSet(f, U \ A)
      BY <1>1
    <3>4. /\ f[x] \in Nat
          /\ SumFunctionOnSet(f, U \cap A) \in Nat /\ SumFunctionOnSet(f, U \ A) \in Nat
      <4>1. /\ IsFiniteSet(U \cap A) /\ IsFiniteSet(U \ A)
            /\ Natural(f, U \cap A) /\ Natural(f, U \ A)
        BY FS_Subset DEF Natural
      <4> QED
        BY <4>1, SumIsNat DEF Natural
    <3>5. CASE x \in A
      <4>1. U \cap A = (T \cap A) \ {x} /\ U \ A = T \ A
        BY <3>5
      <4>2. SumFunctionOnSet(f, T \cap A) = f[x] + SumFunctionOnSet(f, U \cap A)
        <5>1. SumFunctionOnSet(f, T \cap A) = f[x] + SumFunctionOnSet(f, (T \cap A) \ {x})
          BY <2>1, <3>5, SumRemove
        <5> QED
          BY <4>1, <5>1, Zenon
      <4>3. SumFunctionOnSet(f, U \ A) = SumFunctionOnSet(f, T \ A)
        BY <4>1, Zenon
      <4>4. SumFunctionOnSet(f, T) = SumFunctionOnSet(f, T \cap A) + SumFunctionOnSet(f, T \ A)
        BY <3>2, <3>3, <3>4, <4>2, <4>3
      <4> QED
        BY <4>4
    <3>6. CASE x \notin A
      <4>1. U \ A = (T \ A) \ {x} /\ U \cap A = T \cap A
        BY <3>6
      <4>2. SumFunctionOnSet(f, T \ A) = f[x] + SumFunctionOnSet(f, U \ A)
        <5>1. SumFunctionOnSet(f, T \ A) = f[x] + SumFunctionOnSet(f, (T \ A) \ {x})
          BY <2>1, <3>6, SumRemove
        <5> QED
          BY <4>1, <5>1, Zenon
      <4>3. SumFunctionOnSet(f, U \cap A) = SumFunctionOnSet(f, T \cap A)
        BY <4>1, Zenon
      <4>4. SumFunctionOnSet(f, T) = SumFunctionOnSet(f, T \cap A) + SumFunctionOnSet(f, T \ A)
        BY <3>2, <3>3, <3>4, <4>2, <4>3
      <4> QED
        BY <4>4
    <3> QED
      BY <3>5, <3>6
  <2> QED
    BY <2>2, <2>3
<1>2. S \in Q
  <2> HIDE DEF Q
  <2> QED
    BY <1>1, SubsetInduction
<1> QED
  BY <1>2

\* Part of a sum is no more than the whole.
LEMMA SumPart ==
    ASSUME NEW f, NEW S, IsFiniteSet(S), Natural(f, S), NEW T \in SUBSET S
    PROVE  SumFunctionOnSet(f, T) <= SumFunctionOnSet(f, S)
<1>1. S \cap T = T /\ IsFiniteSet(T) /\ IsFiniteSet(S \ T)
      /\ Natural(f, T) /\ Natural(f, S \ T)
  BY FS_Subset DEF Natural
<1>2. SumFunctionOnSet(f, T) \in Nat /\ SumFunctionOnSet(f, S \ T) \in Nat
  BY <1>1, SumIsNat
<1>3. SumFunctionOnSet(f, S) = SumFunctionOnSet(f, T) + SumFunctionOnSet(f, S \ T)
  <2>1. SumFunctionOnSet(f, S) = SumFunctionOnSet(f, S \cap T) + SumFunctionOnSet(f, S \ T)
    BY SumSplit
  <2> QED
    BY <1>1, <2>1, Zenon
<1> QED
  BY <1>2, <1>3

Group(S, h, g) == {x \in S : h[x] = g}

\* Summing the sums of the groups of S gives the sum over S.
LEMMA SumGroups ==
    ASSUME NEW f, NEW S, IsFiniteSet(S), Natural(f, S),
           NEW G, IsFiniteSet(G), NEW h, \A x \in S : h[x] \in G,
           NEW F, \A g \in G : F[g] = SumFunctionOnSet(f, Group(S, h, g))
    PROVE  SumFunctionOnSet(F, G) = SumFunctionOnSet(f, S)
<1> DEFINE In(H) == {x \in S : h[x] \in H}
           Q == {H \in SUBSET G :
                    SumFunctionOnSet(F, H) = SumFunctionOnSet(f, In(H))}
<1>1. ASSUME NEW H \in SUBSET G, \A U \in SUBSET H : U # H => U \in Q
      PROVE  H \in Q
  <2>1. IsFiniteSet(H) /\ IsFiniteSet(In(H)) /\ Natural(f, In(H))
    BY FS_Subset DEF Natural
  <2>2. CASE H = {}
    <3>1. In(H) = {}
      BY <2>2
    <3> QED
      BY <2>2, <3>1, SumEmpty
  <2>3. CASE H # {}
    <3> DEFINE g == FirstIn(H)
               A == Group(S, h, g)
    <3>1. g \in H
      BY <2>3, FirstInSet
    <3>2. SumFunctionOnSet(F, H) = F[g] + SumFunctionOnSet(F, H \ {g})
      BY <2>1, <2>3, SumTakesFirst
    <3>3. SumFunctionOnSet(F, H \ {g}) = SumFunctionOnSet(f, In(H \ {g}))
      BY <1>1, <3>1
    <3>4. In(H) \cap A = A /\ In(H) \ A = In(H \ {g})
      BY <3>1 DEF Group
    <3>5. SumFunctionOnSet(f, In(H))
            = SumFunctionOnSet(f, In(H) \cap A) + SumFunctionOnSet(f, In(H) \ A)
      <4> HIDE DEF A, In
      <4> QED
        BY <2>1, SumSplit
    <3> QED
      BY <3>1, <3>2, <3>3, <3>4, <3>5
  <2> QED
    BY <2>2, <2>3
<1>2. G \in Q
  <2> HIDE DEF Q
  <2> QED
    BY <1>1, SubsetInduction
<1>3. In(G) = S
  OBVIOUS
<1> QED
  BY <1>2, <1>3

\* The sum depends on the function's values on S alone.
LEMMA SumSame ==
    ASSUME NEW f, NEW g, NEW S, IsFiniteSet(S), \A x \in S : f[x] = g[x]
    PROVE  SumFunctionOnSet(f, S) = SumFunctionOnSet(g, S)
<1> DEFINE V(k) == CHOOSE it : IsSum(it, k, S)
<1>1. IsSum(V(f), f, S) /\ IsSum(V(g), g, S)
  BY SumExists
<1>2. IsSum(V(f), g, S)
  <2>1. \A s \in SUBSET S : SumNext(V(f), f, s) = SumNext(V(f), g, s)
    BY FirstInSet DEF SumNext
  <2> HIDE DEF V
  <2> QED
    BY <1>1, <2>1 DEF IsSum
<1>3. V(f)[S] = V(g)[S]
  <2> HIDE DEF V
  <2> QED
    BY <1>1, <1>2, SumUnique
<1> QED
  BY <1>3, SumDef

----------------------------------------------------------------------------
(* Finite sets.                                                            *)

\* What a function makes of a finite set is finite.
LEMMA FiniteImage ==
    ASSUME NEW S, IsFiniteSet(S), NEW h
    PROVE  IsFiniteSet({h[x] : x \in S})
<1> DEFINE T == {h[x] : x \in S}
           g == [x \in S |-> h[x]]
<1>1. g \in Surjection(S, T)
  BY DEF Surjection
<1> QED
  BY <1>1, FS_Surjection

\* A finite set of integers has a last one.
LEMMA FiniteHasLast ==
    ASSUME NEW S \in SUBSET Int, IsFiniteSet(S), S # {}
    PROVE  \E m \in S : \A n \in S : n <= m
<1> DEFINE Q == {T \in SUBSET S : T # {} => \E m \in T : \A n \in T : n <= m}
<1>1. ASSUME NEW T \in SUBSET S, \A U \in SUBSET T : U # T => U \in Q
      PROVE  T \in Q
  <2>1. SUFFICES ASSUME T # {} PROVE \E m \in T : \A n \in T : n <= m
    OBVIOUS
  <2>2. PICK x \in T : TRUE
    BY <2>1
  <2> DEFINE U == T \ {x}
  <2>3. U \in Q /\ T \subseteq Int
    BY <1>1
  <2>4. CASE U = {}
    BY <2>3, <2>4
  <2>5. CASE U # {}
    <3>1. PICK m \in U : \A n \in U : n <= m
      BY <2>3, <2>5
    <3>2. CASE x <= m
      BY <3>1, <3>2
    <3>3. CASE m < x
      <4>1. \A n \in T : n <= x
        BY <2>3, <3>1, <3>3
      <4> QED
        BY <4>1
    <3> QED
      BY <2>3, <3>1, <3>2, <3>3
  <2> QED
    BY <2>4, <2>5
<1>2. S \in Q
  <2> HIDE DEF Q
  <2> QED
    BY <1>1, SubsetInduction
<1> QED
  BY <1>2
----------------------------------------------------------------------------
(* A fold that takes the elements of a set in an order given by c, and its *)
(* value with g.                                                           *)

FoldNext(it, base, g, c, s) ==
    IF s = {} THEN base ELSE g[<<it[s \ {c[s]}], c[s]>>]

IsFold(it, base, g, c, S) == it = [s \in SUBSET S |-> FoldNext(it, base, g, c, s)]

Chooses(c, S) == \A s \in SUBSET S : s # {} => c[s] \in s

\* Two iterations, one over a larger set, agree on the smaller one.
LEMMA FoldUnique ==
    ASSUME NEW base, NEW g, NEW c, NEW S, NEW T, IsFiniteSet(T), T \subseteq S,
           Chooses(c, S), NEW it, NEW jt,
           IsFold(it, base, g, c, S), IsFold(jt, base, g, c, T)
    PROVE  it[T] = jt[T]
<1> DEFINE Q == {U \in SUBSET T : it[U] = jt[U]}
<1>1. ASSUME NEW U \in SUBSET T, \A V \in SUBSET U : V # U => V \in Q
      PROVE  U \in Q
  <2>1. /\ it[U] = FoldNext(it, base, g, c, U)
        /\ jt[U] = FoldNext(jt, base, g, c, U)
    BY DEF IsFold
  <2>2. CASE U = {}
    BY <2>1, <2>2 DEF FoldNext
  <2>3. CASE U # {}
    <3>1. U \ {c[U]} \in Q
      BY <1>1, <2>3 DEF Chooses
    <3> QED
      BY <2>1, <2>3, <3>1 DEF FoldNext
  <2> QED
    BY <2>2, <2>3
<1>2. T \in Q
  <2> HIDE DEF Q
  <2> QED
    BY <1>1, SubsetInduction
<1> QED
  BY <1>2

\* There is such a function, so the library's CHOOSE is one.
LEMMA FoldExists ==
    ASSUME NEW base, NEW g, NEW c, NEW S, IsFiniteSet(S), Chooses(c, S)
    PROVE  \E it : IsFold(it, base, g, c, S)
<1> DEFINE Q == {T \in SUBSET S : \E it : IsFold(it, base, g, c, T)}
<1>1. ASSUME NEW T \in SUBSET S, \A U \in SUBSET T : U # T => U \in Q
      PROVE  T \in Q
  <2>1. PICK V : \A U \in SUBSET T : U # T => IsFold(V[U], base, g, c, U)
    <3> DEFINE F == [U \in SUBSET T |-> CHOOSE it : IsFold(it, base, g, c, U)]
    <3>1. ASSUME NEW U \in SUBSET T, U # T PROVE IsFold(F[U], base, g, c, U)
      <4>1. \E it : IsFold(it, base, g, c, U)
        BY <1>1, <3>1
      <4> QED
        BY <4>1
    <3> HIDE DEF F
    <3> QED
      BY <3>1
  <2> DEFINE h == [s \in SUBSET T |->
                     IF s = {} THEN base
                     ELSE g[<<V[s \ {c[s]}][s \ {c[s]}], c[s]>>]]
  <2>2. ASSUME NEW U \in SUBSET T, U # T PROVE h[U] = V[U][U]
    <3>1. V[U][U] = FoldNext(V[U], base, g, c, U)
      BY <2>1, <2>2 DEF IsFold
    <3>2. CASE U = {}
      BY <3>1, <3>2 DEF FoldNext
    <3>3. CASE U # {}
      <4> DEFINE W == U \ {c[U]}
      <4>1. W \in SUBSET U /\ W \in SUBSET T /\ W # T
        BY <3>3 DEF Chooses
      <4>2. IsFold(V[W], base, g, c, W) /\ IsFold(V[U], base, g, c, U)
            /\ IsFiniteSet(W) /\ Chooses(c, U)
        BY <2>1, <2>2, <4>1, FS_Subset DEF Chooses
      <4>3. V[U][W] = V[W][W]
        <5> HIDE DEF W
        <5> QED
          BY <4>1, <4>2, FoldUnique
      <4> QED
        BY <3>1, <3>3, <4>3 DEF FoldNext
    <3> QED
      BY <3>2, <3>3
  <2>3. ASSUME NEW s \in SUBSET T PROVE h[s] = FoldNext(h, base, g, c, s)
    <3>1. CASE s = {}
      BY <3>1 DEF FoldNext
    <3>2. CASE s # {}
      <4> DEFINE W == s \ {c[s]}
      <4>1. W \in SUBSET T /\ W # T
        BY <3>2 DEF Chooses
      <4>2. h[W] = V[W][W]
        BY <2>2, <4>1
      <4>3. h[s] = g[<<V[W][W], c[s]>>]
        BY <3>2
      <4> QED
        BY <3>2, <4>2, <4>3 DEF FoldNext
    <3> QED
      BY <3>1, <3>2
  <2>4. IsFold(h, base, g, c, T)
    <3>1. h = [s \in SUBSET T |-> h[s]]
      OBVIOUS
    <3> HIDE DEF h
    <3> QED
      BY <2>3, <3>1 DEF IsFold
  <2> QED
    BY <2>4
<1>2. S \in Q
  <2> HIDE DEF Q
  <2> QED
    BY <1>1, SubsetInduction
<1> QED
  BY <1>2

\* Its values stay in any set that holds the base and is closed under g.
LEMMA FoldType ==
    ASSUME NEW base, NEW g, NEW c, NEW S, IsFiniteSet(S), Chooses(c, S), NEW it,
           IsFold(it, base, g, c, S), NEW V, base \in V,
           \A v \in V, x \in S : g[<<v, x>>] \in V
    PROVE  \A s \in SUBSET S : it[s] \in V
<1> DEFINE Q == {T \in SUBSET S : it[T] \in V}
<1>1. ASSUME NEW T \in SUBSET S, \A U \in SUBSET T : U # T => U \in Q
      PROVE  T \in Q
  <2>1. it[T] = FoldNext(it, base, g, c, T)
    BY DEF IsFold
  <2>2. CASE T = {}
    BY <2>1, <2>2 DEF FoldNext
  <2>3. CASE T # {}
    <3>1. T \ {c[T]} \in Q /\ c[T] \in S
      BY <1>1, <2>3 DEF Chooses
    <3> QED
      BY <2>1, <2>3, <3>1 DEF FoldNext
  <2> QED
    BY <2>2, <2>3
<1>2. ASSUME NEW T \in SUBSET S PROVE T \in Q
  <2>1. IsFiniteSet(T)
    BY FS_Subset
  <2>2. \A W \in SUBSET T : (\A U \in SUBSET W : U # W => U \in Q) => W \in Q
    BY <1>1
  <2> HIDE DEF Q
  <2> QED
    BY <2>1, <2>2, SubsetInduction
<1> QED
  BY <1>2

\* What holds of 0 and goes from n to n + 1 holds up to k.
LEMMA CountingInduction ==
    ASSUME NEW k \in Nat, NEW Q, 0 \in Q,
           \A n \in 0 .. k - 1 : n \in Q => n + 1 \in Q
    PROVE  \A n \in 0 .. k : n \in Q
<1> DEFINE Bad == {n \in 0 .. k : n \notin Q}
<1>1. SUFFICES ASSUME Bad # {} PROVE FALSE
  OBVIOUS
<1> DEFINE Below == {-n : n \in Bad}
<1>2. Below \in SUBSET Int /\ Below # {} /\ IsFiniteSet(Below)
  <2>1. IsFiniteSet(Bad)
    <3>1. IsFiniteSet(0 .. k) /\ Bad \subseteq 0 .. k
      BY FS_Interval
    <3> HIDE DEF Bad
    <3> QED
      BY <3>1, FS_Subset
  <2>2. IsFiniteSet(Below)
    <3> DEFINE h == [n \in Bad |-> -n]
    <3>1. Below = {h[n] : n \in Bad}
      OBVIOUS
    <3>2. IsFiniteSet({h[n] : n \in Bad})
      <4> HIDE DEF h, Bad
      <4> QED
        BY <2>1, FiniteImage
    <3> QED
      BY <3>1, <3>2
  <2> QED
    BY <1>1, <2>2
<1>3. PICK b \in Below : \A n \in Below : n <= b
  <2> HIDE DEF Below
  <2> QED
    BY <1>2, FiniteHasLast
<1>4. PICK m \in Bad : \A n \in Bad : m <= n
  <2>1. PICK m \in Bad : b = -m
    BY <1>3
  <2>2. \A n \in Bad : -n <= b
    BY <1>3
  <2>3. \A n \in Bad : m <= n
    BY <2>1, <2>2
  <2> QED
    BY <2>3
<1>5. m # 0 /\ m - 1 \in 0 .. k - 1 /\ m - 1 \notin Bad
  BY <1>4
<1> QED
  BY <1>4, <1>5

----------------------------------------------------------------------------
(* From left to right: the last element is the one that is taken last.     *)

LEMMA LastOfSome ==
    ASSUME NEW k \in Nat, NEW s \in SUBSET (1 .. k), s # {}
    PROVE  Max(s) \in s /\ \A n \in s : n <= Max(s)
<1>1. IsFiniteSet(s) /\ s \in SUBSET Int
  <2>1. IsFiniteSet(1 .. k)
    BY FS_Interval
  <2>2. IsFiniteSet(s)
    BY <2>1, FS_Subset
  <2> QED
    BY <2>2
<1>2. \E m \in s : \A n \in s : n <= m
  BY <1>1, FiniteHasLast
<1>3. \E m \in s : \A n \in s : m >= n
  BY <1>1, <1>2
<1> QED
  BY <1>1, <1>3 DEF Max

LEMMA LastOfInterval ==
    ASSUME NEW n \in Nat
    PROVE  /\ 1 .. n + 1 # {}
           /\ Max(1 .. n + 1) = n + 1
           /\ (1 .. n + 1) \ {Max(1 .. n + 1)} = 1 .. n
<1>1. 1 .. n + 1 # {} /\ n + 1 \in 1 .. n + 1
  OBVIOUS
<1>2. Max(1 .. n + 1) \in 1 .. n + 1 /\ \A m \in 1 .. n + 1 : m <= Max(1 .. n + 1)
  <2>1. n + 1 \in Nat
    OBVIOUS
  <2> QED
    BY <1>1, <2>1, LastOfSome
<1>3. Max(1 .. n + 1) = n + 1
  BY <1>1, <1>2
<1> QED
  BY <1>1, <1>3

ClosedOn(g, k, V) == \A v \in V, i \in 1 .. k : g[<<v, i>>] \in V

IsLeftFold(it, base, g, k, V) ==
    /\ it \in [SUBSET (1 .. k) -> V]
    /\ \A s \in SUBSET (1 .. k) :
          it[s] = IF s = {} THEN base ELSE g[<<it[s \ {Max(s)}], Max(s)>>]

\* The function that FoldLeft iterates, with g for its operator.
LEMMA FoldLeftExists ==
    ASSUME NEW k \in Nat, NEW V, NEW base \in V, NEW g, ClosedOn(g, k, V)
    PROVE  \E it : IsLeftFold(it, base, g, k, V)
<1> DEFINE S == 1 .. k
           c == [s \in SUBSET S |-> Max(s)]
<1>1. IsFiniteSet(S)
  BY FS_Interval
<1>2. Chooses(c, S)
  BY LastOfSome DEF Chooses
<1>3. \A v \in V, i \in S : g[<<v, i>>] \in V
  BY DEF ClosedOn
<1>4. \A s \in SUBSET S : c[s] = Max(s)
  OBVIOUS
<1> HIDE DEF c, S
<1>5. PICK it : IsFold(it, base, g, c, S)
  BY <1>1, <1>2, FoldExists
<1>6. \A s \in SUBSET S : it[s] \in V
  BY <1>1, <1>2, <1>3, <1>5, FoldType, Zenon
<1>7. it \in [SUBSET S -> V]
  BY <1>5, <1>6 DEF IsFold
<1>8. \A s \in SUBSET S :
        it[s] = IF s = {} THEN base ELSE g[<<it[s \ {Max(s)}], Max(s)>>]
  <2>1. \A s \in SUBSET S : it[s] = FoldNext(it, base, g, c, s)
    BY <1>5 DEF IsFold
  <2> QED
    BY <1>4, <2>1 DEF FoldNext
<1> QED
  BY <1>7, <1>8 DEF S, IsLeftFold

\* g is the operator of a fold, as far as values in V go.
FoldsWith(it, base, g, k, V) ==
    /\ it[{}] = base
    /\ \A s \in SUBSET (1 .. k) :
          s # {} /\ it[s \ {Max(s)}] \in V
             => it[s] = g[<<it[s \ {Max(s)}], Max(s)>>]

GoesAlong(walk, base, g, k, V) ==
    /\ walk \in [0 .. k -> V]
    /\ walk[0] = base
    /\ \A n \in 0 .. k - 1 : walk[n + 1] = g[<<walk[n], n + 1>>]

\* The fold of a sequence goes along it, one element at a time.
LEMMA FoldLeftWalk ==
    ASSUME NEW k \in Nat, NEW V, NEW base \in V, NEW g, ClosedOn(g, k, V),
           NEW it, FoldsWith(it, base, g, k, V)
    PROVE  \E walk : GoesAlong(walk, base, g, k, V) /\ walk[k] = it[1 .. k]
<1> DEFINE walk == [n \in 0 .. k |-> it[1 .. n]]
           Q == {n \in 0 .. k : walk[n] \in V}
<1>1. walk[0] = base
  <2>1. 1 .. 0 = {} /\ walk[0] = it[1 .. 0]
    OBVIOUS
  <2> QED
    BY <2>1, Zenon DEF FoldsWith
<1>2. ASSUME NEW n \in 0 .. k - 1, walk[n] \in V
      PROVE  walk[n + 1] = g[<<walk[n], n + 1>>]
  <2>1. walk[n + 1] = it[1 .. n + 1] /\ walk[n] = it[1 .. n]
    OBVIOUS
  <2> DEFINE s == 1 .. n + 1
  <2>2. s \in SUBSET (1 .. k) /\ n \in Nat
    OBVIOUS
  <2>3. s # {} /\ Max(s) = n + 1 /\ s \ {Max(s)} = 1 .. n
    BY <2>2, LastOfInterval
  <2> HIDE DEF walk, s
  <2>4. it[s \ {Max(s)}] \in V
    BY <1>2, <2>1, <2>3, Zenon
  <2>5. it[s] = g[<<it[s \ {Max(s)}], Max(s)>>]
    BY <2>2, <2>3, <2>4 DEF FoldsWith
  <2> QED
    BY <2>1, <2>3, <2>5, Zenon DEF s
<1>3. \A n \in 0 .. k : n \in Q
  <2>1. 0 \in Q
    <3> HIDE DEF walk
    <3> QED
      BY <1>1
  <2>2. ASSUME NEW n \in 0 .. k - 1, n \in Q PROVE n + 1 \in Q
    <3>1. n + 1 \in 0 .. k /\ n + 1 \in 1 .. k /\ walk[n] \in V
      BY <2>2
    <3> HIDE DEF walk
    <3> QED
      BY <1>2, <3>1 DEF ClosedOn
  <2> HIDE DEF Q
  <2> QED
    BY <2>1, <2>2, CountingInduction
<1>4. /\ walk \in [0 .. k -> V] /\ walk[k] = it[1 .. k]
      /\ \A n \in 0 .. k - 1 : walk[n] \in V
  BY <1>3
<1> HIDE DEF walk
<1> QED
  BY <1>1, <1>2, <1>4 DEF GoesAlong

\* What holds at the end, and at i if it holds after i, holds from 1 on.
LEMMA BackwardInduction ==
    ASSUME NEW k \in Nat, NEW Q, k + 1 \in Q,
           \A i \in 1 .. k : (\A j \in i + 1 .. k + 1 : j \in Q) => i \in Q
    PROVE  \A i \in 1 .. k + 1 : i \in Q
<1> DEFINE P == {n \in 0 .. k : \A j \in k + 1 - n .. k + 1 : j \in Q}
<1>1. 0 \in P
  OBVIOUS
<1>2. ASSUME NEW n \in 0 .. k - 1, n \in P PROVE n + 1 \in P
  <2>1. k - n \in 1 .. k /\ \A j \in (k - n) + 1 .. k + 1 : j \in Q
    BY <1>2
  <2>2. k - n \in Q
    BY <2>1
  <2>3. \A j \in k + 1 - (n + 1) .. k + 1 : j = k - n \/ j \in (k - n) + 1 .. k + 1
    OBVIOUS
  <2>4. \A j \in k + 1 - (n + 1) .. k + 1 : j \in Q
    BY <2>1, <2>2, <2>3
  <2> QED
    BY <2>4
<1>3. \A n \in 0 .. k : n \in P
  <2> HIDE DEF P
  <2> QED
    BY <1>1, <1>2, CountingInduction
<1>4. k \in P
  BY <1>3
<1> QED
  BY <1>4
=============================================================================
