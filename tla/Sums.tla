-------------------------------- MODULE Sums --------------------------------
(***************************************************************************)
(* Sums over finite sets: what SumFunctionOnSet and MapThenSumSet of the   *)
(* community modules add up, for every function and every finite set.      *)
(* Both are defined by recursion over the subsets of the set, so each fact *)
(* is by induction on a finite set, here in the form that the provers can  *)
(* use: a non-empty set of subsets has a minimal one (SmallestSubset).     *)
(***************************************************************************)
EXTENDS Integers, FiniteSets, FiniteSetsExt, Functions, TLAPS,
        FiniteSetTheorems, WellFoundedInduction

(* Among the subsets of a finite set that have a property, one is such that *)
(* none of its strict subsets has it.                                      *)
LEMMA SmallestSubset ==
  ASSUME NEW S, IsFiniteSet(S), NEW F \in SUBSET (SUBSET S), F # {}
  PROVE  \E X \in F : \A Y \in F : Y \subseteq X => Y = X
<1> DEFINE R == StrictSubsetOrdering(S)
<1>1. IsWellFoundedOn(R, FiniteSubsetsOf(S))
  BY FS_StrictSubsetOrderingWellFounded
<1>2. F \subseteq FiniteSubsetsOf(S)
  BY FS_FiniteSubsetsOfFinite
<1> HIDE DEF R
<1>3. PICK X \in F : \A Y \in F : ~ (<<Y, X>> \in R)
  BY <1>1, <1>2, WFMin
<1>4. ASSUME NEW Y \in F, Y \subseteq X, Y # X PROVE FALSE
  <2>1. <<Y, X>> \in (SUBSET S) \X (SUBSET S)
    OBVIOUS
  <2> QED BY <1>3, <1>4, <2>1 DEF R, StrictSubsetOrdering
<1> QED BY <1>3, <1>4

(* A finite set of integers that is not empty has a greatest element.      *)
LEMMA GreatestElement ==
  ASSUME NEW S, IsFiniteSet(S), S # {}, \A x \in S : x \in Int
  PROVE  /\ Max(S) \in S
         /\ \A x \in S : x <= Max(S)
<1> DEFINE Above(x) == {y \in S : y > x}
           F == {Above(x) : x \in S}
<1>1. F \in SUBSET (SUBSET S) /\ F # {}
  OBVIOUS
<1>2. PICK X \in F : \A Y \in F : Y \subseteq X => Y = X
  <2> HIDE DEF F
  <2> QED BY <1>1, SmallestSubset
<1>3. PICK x \in S : X = Above(x)
  OBVIOUS
<1>4. ASSUME NEW y \in S, y > x PROVE FALSE
  <2>1. Above(y) \in F /\ y \in Above(x) /\ y \notin Above(y)
    BY <1>4
  <2>2. \A z \in S : z > y => z > x
    BY <1>4
  <2>3. Above(y) \subseteq Above(x)
    BY <2>2
  <2> QED BY <1>2, <1>3, <2>1, <2>3
<1>5. \A y \in S : x >= y
  BY <1>4
<1> QED BY <1>5 DEF Max

-----------------------------------------------------------------------------
Pick(s) == CHOOSE x \in s : TRUE

(* The function by which the sum of f over S is defined.                   *)
Adds(f, S, g) ==
  g = [s \in SUBSET S |-> IF s = {} THEN 0 ELSE f[Pick(s)] + g[s \ {Pick(s)}]]

Added(f, S) == CHOOSE g : Adds(f, S, g)

LEMMA SumIsAdded ==
  ASSUME NEW f, NEW S
  PROVE  SumFunctionOnSet(f, S) = Added(f, S)[S]
BY DEF SumFunctionOnSet, FoldFunctionOnSet, MapThenFoldSet, Pick, Adds, Added

(* There is one on every finite set, and only one.                         *)
LEMMA OnlyOneAdds ==
  ASSUME NEW f, NEW S, IsFiniteSet(S), NEW T \in SUBSET S,
         NEW g, NEW h, Adds(f, S, g), Adds(f, T, h)
  PROVE  \A X \in SUBSET T : g[X] = h[X]
<1> DEFINE F == {X \in SUBSET T : g[X] # h[X]}
<1>1. SUFFICES ASSUME F # {} PROVE FALSE
  OBVIOUS
<1>2. IsFiniteSet(T)
  BY FS_Subset
<1>0. F \in SUBSET (SUBSET T)
  OBVIOUS
<1>3. PICK X \in F : \A Y \in F : Y \subseteq X => Y = X
  <2> HIDE DEF F
  <2> QED BY <1>0, <1>1, <1>2, SmallestSubset
<1>4. X \in SUBSET S /\ X \in SUBSET T
  BY <1>3
<1>5. CASE X = {}
  BY <1>3, <1>4, <1>5 DEF Adds
<1>6. CASE X # {}
  <2> DEFINE Y == X \ {Pick(X)}
  <2>1. Pick(X) \in X
    BY <1>6 DEF Pick
  <2>2. Y \in SUBSET T /\ Y \subseteq X /\ Y # X
    BY <2>1, <1>4
  <2>3. g[Y] = h[Y]
    BY <1>3, <2>2
  <2>4. g[X] = f[Pick(X)] + g[Y] /\ h[X] = f[Pick(X)] + h[Y]
    BY <1>4, <1>6 DEF Adds
  <2> QED BY <1>3, <2>3, <2>4
<1> QED BY <1>5, <1>6

LEMMA SomethingAdds ==
  ASSUME NEW f, NEW S, IsFiniteSet(S)
  PROVE  \E g : Adds(f, S, g)
<1> DEFINE F == {X \in SUBSET S : ~ \E g : Adds(f, X, g)}
<1>1. SUFFICES ASSUME F # {} PROVE FALSE
  OBVIOUS
<1>0. F \in SUBSET (SUBSET S)
  OBVIOUS
<1>2. PICK X \in F : \A Y \in F : Y \subseteq X => Y = X
  <2> HIDE DEF F
  <2> QED BY <1>0, <1>1, SmallestSubset
<1>3. \A Y \in SUBSET X : IsFiniteSet(Y)
  BY FS_Subset
<1>4. \A Y \in SUBSET X : Y # X => Adds(f, Y, Added(f, Y))
  BY <1>2 DEF Added
<1> DEFINE h == [s \in SUBSET X |->
                   IF s = {} THEN 0
                   ELSE f[Pick(s)] + Added(f, s \ {Pick(s)})[s \ {Pick(s)}]]
<1>5. ASSUME NEW s \in SUBSET X, s # {}
      PROVE  Added(f, s \ {Pick(s)})[s \ {Pick(s)}] = h[s \ {Pick(s)}]
  <2> DEFINE t == s \ {Pick(s)}
  <2>1. Pick(s) \in s
    BY <1>5 DEF Pick
  <2>2. t \in SUBSET X /\ t # X
    BY <2>1
  <2>3. Adds(f, t, Added(f, t))
    BY <1>4, <2>2
  <2>4. CASE t = {}
    BY <2>2, <2>3, <2>4 DEF Adds
  <2>5. CASE t # {}
    <3> DEFINE u == t \ {Pick(t)}
    <3>1. Pick(t) \in t
      BY <2>5 DEF Pick
    <3>2. u \in SUBSET t /\ u # X /\ u \in SUBSET X
      BY <3>1, <2>2
    <3>3. Adds(f, u, Added(f, u))
      BY <1>4, <3>2
    <3>4. Added(f, t)[u] = Added(f, u)[u]
      BY <1>3, <2>2, <2>3, <3>2, <3>3, OnlyOneAdds
    <3>5. Added(f, t)[t] = f[Pick(t)] + Added(f, t)[u]
      BY <2>3, <2>5 DEF Adds
    <3>6. h[t] = f[Pick(t)] + Added(f, u)[u]
      BY <2>2, <2>5
    <3> QED BY <3>4, <3>5, <3>6
  <2> QED BY <2>4, <2>5
<1>6. Adds(f, X, h)
  BY <1>5 DEF Adds
<1> QED BY <1>2, <1>6

-----------------------------------------------------------------------------
(* What a sum over a finite set is.                                        *)

LEMMA SumOverNothing ==
  ASSUME NEW f
  PROVE  SumFunctionOnSet(f, {}) = 0
<1>1. Adds(f, {}, Added(f, {}))
  BY SomethingAdds, FS_EmptySet DEF Added
<1> QED BY <1>1, SumIsAdded DEF Adds

LEMMA SumFromPicked ==
  ASSUME NEW f, NEW S, IsFiniteSet(S), S # {}
  PROVE  /\ Pick(S) \in S
         /\ SumFunctionOnSet(f, S)
              = f[Pick(S)] + SumFunctionOnSet(f, S \ {Pick(S)})
<1> DEFINE T == S \ {Pick(S)}
<1>1. Pick(S) \in S
  BY DEF Pick
<1>2. T \in SUBSET S /\ IsFiniteSet(T)
  BY FS_Subset
<1>3. Adds(f, S, Added(f, S)) /\ Adds(f, T, Added(f, T))
  BY <1>2, SomethingAdds DEF Added
<1>4. Added(f, S)[S] = f[Pick(S)] + Added(f, S)[T]
  BY <1>3 DEF Adds
<1>5. Added(f, S)[T] = Added(f, T)[T]
  <2>1. T \in SUBSET T
    OBVIOUS
  <2> HIDE DEF T
  <2> QED BY <1>2, <1>3, <2>1, OnlyOneAdds
<1> QED BY <1>1, <1>4, <1>5, SumIsAdded

(* A sum of integers is one, and of natural numbers too.                   *)
LEMMA SumType ==
  ASSUME NEW f, NEW S, IsFiniteSet(S), \A x \in S : f[x] \in Int
  PROVE  /\ SumFunctionOnSet(f, S) \in Int
         /\ (\A x \in S : f[x] >= 0) => SumFunctionOnSet(f, S) >= 0
<1> DEFINE Right(X) == /\ SumFunctionOnSet(f, X) \in Int
                       /\ (\A x \in X : f[x] >= 0) => SumFunctionOnSet(f, X) >= 0
           F == {X \in SUBSET S : ~Right(X)}
<1>1. SUFFICES ASSUME F # {} PROVE FALSE
  BY DEF F
<1>2. PICK X \in F : \A Y \in F : Y \subseteq X => Y = X
  <2>1. F \in SUBSET (SUBSET S)
    OBVIOUS
  <2> HIDE DEF F
  <2> QED BY <1>1, <2>1, SmallestSubset
<1>3. IsFiniteSet(X)
  BY FS_Subset
<1>4. CASE X = {}
  BY <1>2, <1>4, SumOverNothing
<1>5. CASE X # {}
  <2> DEFINE p == Pick(X)
             Y == X \ {p}
  <2>1. p \in X /\ SumFunctionOnSet(f, X) = f[p] + SumFunctionOnSet(f, Y)
    BY <1>3, <1>5, SumFromPicked
  <2>2. Right(Y)
    BY <1>2, <2>1
  <2> HIDE DEF p
  <2>3. f[p] \in Int /\ SumFunctionOnSet(f, Y) \in Int
    BY <2>1, <2>2
  <2>4. SumFunctionOnSet(f, X) \in Int
    BY <2>1, <2>3
  <2>5. (\A x \in X : f[x] >= 0) => SumFunctionOnSet(f, X) >= 0
    BY <2>1, <2>2, <2>3
  <2> QED BY <1>2, <2>4, <2>5
<1> QED BY <1>4, <1>5

(* Any element may be counted last.                                        *)
LEMMA SumRemove ==
  ASSUME NEW f, NEW S, IsFiniteSet(S), \A x \in S : f[x] \in Int, NEW x \in S
  PROVE  SumFunctionOnSet(f, S) = f[x] + SumFunctionOnSet(f, S \ {x})
<1> DEFINE Right(X) == \A y \in X : SumFunctionOnSet(f, X) = f[y] + SumFunctionOnSet(f, X \ {y})
           F == {X \in SUBSET S : ~Right(X)}
<1>1. SUFFICES ASSUME F # {} PROVE FALSE
  BY DEF F
<1>2. PICK X \in F : \A Y \in F : Y \subseteq X => Y = X
  <2>1. F \in SUBSET (SUBSET S)
    OBVIOUS
  <2> HIDE DEF F
  <2> QED BY <1>1, <2>1, SmallestSubset
<1>3. \A Y \in SUBSET X : IsFiniteSet(Y) /\ SumFunctionOnSet(f, Y) \in Int
  <2>1. \A Y \in SUBSET X : IsFiniteSet(Y)
    BY FS_Subset
  <2>2. ASSUME NEW Y \in SUBSET X PROVE SumFunctionOnSet(f, Y) \in Int
    BY <2>1, SumType
  <2> QED BY <2>1, <2>2
<1>4. ASSUME NEW y \in X
      PROVE  SumFunctionOnSet(f, X) = f[y] + SumFunctionOnSet(f, X \ {y})
  <2> DEFINE p == Pick(X)
             Z == X \ {p, y}
  <2>1. p \in X /\ SumFunctionOnSet(f, X) = f[p] + SumFunctionOnSet(f, X \ {p})
    BY <1>3, SumFromPicked
  <2> HIDE DEF p
  <2>2. CASE p = y
    BY <2>1, <2>2
  <2>3. CASE p # y
    <3>1. Right(X \ {p}) /\ Right(X \ {y})
      BY <1>2, <2>1
    <3>2. (X \ {p}) \ {y} = Z /\ (X \ {y}) \ {p} = Z
      OBVIOUS
    <3>3. SumFunctionOnSet(f, X \ {p}) = f[y] + SumFunctionOnSet(f, Z)
      BY <2>3, <3>1, <3>2
    <3>4. SumFunctionOnSet(f, X \ {y}) = f[p] + SumFunctionOnSet(f, Z)
      BY <2>1, <2>3, <3>1, <3>2
    <3>5. f[p] \in Int /\ f[y] \in Int /\ SumFunctionOnSet(f, Z) \in Int
      BY <1>3, <2>1
    <3> QED BY <2>1, <3>3, <3>4, <3>5
  <2> QED BY <2>2, <2>3
<1> QED BY <1>2, <1>4


(* Functions that agree on the set have the same sum.                      *)
LEMMA SumSame ==
  ASSUME NEW f, NEW h, NEW S, IsFiniteSet(S), \A x \in S : f[x] = h[x]
  PROVE  SumFunctionOnSet(f, S) = SumFunctionOnSet(h, S)
<1> DEFINE F == {X \in SUBSET S : SumFunctionOnSet(f, X) # SumFunctionOnSet(h, X)}
<1>1. SUFFICES ASSUME F # {} PROVE FALSE
  BY DEF F
<1>2. PICK X \in F : \A Y \in F : Y \subseteq X => Y = X
  <2>1. F \in SUBSET (SUBSET S)
    OBVIOUS
  <2> HIDE DEF F
  <2> QED BY <1>1, <2>1, SmallestSubset
<1>3. IsFiniteSet(X)
  BY FS_Subset
<1>4. CASE X = {}
  BY <1>2, <1>4, SumOverNothing
<1>5. CASE X # {}
  <2> DEFINE p == Pick(X)
             Y == X \ {p}
  <2>1. /\ p \in X
        /\ SumFunctionOnSet(f, X) = f[p] + SumFunctionOnSet(f, Y)
        /\ SumFunctionOnSet(h, X) = h[p] + SumFunctionOnSet(h, Y)
    BY <1>3, <1>5, SumFromPicked
  <2>2. SumFunctionOnSet(f, Y) = SumFunctionOnSet(h, Y)
    BY <1>2, <2>1
  <2>3. f[p] = h[p]
    BY <2>1
  <2> QED BY <1>2, <2>1, <2>2, <2>3
<1> QED BY <1>4, <1>5

(* One value changes, and the sum by as much.                              *)
LEMMA SumOneChanged ==
  ASSUME NEW f, NEW h, NEW S, IsFiniteSet(S), NEW x \in S,
         \A y \in S : f[y] \in Int /\ h[y] \in Int,
         \A y \in S \ {x} : f[y] = h[y]
  PROVE  SumFunctionOnSet(h, S) = SumFunctionOnSet(f, S) + (h[x] - f[x])
<1>1. IsFiniteSet(S \ {x})
  BY FS_Subset
<1>2. SumFunctionOnSet(f, S) = f[x] + SumFunctionOnSet(f, S \ {x})
  BY SumRemove
<1>3. SumFunctionOnSet(h, S) = h[x] + SumFunctionOnSet(h, S \ {x})
  BY SumRemove
<1>4. SumFunctionOnSet(f, S \ {x}) = SumFunctionOnSet(h, S \ {x})
  BY <1>1, SumSame
<1>5. SumFunctionOnSet(f, S \ {x}) \in Int
  BY <1>1, SumType
<1> QED BY <1>2, <1>3, <1>4, <1>5

(* The sum of the sums of two functions is that of their sum.              *)
LEMMA SumPlus ==
  ASSUME NEW f, NEW h, NEW k, NEW S, IsFiniteSet(S),
         \A x \in S : f[x] \in Int /\ h[x] \in Int /\ k[x] = f[x] + h[x]
  PROVE  SumFunctionOnSet(k, S) = SumFunctionOnSet(f, S) + SumFunctionOnSet(h, S)
<1> DEFINE F == {X \in SUBSET S :
                   SumFunctionOnSet(k, X) # SumFunctionOnSet(f, X) + SumFunctionOnSet(h, X)}
<1>1. SUFFICES ASSUME F # {} PROVE FALSE
  BY DEF F
<1>2. PICK X \in F : \A Y \in F : Y \subseteq X => Y = X
  <2>1. F \in SUBSET (SUBSET S)
    OBVIOUS
  <2> HIDE DEF F
  <2> QED BY <1>1, <2>1, SmallestSubset
<1>3. \A Y \in SUBSET X : IsFiniteSet(Y)
  BY FS_Subset
<1>4. CASE X = {}
  BY <1>2, <1>4, SumOverNothing
<1>5. CASE X # {}
  <2> DEFINE p == Pick(X)
             Y == X \ {p}
  <2>1. /\ p \in X
        /\ SumFunctionOnSet(f, X) = f[p] + SumFunctionOnSet(f, Y)
        /\ SumFunctionOnSet(h, X) = h[p] + SumFunctionOnSet(h, Y)
        /\ SumFunctionOnSet(k, X) = k[p] + SumFunctionOnSet(k, Y)
    BY <1>3, <1>5, SumFromPicked
  <2>2. SumFunctionOnSet(k, Y) = SumFunctionOnSet(f, Y) + SumFunctionOnSet(h, Y)
    BY <1>2, <2>1
  <2>3. f[p] \in Int /\ h[p] \in Int /\ k[p] = f[p] + h[p]
    BY <2>1
  <2>4. SumFunctionOnSet(f, Y) \in Int /\ SumFunctionOnSet(h, Y) \in Int
    BY <1>3, SumType
  <2> HIDE DEF p, Y
  <2>5. SumFunctionOnSet(k, X) = SumFunctionOnSet(f, X) + SumFunctionOnSet(h, X)
    BY <2>1, <2>2, <2>3, <2>4
  <2> QED BY <1>2, <2>5
<1> QED BY <1>4, <1>5

(* A sum over part of a set is one over all of it in which the rest is 0.  *)
LEMMA SumWhere ==
  ASSUME NEW f, NEW h, NEW S, IsFiniteSet(S), NEW T \in SUBSET S,
         \A x \in S : f[x] \in Int /\ h[x] = IF x \in T THEN f[x] ELSE 0
  PROVE  SumFunctionOnSet(f, T) = SumFunctionOnSet(h, S)
<1> DEFINE F == {X \in SUBSET S : SumFunctionOnSet(f, X \cap T) # SumFunctionOnSet(h, X)}
<1>1. SUFFICES ASSUME F # {} PROVE FALSE
  <2>1. S \in SUBSET S /\ S \cap T = T
    OBVIOUS
  <2> QED BY <2>1 DEF F
<1>2. PICK X \in F : \A Y \in F : Y \subseteq X => Y = X
  <2>1. F \in SUBSET (SUBSET S)
    OBVIOUS
  <2> HIDE DEF F
  <2> QED BY <1>1, <2>1, SmallestSubset
<1>3. \A Y \in SUBSET X : IsFiniteSet(Y)
  BY FS_Subset
<1>4. CASE X = {}
  <2>1. X \cap T = {}
    BY <1>4
  <2> QED BY <1>2, <1>4, <2>1, SumOverNothing
<1>5. CASE X # {}
  <2> DEFINE p == Pick(X)
             Y == X \ {p}
  <2>1. /\ p \in X
        /\ SumFunctionOnSet(h, X) = h[p] + SumFunctionOnSet(h, Y)
    BY <1>3, <1>5, SumFromPicked
  <2>2. SumFunctionOnSet(f, Y \cap T) = SumFunctionOnSet(h, Y)
    BY <1>2, <2>1
  <2>3. SumFunctionOnSet(f, Y \cap T) \in Int
    <3>1. IsFiniteSet(Y \cap T)
      BY <1>3
    <3> QED BY <3>1, SumType
  <2>4. CASE p \in T
    <3>1. (X \cap T) \ {p} = Y \cap T /\ p \in X \cap T /\ IsFiniteSet(X \cap T)
      BY <1>3, <2>1, <2>4
    <3>2. SumFunctionOnSet(f, X \cap T) = f[p] + SumFunctionOnSet(f, Y \cap T)
      BY <3>1, SumRemove
    <3> QED BY <1>2, <2>1, <2>2, <2>4, <3>2
  <2>5. CASE p \notin T
    <3>1. X \cap T = Y \cap T
      BY <2>5
    <3>2. h[p] = 0
      BY <2>1, <2>5
    <3> QED BY <1>2, <2>1, <2>2, <2>3, <3>1, <3>2
  <2> QED BY <2>4, <2>5
<1> QED BY <1>4, <1>5

(* No part of a sum of natural numbers is more than the whole.             *)
LEMMA SumBounds ==
  ASSUME NEW f, NEW S, IsFiniteSet(S), \A x \in S : f[x] \in Int /\ f[x] >= 0,
         NEW x \in S
  PROVE  f[x] <= SumFunctionOnSet(f, S)
<1>1. IsFiniteSet(S \ {x})
  BY FS_Subset
<1>2. SumFunctionOnSet(f, S \ {x}) \in Int /\ SumFunctionOnSet(f, S \ {x}) >= 0
  BY <1>1, SumType
<1>3. SumFunctionOnSet(f, S) = f[x] + SumFunctionOnSet(f, S \ {x})
  BY SumRemove
<1> QED BY <1>2, <1>3

=============================================================================
