------------------------------ MODULE SumTheorems ------------------------------
(***************************************************************************)
(* Sums of naturals over finite sets: what a wallet adds up when it asks    *)
(* how much of a balance its reservations lock.  SumFunctionOnSet of the    *)
(* community modules is a recursive function in a CHOOSE; that it is the    *)
(* number of units the amounts hold is shown with a least counterexample,   *)
(* and every other fact follows by counting.                                *)
(***************************************************************************)
EXTENDS Functions, FiniteSets, FiniteSetTheorems, TLAPS

\* One element for every unit of every amount.
Units(f, S) == {u \in S \X Nat : 1 <= u[2] /\ u[2] <= f[u[1]]}

\* Of the subsets of a finite set that are bad, one is bad without any of its
\* subsets by one element being so.
LEMMA LeastCounterexample ==
    ASSUME NEW S, IsFiniteSet(S), NEW Bad \in SUBSET SUBSET S, Bad # {}
    PROVE  \E T \in Bad : \A x \in T : T \ {x} \notin Bad
<1>1. IsWellFoundedOn(StrictSubsetOrdering(S), SUBSET S)
    BY FS_StrictSubsetOrderingWellFounded, FS_FiniteSubsetsOfFinite
<1>2. PICK T \in Bad : \A U \in Bad : <<U, T>> \notin StrictSubsetOrdering(S)
    BY <1>1, WFMin
<1>3. ASSUME NEW x \in T PROVE T \ {x} \notin Bad
    <2>1. <<T \ {x}, T>> \in StrictSubsetOrdering(S)
        BY DEF StrictSubsetOrdering
    <2>. QED
        BY <1>2, <2>1
<1>. QED
    BY <1>3

\* One amount holds as many units as it is.
LEMMA UnitsOfOne ==
    ASSUME NEW x, NEW n \in Nat
    PROVE  /\ IsFiniteSet({x} \X (1..n))
           /\ Cardinality({x} \X (1..n)) = n
<1>. DEFINE b == [i \in 1..n |-> <<x, i>>]
<1>1. b \in Bijection(1..n, {x} \X (1..n))
    BY DEF Bijection, Injection, Surjection, IsInjective
<1>2. ExistsBijection(1..n, {x} \X (1..n))
    BY <1>1 DEF ExistsBijection
<1>3. IsFiniteSet(1..n)
    BY FS_Interval
<1>. QED
    BY <1>2, <1>3, FS_CountingElements, FS_Bijection

\* The units of one amount are apart from those of the others.
LEMMA UnitsSplit ==
    ASSUME NEW S, NEW f, \A y \in S : f[y] \in Nat, NEW x \in S
    PROVE  /\ Units(f, S) = Units(f, S \ {x}) \cup ({x} \X (1..f[x]))
           /\ Units(f, S \ {x}) \cap ({x} \X (1..f[x])) = {}
<1>1. ASSUME NEW u \in Units(f, S)
      PROVE  u \in Units(f, S \ {x}) \cup ({x} \X (1..f[x]))
    <2>1. CASE u[1] = x
        BY <1>1, <2>1 DEF Units
    <2>2. CASE u[1] # x
        BY <1>1, <2>2 DEF Units
    <2>. QED
        BY <2>1, <2>2
<1>2. ASSUME NEW u \in {x} \X (1..f[x])
      PROVE  u \in Units(f, S) /\ u \notin Units(f, S \ {x})
    BY <1>2 DEF Units
<1>3. Units(f, S \ {x}) \subseteq Units(f, S)
    BY DEF Units
<1>. QED
    BY <1>1, <1>2, <1>3

\* Finitely many amounts hold finitely many units.
LEMMA UnitsFinite ==
    ASSUME NEW S, IsFiniteSet(S), NEW f, \A y \in S : f[y] \in Nat
    PROVE  IsFiniteSet(Units(f, S))
<1>. DEFINE Bad == {T \in SUBSET S : ~IsFiniteSet(Units(f, T))}
<1>1. SUFFICES ASSUME Bad # {} PROVE FALSE
    OBVIOUS
<1>2. PICK T \in Bad : \A x \in T : T \ {x} \notin Bad
    BY <1>1, LeastCounterexample
<1>3. CASE T = {}
    <2>1. Units(f, T) = {}
        BY <1>3 DEF Units
    <2>. QED
        BY <2>1, FS_EmptySet
<1>4. CASE T # {}
    <2>1. PICK x \in T : TRUE
        BY <1>4
    <2>2. IsFiniteSet(Units(f, T \ {x}))
        BY <1>2, <2>1
    <2>3. IsFiniteSet({x} \X (1..f[x]))
        BY UnitsOfOne, <2>1
    <2>4. Units(f, T) = Units(f, T \ {x}) \cup ({x} \X (1..f[x]))
        BY UnitsSplit, <2>1
    <2>5. IsFiniteSet(Units(f, T \ {x}) \cup ({x} \X (1..f[x])))
        BY <2>2, <2>3, FS_Union
    <2>. QED
        BY <2>4, <2>5
<1>. QED
    BY <1>3, <1>4

\* One amount and the others hold the units together.
LEMMA UnitsCount ==
    ASSUME NEW S, IsFiniteSet(S), NEW f, \A y \in S : f[y] \in Nat, NEW x \in S
    PROVE  Cardinality(Units(f, S)) = f[x] + Cardinality(Units(f, S \ {x}))
<1>. DEFINE A == Units(f, S \ {x})
            B == {x} \X (1..f[x])
<1>1. IsFiniteSet(S \ {x})
    BY FS_RemoveElement
<1>2. IsFiniteSet(A)
    BY <1>1, UnitsFinite
<1>3. IsFiniteSet(B) /\ Cardinality(B) = f[x]
    BY UnitsOfOne
<1>4. Units(f, S) = A \cup B /\ A \cap B = {}
    BY UnitsSplit
<1>5. Cardinality(A) \in Nat
    BY <1>2, FS_CardinalityType
<1>6. Cardinality(A \cup B) = Cardinality(A) + Cardinality(B) - Cardinality(A \cap B)
    BY <1>2, <1>3, FS_Union
<1>7. Cardinality(A \cap B) = 0
    BY <1>4, FS_EmptySet
<1>. QED
    BY <1>3, <1>4, <1>5, <1>6, <1>7

\* The element the fold takes first, and the equation it solves.
Pick(S) == CHOOSE x \in S : TRUE

Body(f, S, g) ==
    [T \in SUBSET S |->
        IF T = {} THEN 0 ELSE f[Pick(T)] + g[T \ {Pick(T)}]]

\* The sum is a solution of that equation, if it has one.
LEMMA SumIsChosen ==
    ASSUME NEW f, NEW S
    PROVE  SumFunctionOnSet(f, S) = (CHOOSE g : g = Body(f, S, g))[S]
BY DEF SumFunctionOnSet, FoldFunctionOnSet, MapThenFoldSet, Body, Pick

\* Counting the units solves it.
LEMMA CountSolves ==
    ASSUME NEW S, IsFiniteSet(S), NEW f, \A y \in S : f[y] \in Nat,
           NEW g, g = [T \in SUBSET S |-> Cardinality(Units(f, T))]
    PROVE  g = Body(f, S, g)
<1>1. ASSUME NEW T \in SUBSET S
      PROVE  g[T] = IF T = {} THEN 0 ELSE f[Pick(T)] + g[T \ {Pick(T)}]
    <2>1. CASE T = {}
        <3>1. Units(f, T) = {}
            BY <2>1 DEF Units
        <3>. QED
            BY <2>1, <3>1, FS_EmptySet
    <2>2. CASE T # {}
        <3>1. Pick(T) \in T
            BY <2>2 DEF Pick
        <3>2. IsFiniteSet(T)
            BY FS_Subset
        <3>. QED
            BY <2>2, <3>1, <3>2, UnitsCount
    <2>. QED
        BY <2>1, <2>2
<1>. QED
    BY <1>1 DEF Body

\* It has no two solutions.
LEMMA SolutionsAgree ==
    ASSUME NEW S, IsFiniteSet(S), NEW f, NEW g, NEW h,
           g = Body(f, S, g), h = Body(f, S, h)
    PROVE  g[S] = h[S]
<1>. DEFINE Bad == {T \in SUBSET S : g[T] # h[T]}
<1>1. SUFFICES ASSUME Bad # {} PROVE FALSE
    OBVIOUS
<1>2. PICK T \in Bad : \A x \in T : T \ {x} \notin Bad
    BY <1>1, LeastCounterexample
<1>3. /\ g[T] = IF T = {} THEN 0 ELSE f[Pick(T)] + g[T \ {Pick(T)}]
      /\ h[T] = IF T = {} THEN 0 ELSE f[Pick(T)] + h[T \ {Pick(T)}]
    BY DEF Body
<1>4. T # {}
    BY <1>3
<1>5. Pick(T) \in T
    BY <1>4 DEF Pick
<1>6. g[T \ {Pick(T)}] = h[T \ {Pick(T)}]
    BY <1>2, <1>5
<1>. QED
    BY <1>3, <1>6

\* The sum of finitely many naturals is the number of their units.
THEOREM SumCounts ==
    ASSUME NEW S, IsFiniteSet(S), NEW f, \A y \in S : f[y] \in Nat
    PROVE  SumFunctionOnSet(f, S) = Cardinality(Units(f, S))
<1>. DEFINE g == [T \in SUBSET S |-> Cardinality(Units(f, T))]
            h == CHOOSE k : k = Body(f, S, k)
<1>1. g = Body(f, S, g)
    BY CountSolves, ZenonT(40)
<1>2. h = Body(f, S, h)
    BY <1>1
<1>3. h[S] = g[S]
    BY <1>1, <1>2, SolutionsAgree
<1>. QED
    BY <1>3, SumIsChosen

\* No amounts add up to nothing.
LEMMA SumOfNone ==
    ASSUME NEW f
    PROVE  SumFunctionOnSet(f, {}) = 0
<1>1. Units(f, {}) = {}
    BY DEF Units
<1>. QED
    BY <1>1, SumCounts, FS_EmptySet

\* Finitely many naturals add up to a natural.
LEMMA SumType ==
    ASSUME NEW S, IsFiniteSet(S), NEW f, \A y \in S : f[y] \in Nat
    PROVE  SumFunctionOnSet(f, S) \in Nat
BY SumCounts, UnitsFinite, FS_CardinalityType

\* One amount may be added last.
LEMMA SumSplit ==
    ASSUME NEW S, IsFiniteSet(S), NEW f, \A y \in S : f[y] \in Nat, NEW x \in S
    PROVE  SumFunctionOnSet(f, S) = f[x] + SumFunctionOnSet(f, S \ {x})
<1>1. IsFiniteSet(S \ {x})
    BY FS_RemoveElement
<1>. QED
    BY <1>1, SumCounts, UnitsCount

\* Fewer amounts add up to no more.
LEMMA SumMonotone ==
    ASSUME NEW S, IsFiniteSet(S), NEW f, \A y \in S : f[y] \in Nat,
           NEW T \in SUBSET S
    PROVE  SumFunctionOnSet(f, T) <= SumFunctionOnSet(f, S)
<1>1. Units(f, T) \subseteq Units(f, S)
    BY DEF Units
<1>2. IsFiniteSet(T)
    BY FS_Subset
<1>3. Cardinality(Units(f, T)) <= Cardinality(Units(f, S))
    BY <1>1, UnitsFinite, FS_Subset
<1>. QED
    BY <1>2, <1>3, SumCounts

\* Equal amounts have equal sums.
LEMMA SumAgrees ==
    ASSUME NEW S, IsFiniteSet(S),
           NEW f, \A y \in S : f[y] \in Nat,
           NEW g, \A y \in S : g[y] = f[y]
    PROVE  SumFunctionOnSet(f, S) = SumFunctionOnSet(g, S)
<1>1. Units(f, S) = Units(g, S)
    BY DEF Units
<1>. QED
    BY <1>1, SumCounts

===============================================================================
