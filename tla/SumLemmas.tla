----------------------------- MODULE SumLemmas -----------------------------
(***************************************************************************)
(* Facts about the sums the models take over symbols and over fills, that  *)
(* is about SumFunctionOnSet of the community module Functions.  The fold  *)
(* is a recursive function on the subsets of its index set; each fact is   *)
(* proved on a smallest subset that would be an exception to it, which the *)
(* well-founded ordering of finite subsets provides.                       *)
(***************************************************************************)
EXTENDS Integers, FiniteSets, Functions, FiniteSetTheorems,
        WellFoundedInduction, TLAPS

Pick(s) == CHOOSE x \in s : TRUE

\* The equation that the fold's recursive function on the subsets of S solves.
SolvesSum(h, f, S) ==
  h = [s \in SUBSET S |-> IF s = {} THEN 0 ELSE f[Pick(s)] + h[s \ {Pick(s)}]]

Total(f, S) == (CHOOSE h : SolvesSum(h, f, S))[S]

\* The community modules' sum is the total defined here.
LEMMA SumIsTotal ==
  ASSUME NEW f, NEW S
  PROVE  SumFunctionOnSet(f, S) = Total(f, S)
BY DEF SumFunctionOnSet, FoldFunctionOnSet, MapThenFoldSet, Total, SolvesSum, Pick

\* A nonempty set of subsets of a finite set has a minimal member.
LEMMA MinimalSubset ==
  ASSUME NEW S, IsFiniteSet(S), NEW Bad \in SUBSET (SUBSET S), Bad # {}
  PROVE  \E U \in Bad : \A V \in SUBSET U : V # U => V \notin Bad
<1>1. IsWellFoundedOn(StrictSubsetOrdering(S), FiniteSubsetsOf(S))
  BY FS_StrictSubsetOrderingWellFounded
<1>2. Bad \subseteq FiniteSubsetsOf(S)
  BY FS_Subset DEF FiniteSubsetsOf
<1>3. PICK U \in Bad : \A V \in Bad : <<V, U>> \notin StrictSubsetOrdering(S)
  BY <1>1, <1>2, WFMin
<1>4. QED
  BY <1>3 DEF StrictSubsetOrdering

\* Two solutions agree wherever both are defined.
LEMMA SolutionsAgree ==
  ASSUME NEW S, IsFiniteSet(S), NEW f, NEW U \in SUBSET S, NEW V \in SUBSET S,
         NEW g, SolvesSum(g, f, U), NEW h, SolvesSum(h, f, V),
         NEW s \in SUBSET (U \cap V)
  PROVE  g[s] = h[s]
<1>. DEFINE Bad == {t \in SUBSET (U \cap V) : g[t] # h[t]}
<1>1. SUFFICES ASSUME Bad # {} PROVE FALSE
  OBVIOUS
<1>2. Bad \in SUBSET (SUBSET S)
  OBVIOUS
<1>3. PICK t \in Bad : \A r \in SUBSET t : r # t => r \notin Bad
  <2>. HIDE DEF Bad
  <2>. QED BY <1>1, <1>2, MinimalSubset
<1>4. t \in SUBSET U /\ t \in SUBSET V /\ g[t] # h[t]
  BY <1>3
<1>5. CASE t = {}
  BY <1>4, <1>5 DEF SolvesSum
<1>6. CASE t # {}
  <2>1. Pick(t) \in t
    BY <1>6 DEF Pick
  <2>2. g[t \ {Pick(t)}] = h[t \ {Pick(t)}]
    BY <1>3, <1>4, <2>1
  <2>3. g[t] = f[Pick(t)] + g[t \ {Pick(t)}]
    BY <1>4, <1>6 DEF SolvesSum
  <2>4. h[t] = f[Pick(t)] + h[t \ {Pick(t)}]
    BY <1>4, <1>6 DEF SolvesSum
  <2>5. QED BY <1>4, <2>2, <2>3, <2>4
<1>7. QED BY <1>5, <1>6

\* The equation has a solution, so the total of a set satisfies it.
LEMMA SolutionExists ==
  ASSUME NEW S, IsFiniteSet(S), NEW f
  PROVE  \E h : SolvesSum(h, f, S)
<1>. DEFINE Bad == {U \in SUBSET S : ~ \E h : SolvesSum(h, f, U)}
<1>1. SUFFICES ASSUME Bad # {} PROVE FALSE
  OBVIOUS
<1>2. PICK U \in Bad : \A V \in SUBSET U : V # U => V \notin Bad
  <2>1. Bad \in SUBSET (SUBSET S)
    OBVIOUS
  <2>. HIDE DEF Bad
  <2>2. QED BY <1>1, <2>1, MinimalSubset
<1>3. U \in SUBSET S
  BY <1>2
<1>4. \A V \in SUBSET U : V # U => SolvesSum(CHOOSE h : SolvesSum(h, f, V), f, V)
  <2>1. SUFFICES ASSUME NEW V \in SUBSET U, V # U
                 PROVE  \E h : SolvesSum(h, f, V)
    OBVIOUS
  <2>2. V \notin Bad /\ V \in SUBSET S
    BY <1>2, <1>3, <2>1
  <2>3. QED BY <2>2
<1>. DEFINE k == [s \in SUBSET U |->
                    IF s = {} THEN 0 ELSE f[Pick(s)] + Total(f, s \ {Pick(s)})]
<1>5. ASSUME NEW s \in SUBSET U, s # U
      PROVE  k[s] = Total(f, s)
  <2>. DEFINE g == CHOOSE h : SolvesSum(h, f, s)
  <2>1. SolvesSum(g, f, s)
    BY <1>4, <1>5
  <2>2. s \in SUBSET s
    OBVIOUS
  <2>3. CASE s = {}
    BY <2>1, <2>2, <2>3, <1>5 DEF SolvesSum, Total
  <2>4. CASE s # {}
    <3>. DEFINE r == s \ {Pick(s)}
                q == CHOOSE h : SolvesSum(h, f, r)
    <3>1. Pick(s) \in s
      BY <2>4 DEF Pick
    <3>2. r \in SUBSET U /\ r # U /\ r \in SUBSET s /\ r \in SUBSET r
      BY <3>1, <1>5
    <3>3. SolvesSum(q, f, r)
      BY <1>4, <3>2
    <3>4. g[r] = q[r]
      <4>1. r \in SUBSET (s \cap r) /\ s \in SUBSET S /\ r \in SUBSET S
        BY <3>2, <1>3
      <4>. HIDE DEF g, q, r
      <4>2. QED BY <2>1, <3>3, <4>1, SolutionsAgree
    <3>5. g[s] = f[Pick(s)] + g[r]
      <4>. HIDE DEF g
      <4>. QED BY <2>1, <2>2, <2>4 DEF SolvesSum
    <3>6. Total(f, s) = g[s] /\ Total(f, r) = q[r]
      BY DEF Total
    <3>7. k[s] = f[Pick(s)] + Total(f, r)
      BY <1>5, <2>4
    <3>. HIDE DEF g, q, r, k
    <3>8. QED BY <3>4, <3>5, <3>6, <3>7
  <2>5. QED BY <2>3, <2>4
<1>6. \A s \in SUBSET U : s # {} => k[s \ {Pick(s)}] = Total(f, s \ {Pick(s)})
  <2>1. SUFFICES ASSUME NEW s \in SUBSET U, s # {}
                 PROVE  k[s \ {Pick(s)}] = Total(f, s \ {Pick(s)})
    OBVIOUS
  <2>2. Pick(s) \in s
    BY <2>1 DEF Pick
  <2>3. s \ {Pick(s)} \in SUBSET U /\ s \ {Pick(s)} # U
    BY <2>1, <2>2
  <2>. HIDE DEF k
  <2>4. QED BY <1>5, <2>3
<1>7. SolvesSum(k, f, U)
  <2>1. k = [s \in SUBSET U |-> IF s = {} THEN 0 ELSE f[Pick(s)] + k[s \ {Pick(s)}]]
    <3>1. \A s \in SUBSET U : (IF s = {} THEN 0 ELSE f[Pick(s)] + Total(f, s \ {Pick(s)}))
              = (IF s = {} THEN 0 ELSE f[Pick(s)] + k[s \ {Pick(s)}])
      <4>. HIDE DEF k
      <4>. QED BY <1>6
    <3>. DEFINE a(s) == IF s = {} THEN 0 ELSE f[Pick(s)] + Total(f, s \ {Pick(s)})
                b(s) == IF s = {} THEN 0 ELSE f[Pick(s)] + k[s \ {Pick(s)}]
    <3>2. k = [s \in SUBSET U |-> a(s)]
      OBVIOUS
    <3>3. \A s \in SUBSET U : a(s) = b(s)
      BY <3>1
    <3>4. [s \in SUBSET U |-> a(s)] = [s \in SUBSET U |-> b(s)]
      <4>. HIDE DEF a, b
      <4>. QED BY <3>3
    <3>. HIDE DEF k
    <3>5. QED BY <3>2, <3>4
  <2>. HIDE DEF k
  <2>2. QED BY <2>1 DEF SolvesSum
<1>8. QED
  <2>. HIDE DEF k
  <2>1. U \notin Bad
    BY <1>7, <1>3
  <2>2. QED BY <2>1, <1>2

\* A total is computed element by element.
LEMMA TotalUnfold ==
  ASSUME NEW S, IsFiniteSet(S), NEW f
  PROVE  /\ S = {} => Total(f, S) = 0
         /\ S # {} => Total(f, S) = f[Pick(S)] + Total(f, S \ {Pick(S)})
<1>. DEFINE g == CHOOSE h : SolvesSum(h, f, S)
            R == S \ {Pick(S)}
            q == CHOOSE h : SolvesSum(h, f, R)
<1>1. IsFiniteSet(R)
  BY FS_Subset
<1>2. SolvesSum(g, f, S) /\ SolvesSum(q, f, R)
  BY <1>1, SolutionExists
<1>3. Total(f, S) = g[S] /\ Total(f, R) = q[R]
  BY DEF Total
<1>4. S \in SUBSET S /\ R \in SUBSET S /\ R \in SUBSET (S \cap R)
  OBVIOUS
<1>5. g[R] = q[R]
  <2>. HIDE DEF g, q, R
  <2>. QED BY <1>2, <1>4, SolutionsAgree
<1>6. S = {} => g[S] = 0
  <2>. HIDE DEF g
  <2>. QED BY <1>2, <1>4 DEF SolvesSum
<1>7. S # {} => g[S] = f[Pick(S)] + g[R]
  <2>. HIDE DEF g
  <2>. QED BY <1>2, <1>4 DEF SolvesSum
<1>. HIDE DEF g, q, R
<1>8. QED BY <1>3, <1>5, <1>6, <1>7 DEF R

\* A total of integers is an integer.
LEMMA TotalType ==
  ASSUME NEW S, IsFiniteSet(S), NEW f, \A x \in S : f[x] \in Int
  PROVE  Total(f, S) \in Int
<1>. DEFINE Bad == {U \in SUBSET S : Total(f, U) \notin Int}
<1>1. SUFFICES ASSUME Bad # {} PROVE FALSE
  OBVIOUS
<1>2. PICK U \in Bad : \A V \in SUBSET U : V # U => V \notin Bad
  <2>1. Bad \in SUBSET (SUBSET S)
    OBVIOUS
  <2>. HIDE DEF Bad
  <2>2. QED BY <1>1, <2>1, MinimalSubset
<1>3. U \in SUBSET S /\ Total(f, U) \notin Int /\ IsFiniteSet(U)
  BY <1>2, FS_Subset
<1>4. U # {} /\ Pick(U) \in U
  BY <1>3, TotalUnfold DEF Pick
<1>5. Total(f, U \ {Pick(U)}) \in Int
  BY <1>2, <1>3, <1>4
<1>6. Total(f, U) = f[Pick(U)] + Total(f, U \ {Pick(U)})
  BY <1>3, <1>4, TotalUnfold
<1>7. f[Pick(U)] \in Int
  BY <1>3, <1>4
<1>. HIDE DEF Bad
<1>8. QED BY <1>3, <1>5, <1>6, <1>7

\* Any element can be taken out of a total.
LEMMA TotalRemove ==
  ASSUME NEW S, IsFiniteSet(S), NEW f, \A x \in S : f[x] \in Int
  PROVE  \A e \in S : Total(f, S) = f[e] + Total(f, S \ {e})
<1>. DEFINE Bad == {U \in SUBSET S : \E e \in U : Total(f, U) # f[e] + Total(f, U \ {e})}
<1>1. SUFFICES ASSUME Bad # {} PROVE FALSE
  OBVIOUS
<1>2. PICK U \in Bad : \A V \in SUBSET U : V # U => V \notin Bad
  <2>1. Bad \in SUBSET (SUBSET S)
    OBVIOUS
  <2>. HIDE DEF Bad
  <2>2. QED BY <1>1, <2>1, MinimalSubset
<1>3. PICK e \in U : Total(f, U) # f[e] + Total(f, U \ {e})
  BY <1>2
<1>. DEFINE p == Pick(U)
<1>4. U \in SUBSET S /\ p \in U /\ IsFiniteSet(U)
  BY <1>2, <1>3, FS_Subset DEF Pick
<1>5. Total(f, U) = f[p] + Total(f, U \ {p})
  BY <1>3, <1>4, TotalUnfold
<1>6. p # e
  BY <1>3, <1>5
<1>. DEFINE R == (U \ {p}) \ {e}
<1>7. Total(f, U \ {p}) = f[e] + Total(f, R)
  <2>1. U \ {p} \in SUBSET U /\ U \ {p} # U /\ e \in U \ {p}
    BY <1>3, <1>4, <1>6
  <2>2. U \ {p} \notin Bad /\ U \ {p} \in SUBSET S
    BY <1>2, <1>4, <2>1
  <2>3. QED BY <2>1, <2>2
<1>8. Total(f, U \ {e}) = f[p] + Total(f, R)
  <2>1. U \ {e} \in SUBSET U /\ U \ {e} # U /\ p \in U \ {e}
    BY <1>3, <1>4, <1>6
  <2>2. U \ {e} \notin Bad /\ U \ {e} \in SUBSET S
    BY <1>2, <1>4, <2>1
  <2>3. R = (U \ {e}) \ {p}
    OBVIOUS
  <2>4. QED BY <2>1, <2>2, <2>3
<1>9. f[p] \in Int /\ f[e] \in Int /\ Total(f, R) \in Int
  <2>1. IsFiniteSet(R) /\ R \in SUBSET S
    BY <1>4, FS_Subset
  <2>2. Total(f, R) \in Int
    BY <2>1, TotalType
  <2>3. QED BY <1>3, <1>4, <2>2
<1>. HIDE DEF Bad, p, R
<1>10. QED BY <1>3, <1>5, <1>7, <1>8, <1>9

\* Totals of equal elements are equal.
LEMMA TotalEqual ==
  ASSUME NEW S, IsFiniteSet(S), NEW f, NEW g, \A x \in S : f[x] = g[x]
  PROVE  Total(f, S) = Total(g, S)
<1>. DEFINE Bad == {U \in SUBSET S : Total(f, U) # Total(g, U)}
<1>1. SUFFICES ASSUME Bad # {} PROVE FALSE
  OBVIOUS
<1>2. PICK U \in Bad : \A V \in SUBSET U : V # U => V \notin Bad
  <2>1. Bad \in SUBSET (SUBSET S)
    OBVIOUS
  <2>. HIDE DEF Bad
  <2>2. QED BY <1>1, <2>1, MinimalSubset
<1>3. U \in SUBSET S /\ Total(f, U) # Total(g, U) /\ IsFiniteSet(U)
  BY <1>2, FS_Subset
<1>4. U # {} /\ Pick(U) \in U
  BY <1>3, TotalUnfold DEF Pick
<1>5. Total(f, U \ {Pick(U)}) = Total(g, U \ {Pick(U)})
  BY <1>2, <1>3, <1>4
<1>6. Total(f, U) = f[Pick(U)] + Total(f, U \ {Pick(U)})
  BY <1>3, <1>4, TotalUnfold
<1>7. Total(g, U) = g[Pick(U)] + Total(g, U \ {Pick(U)})
  BY <1>3, <1>4, TotalUnfold
<1>8. f[Pick(U)] = g[Pick(U)]
  BY <1>3, <1>4
<1>. HIDE DEF Bad
<1>9. QED BY <1>3, <1>5, <1>6, <1>7, <1>8

-----------------------------------------------------------------------------
(***************************************************************************)
(* The facts the other modules cite.                                       *)
(***************************************************************************)

\* A sum of integers over a finite domain is an integer.
LEMMA SumType ==
  ASSUME NEW S, IsFiniteSet(S), NEW f \in [S -> Int]
  PROVE  SumFunction(f) \in Int
BY SumIsTotal, TotalType DEF SumFunction

\* Changing one term changes the sum by the difference.
LEMMA SumUpdate ==
  ASSUME NEW S, IsFiniteSet(S), NEW f \in [S -> Int], NEW g \in [S -> Int],
         NEW e \in S, \A x \in S \ {e} : g[x] = f[x]
  PROVE  SumFunction(g) = SumFunction(f) - f[e] + g[e]
<1>1. IsFiniteSet(S \ {e})
  BY FS_Subset
<1>2. Total(f, S) = f[e] + Total(f, S \ {e}) /\ Total(g, S) = g[e] + Total(g, S \ {e})
  BY TotalRemove
<1>3. Total(f, S \ {e}) = Total(g, S \ {e})
  BY <1>1, TotalEqual
<1>4. Total(f, S \ {e}) \in Int
  BY <1>1, TotalType
<1>5. SumFunction(f) = Total(f, S) /\ SumFunction(g) = Total(g, S)
  BY SumIsTotal DEF SumFunction
<1>6. f[e] \in Int /\ g[e] \in Int
  OBVIOUS
<1>7. QED BY <1>2, <1>3, <1>4, <1>5, <1>6

\* A term added outside the domain adds to the sum.
LEMMA SumExtend ==
  ASSUME NEW S, IsFiniteSet(S), NEW e, e \notin S, NEW f \in [S -> Int],
         NEW g \in [S \cup {e} -> Int], \A x \in S : g[x] = f[x]
  PROVE  SumFunction(g) = SumFunction(f) + g[e]
<1>1. IsFiniteSet(S \cup {e}) /\ (S \cup {e}) \ {e} = S
  BY FS_AddElement
<1>2. Total(g, S \cup {e}) = g[e] + Total(g, S)
  BY <1>1, TotalRemove
<1>3. Total(f, S) = Total(g, S) /\ Total(f, S) \in Int
  BY TotalEqual, TotalType
<1>4. SumFunction(f) = Total(f, S) /\ SumFunction(g) = Total(g, S \cup {e})
  BY SumIsTotal DEF SumFunction
<1>5. g[e] \in Int
  OBVIOUS
<1>6. QED BY <1>2, <1>3, <1>4, <1>5

\* A sum in which every term is zero is zero.
LEMMA SumZero ==
  ASSUME NEW S, IsFiniteSet(S), NEW f \in [S -> Int], \A x \in S : f[x] = 0
  PROVE  SumFunction(f) = 0
<1>. DEFINE Bad == {U \in SUBSET S : Total(f, U) # 0}
<1>1. SUFFICES ASSUME Bad # {} PROVE FALSE
  <2>1. SumFunction(f) = Total(f, S)
    BY SumIsTotal DEF SumFunction
  <2>2. QED BY <2>1
<1>2. PICK U \in Bad : \A V \in SUBSET U : V # U => V \notin Bad
  <2>1. Bad \in SUBSET (SUBSET S)
    OBVIOUS
  <2>. HIDE DEF Bad
  <2>2. QED BY <1>1, <2>1, MinimalSubset
<1>3. U \in SUBSET S /\ Total(f, U) # 0 /\ IsFiniteSet(U)
  BY <1>2, FS_Subset
<1>4. U # {} /\ Pick(U) \in U
  BY <1>3, TotalUnfold DEF Pick
<1>5. Total(f, U \ {Pick(U)}) = 0
  BY <1>2, <1>3, <1>4
<1>6. Total(f, U) = f[Pick(U)] + Total(f, U \ {Pick(U)})
  BY <1>3, <1>4, TotalUnfold
<1>7. f[Pick(U)] = 0
  BY <1>3, <1>4
<1>. HIDE DEF Bad
<1>8. QED BY <1>3, <1>5, <1>6, <1>7
=============================================================================
