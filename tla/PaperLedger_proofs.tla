---------------------------- MODULE PaperLedger_proofs ----------------------------
(***************************************************************************)
(* What the three ledgers of the paper account have in every state, for    *)
(* any codes, markets, rates and number of sessions: the account is never  *)
(* overdrawn and trading creates no value, whatever is interrupted; and,   *)
(* if an interrupted session is replayed before the next one, its replay   *)
(* writes what it had written and the ledgers agree.                       *)
(*                                                                         *)
(* First what the proofs need of sums, of the last of some sessions and of *)
(* recursion along a ranking, by induction in the form of a least or a     *)
(* smallest counterexample; then what an execution computes, that it       *)
(* computes the same from the same ledgers, and the inductive invariants.  *)
(***************************************************************************)
EXTENDS PaperLedger, FiniteSetTheorems, WellFoundedInduction, TLAPS

-----------------------------------------------------------------------------
(* Induction, as the least or the smallest counterexample *)

\* A set of numbers has a least one.
LEMMA Least ==
    ASSUME NEW T \in SUBSET Nat, T # {}
    PROVE  \E n \in T : \A m \in T : n <= m
<1>1. PICK n \in T : \A m \in T : <<m, n>> \notin OpToRel(<, Nat)
  BY WFMin, NatLessThanWellFounded
<1>2. \A m \in T : ~(m < n)
  BY <1>1 DEF OpToRel
<1> QED
  BY <1>2

\* A set of finite sets has one no element of which can be spared.
LEMMA Smallest ==
    ASSUME NEW S, IsFiniteSet(S), NEW T \in SUBSET (SUBSET S), T # {}
    PROVE  \E s \in T : \A x \in s : s \ {x} \notin T
<1>1. FiniteSubsetsOf(S) = SUBSET S
  BY FS_FiniteSubsetsOfFinite
<1>2. IsWellFoundedOn(StrictSubsetOrdering(S), SUBSET S)
  BY <1>1, FS_StrictSubsetOrderingWellFounded
<1>3. PICK s \in T : \A u \in T : <<u, s>> \notin StrictSubsetOrdering(S)
  BY <1>2, WFMin
<1>4. ASSUME NEW x \in s, s \ {x} \in T PROVE FALSE
  <2>1. PICK u \in T : u = s \ {x}
    BY <1>4
  <2>2. u \subseteq s /\ u # s /\ u \in SUBSET S /\ s \in SUBSET S
    BY <2>1
  <2>3. <<u, s>> \in StrictSubsetOrdering(S)
    BY <2>2 DEF StrictSubsetOrdering
  <2> QED
    BY <1>3, <2>3
<1> QED
  BY <1>4

-----------------------------------------------------------------------------
(* Sums *)

\* What the sum of f chooses next, and what its recursion says of the subsets of S.
Pick(s) == CHOOSE x \in s : TRUE
SumsBy(iter, f, S) ==
    iter = [s \in SUBSET S |-> IF s = {} THEN 0 ELSE f[Pick(s)] + iter[s \ {Pick(s)}]]

LEMMA PickIn == ASSUME NEW s, s # {} PROVE Pick(s) \in s
BY DEF Pick

\* The recursion that a sum is chosen from has a solution.
LEMMA SumExists ==
    ASSUME NEW S, IsFiniteSet(S), NEW f \in [S -> Int]
    PROVE  \E iter : SumsBy(iter, f, S)
<1> DEFINE Body(g, s) == IF s = {} THEN 0 ELSE f[Pick(s)] + g[s \ {Pick(s)}]
           Reaches(g, n) == \A s \in SUBSET S : Cardinality(s) <= n => g[s] = Body(g, s)
           Bad == {n \in Nat : ~\E g \in [SUBSET S -> Int] : Reaches(g, n)}
<1>0. \A s \in SUBSET S : /\ Cardinality(s) \in Nat
                          /\ Cardinality(s) <= Cardinality(S)
                          /\ s = {} <=> Cardinality(s) = 0
                          /\ s # {} => Cardinality(s \ {Pick(s)}) = Cardinality(s) - 1
  <2> TAKE s \in SUBSET S
  <2>1. IsFiniteSet(s) /\ Cardinality(s) <= Cardinality(S)
    BY FS_Subset
  <2>2. Cardinality(s) \in Nat /\ (s = {} <=> Cardinality(s) = 0)
    BY <2>1, FS_CardinalityType, FS_EmptySet
  <2>3. s # {} => Cardinality(s \ {Pick(s)}) = Cardinality(s) - 1
    BY <2>1, FS_RemoveElement, PickIn
  <2> QED
    BY <2>1, <2>2, <2>3
<1>1. \A s \in SUBSET S : s # {} => Pick(s) \in S /\ s \ {Pick(s)} \in SUBSET S
  BY PickIn
<1>2. ASSUME Bad # {} PROVE FALSE
  <2>1. PICK n \in Bad : \A m \in Bad : n <= m
    BY <1>2, Least
  <2>2. CASE n = 0
    <3>1. [s \in SUBSET S |-> 0] \in [SUBSET S -> Int]
      OBVIOUS
    <3>2. ASSUME NEW s \in SUBSET S, Cardinality(s) <= 0
          PROVE  [u \in SUBSET S |-> 0][s] = 0 /\ s = {}
      <4>0. Cardinality(s) \in Nat
        BY <1>0
      <4>1. Cardinality(s) = 0
        BY <3>2, <4>0
      <4> QED
        BY <1>0, <4>1
    <3>3. Reaches([s \in SUBSET S |-> 0], 0)
      BY <3>2
    <3> QED
      BY <2>1, <2>2, <3>1, <3>3
  <2>3. CASE n # 0
    <3>1. n - 1 \in Nat /\ n - 1 \notin Bad
      <4> HIDE DEF Bad
      <4>1. Bad \subseteq Nat
        BY DEF Bad
      <4> QED
        BY <2>1, <2>3, <4>1
    <3>2. PICK g \in [SUBSET S -> Int] : Reaches(g, n - 1)
      BY <3>1
    <3>3. \A s \in SUBSET S : Body(g, s) \in Int
      BY <1>1
    <3>4. PICK h \in [SUBSET S -> Int] :
             h = [s \in SUBSET S |-> IF Cardinality(s) <= n - 1 THEN g[s] ELSE Body(g, s)]
      BY <3>3
    <3>5. ASSUME NEW s \in SUBSET S, Cardinality(s) <= n PROVE h[s] = Body(h, s)
      <4>1. s # {} => h[s \ {Pick(s)}] = g[s \ {Pick(s)}]
        BY <1>0, <1>1, <3>1, <3>4, <3>5
      <4>2. h[s] = Body(g, s)
        BY <1>0, <3>2, <3>4, <3>5
      <4> QED
        BY <4>1, <4>2
    <3> QED
      BY <2>1, <3>5
  <2> QED
    BY <2>2, <2>3
<1>3. PICK g \in [SUBSET S -> Int] : Reaches(g, Cardinality(S))
  <2>1. Cardinality(S) \in Nat
    BY <1>0
  <2> QED
    BY <1>2, <2>1
<1>4. \A s \in SUBSET S : g[s] = Body(g, s)
  BY <1>0, <1>3
<1>5. g = [s \in SUBSET S |-> Body(g, s)]
  BY <1>4
<1> QED
  BY <1>5 DEF SumsBy

\* A chosen recursion that satisfies its equation.
LEMMA SumFacts ==
    ASSUME NEW S, IsFiniteSet(S), NEW f \in [S -> Int]
    PROVE  \E iter \in [SUBSET S -> Int] : SumsBy(iter, f, S) /\ SumFunction(f) = iter[S]
<1>1. PICK iter : iter = CHOOSE g : SumsBy(g, f, S)
  OBVIOUS
<1>2. SumsBy(iter, f, S)
  BY <1>1, SumExists
<1>3. SumFunction(f) = iter[S]
  <2>1. DOMAIN f = S
    OBVIOUS
  <2>2. SumFunction(f) = (CHOOSE g : SumsBy(g, f, S))[S]
    BY <2>1 DEF SumsBy, Pick, SumFunction, SumFunctionOnSet, FoldFunctionOnSet, MapThenFoldSet
  <2> QED
    BY <1>1, <2>2
<1>4. /\ iter[{}] = 0
      /\ \A s \in SUBSET S : s # {} => iter[s] = f[Pick(s)] + iter[s \ {Pick(s)}]
  BY <1>2 DEF SumsBy
<1>5. \A s \in SUBSET S : iter[s] \in Int
  <2> DEFINE Bad == {s \in SUBSET S : iter[s] \notin Int}
  <2>1. ASSUME Bad # {} PROVE FALSE
    <3>1. PICK s \in Bad : \A x \in s : s \ {x} \notin Bad
      <4>1. Bad \in SUBSET (SUBSET S)
        OBVIOUS
      <4> HIDE DEF Bad
      <4> QED
        BY <2>1, <4>1, Smallest
    <3>2. s \in SUBSET S /\ iter[s] \notin Int
      OBVIOUS
    <3>3. s # {}
      <4>1. iter[{}] \in Int
        BY <1>4
      <4> HIDE DEF Bad
      <4> QED
        BY <3>2, <4>1
    <3>4. Pick(s) \in s /\ s \ {Pick(s)} \in SUBSET S
      BY <3>2, <3>3, PickIn
    <3>5. iter[s \ {Pick(s)}] \in Int /\ f[Pick(s)] \in Int
      BY <3>1, <3>4
    <3>6. iter[s] = f[Pick(s)] + iter[s \ {Pick(s)}]
      BY <1>4, <3>2, <3>3
    <3> QED
      BY <3>2, <3>5, <3>6
  <2> QED
    BY <2>1
<1>6. iter \in [SUBSET S -> Int]
  BY <1>2, <1>5 DEF SumsBy
<1> QED
  BY <1>2, <1>3, <1>6

\* Two recursions agree wherever their functions do.
LEMMA SumAgree ==
    ASSUME NEW S, IsFiniteSet(S), NEW f, NEW R \in SUBSET S, NEW g,
           NEW a, NEW b, SumsBy(a, f, S), SumsBy(b, g, R),
           \A x \in R : f[x] = g[x]
    PROVE  \A s \in SUBSET R : a[s] = b[s]
<1>0. /\ \A s \in SUBSET S : a[s] = IF s = {} THEN 0 ELSE f[Pick(s)] + a[s \ {Pick(s)}]
      /\ \A s \in SUBSET R : b[s] = IF s = {} THEN 0 ELSE g[Pick(s)] + b[s \ {Pick(s)}]
  BY DEF SumsBy
<1> DEFINE Bad == {s \in SUBSET R : a[s] # b[s]}
<1>1. ASSUME Bad # {} PROVE FALSE
  <2>1. PICK s \in Bad : \A x \in s : s \ {x} \notin Bad
    <3>1. Bad \in SUBSET (SUBSET S)
      OBVIOUS
    <3> HIDE DEF Bad
    <3> QED
      BY <1>1, <3>1, Smallest
  <2>2. s \in SUBSET R /\ s \in SUBSET S /\ a[s] # b[s]
    OBVIOUS
  <2>3. s # {}
    BY <1>0, <2>2
  <2>4. Pick(s) \in s /\ s \ {Pick(s)} \in SUBSET R /\ f[Pick(s)] = g[Pick(s)]
    BY <2>2, <2>3, PickIn
  <2>5. a[s \ {Pick(s)}] = b[s \ {Pick(s)}]
    BY <2>1, <2>4
  <2> QED
    BY <1>0, <2>2, <2>3, <2>4, <2>5
<1> QED
  BY <1>1

\* An element may be taken out of a sum in any order.
AnyOrder(iter, f, S) ==
    \A s \in SUBSET S : \A x \in s : iter[s] = f[x] + iter[s \ {x}]

LEMMA SumAnyOrder ==
    ASSUME NEW S, IsFiniteSet(S), NEW f \in [S -> Int],
           NEW iter \in [SUBSET S -> Int], SumsBy(iter, f, S)
    PROVE  AnyOrder(iter, f, S)
<1>0. \A s \in SUBSET S : s # {} => iter[s] = f[Pick(s)] + iter[s \ {Pick(s)}]
  BY DEF SumsBy
<1> DEFINE Bad == {s \in SUBSET S : \E x \in s : iter[s] # f[x] + iter[s \ {x}]}
<1>1. ASSUME Bad # {} PROVE FALSE
  <2>1. PICK s \in Bad : \A x \in s : s \ {x} \notin Bad
    <3>1. Bad \in SUBSET (SUBSET S)
      OBVIOUS
    <3> HIDE DEF Bad
    <3> QED
      BY <1>1, <3>1, Smallest
  <2>2. PICK x \in s : iter[s] # f[x] + iter[s \ {x}]
    OBVIOUS
  <2>3. PICK p : p = Pick(s)
    OBVIOUS
  <2>4. /\ s \in SUBSET S /\ p \in s /\ p # x /\ iter[s] = f[p] + iter[s \ {p}]
    BY <1>0, <2>2, <2>3, PickIn
  <2>5. /\ s \ {p} \in SUBSET S /\ s \ {x} \in SUBSET S /\ x \in s \ {p} /\ p \in s \ {x}
        /\ s \ {p} \notin Bad /\ s \ {x} \notin Bad
    BY <2>1, <2>2, <2>4
  <2>6. /\ iter[s \ {p}] = f[x] + iter[(s \ {p}) \ {x}]
        /\ iter[s \ {x}] = f[p] + iter[(s \ {x}) \ {p}]
    BY <2>5
  <2>7. PICK u \in SUBSET S : u = (s \ {p}) \ {x} /\ u = (s \ {x}) \ {p}
    BY <2>4
  <2>8. f[x] \in Int /\ f[p] \in Int /\ iter[u] \in Int
    BY <2>2, <2>4, <2>7
  <2>9. iter[s \ {p}] = f[x] + iter[u] /\ iter[s \ {x}] = f[p] + iter[u]
    BY <2>6, <2>7
  <2>10. iter[s] = f[x] + iter[s \ {x}]
    BY <2>4, <2>8, <2>9
  <2> QED
    BY <2>2, <2>10
<1> QED
  BY <1>1 DEF AnyOrder

\* The sum of the values of f over a set, which all that follows is about.
Total(f, s) == SumFunction([x \in s |-> f[x]])

LEMMA TotalFacts ==
    ASSUME NEW S, IsFiniteSet(S), NEW f \in [S -> Int]
    PROVE  /\ Total(f, S) = SumFunction(f)
           /\ Total(f, {}) = 0
           /\ \A s \in SUBSET S : Total(f, s) \in Int
           /\ \A s \in SUBSET S : \A x \in s : Total(f, s) = f[x] + Total(f, s \ {x})
<1>1. PICK iter \in [SUBSET S -> Int] : SumsBy(iter, f, S) /\ SumFunction(f) = iter[S]
  BY SumFacts
<1>2. ASSUME NEW s \in SUBSET S PROVE Total(f, s) = iter[s]
  <2>1. PICK g : g = [x \in s |-> f[x]]
    OBVIOUS
  <2>2. g \in [s -> Int] /\ IsFiniteSet(s)
    BY <2>1, FS_Subset
  <2>3. PICK h \in [SUBSET s -> Int] : SumsBy(h, g, s) /\ SumFunction(g) = h[s]
    BY <2>2, SumFacts
  <2>4. \A x \in s : f[x] = g[x]
    BY <2>1
  <2>5. \A u \in SUBSET s : iter[u] = h[u]
    BY <1>1, <2>3, <2>4, SumAgree
  <2> QED
    BY <2>1, <2>3, <2>5 DEF Total
<1>3. /\ iter[{}] = 0
      /\ \A s \in SUBSET S : \A x \in s : iter[s] = f[x] + iter[s \ {x}]
  <2>1. iter[{}] = 0
    BY <1>1 DEF SumsBy
  <2>2. SumsBy(iter, f, S)
    BY <1>1
  <2>3. AnyOrder(iter, f, S)
    BY <2>2, SumAnyOrder
  <2>4. \A s \in SUBSET S : \A x \in s : iter[s] = f[x] + iter[s \ {x}]
    BY <2>3 DEF AnyOrder
  <2> QED
    BY <2>1, <2>4
<1>4. f = [x \in S |-> f[x]]
  OBVIOUS
<1> QED
  BY <1>2, <1>3, <1>4, SMTT(10), ZenonT(60) DEF Total

\* f adds up: its sums over the subsets of S are integers, and an element at a time.
Adds(f, S) ==
    /\ f \in [S -> Int]
    /\ Total(f, {}) = 0
    /\ \A s \in SUBSET S : Total(f, s) \in Int
    /\ \A s \in SUBSET S : \A x \in s : Total(f, s) = f[x] + Total(f, s \ {x})

LEMMA TotalAdds == ASSUME NEW S, IsFiniteSet(S), NEW f \in [S -> Int] PROVE Adds(f, S)
BY TotalFacts DEF Adds

LEMMA SumType ==
    ASSUME NEW S, IsFiniteSet(S), NEW f \in [S -> Int]
    PROVE  SumFunction(f) = Total(f, S) /\ SumFunction(f) \in Int
<1>1. Total(f, S) = SumFunction(f) /\ Total(f, S) \in Int
  BY TotalFacts
<1> QED
  BY <1>1

\* A sum is of the values, whatever function they are of.
LEMMA TotalSame ==
    ASSUME NEW s, NEW f, NEW g, \A x \in s : f[x] = g[x]
    PROVE  Total(f, s) = Total(g, s)
<1>1. [x \in s |-> f[x]] = [x \in s |-> g[x]]
  OBVIOUS
<1> QED
  BY <1>1 DEF Total

\* Nothing negative adds up to nothing negative.
LEMMA TotalNotNegative ==
    ASSUME NEW S, IsFiniteSet(S), NEW f \in [S -> Int], \A x \in S : f[x] >= 0
    PROVE  \A s \in SUBSET S : Total(f, s) >= 0
<1>1. Adds(f, S)
  BY TotalAdds
<1> DEFINE Bad == {s \in SUBSET S : ~(Total(f, s) >= 0)}
<1>2. ASSUME Bad # {} PROVE FALSE
  <2>1. PICK s \in Bad : \A x \in s : s \ {x} \notin Bad
    <3>1. Bad \in SUBSET (SUBSET S)
      OBVIOUS
    <3> HIDE DEF Bad
    <3> QED
      BY <1>2, <3>1, Smallest
  <2>2. s \in SUBSET S /\ ~(Total(f, s) >= 0)
    OBVIOUS
  <2>3. CASE s = {}
    <3>1. Total(f, {}) = 0
      BY <1>1 DEF Adds
    <3>2. Total(f, s) = 0
      BY <2>3, <3>1
    <3> QED
      BY <2>2, <3>2
  <2>4. ASSUME NEW x \in s PROVE FALSE
    <3>1. Total(f, s \ {x}) >= 0 /\ f[x] >= 0
      BY <2>1, <2>2
    <3>2. Total(f, s) = f[x] + Total(f, s \ {x}) /\ f[x] \in Int /\ Total(f, s \ {x}) \in Int
      BY <1>1, <2>2 DEF Adds
    <3> QED
      BY <2>2, <3>1, <3>2
  <2> QED
    BY <2>3, <2>4
<1> QED
  BY <1>2

\* The sum of sums is the sum of the sums.
LEMMA TotalPlus ==
    ASSUME NEW S, IsFiniteSet(S), NEW f \in [S -> Int], NEW g \in [S -> Int],
           NEW h \in [S -> Int], \A x \in S : h[x] = f[x] + g[x]
    PROVE  \A s \in SUBSET S : Total(h, s) = Total(f, s) + Total(g, s)
<1>1. Adds(f, S) /\ Adds(g, S) /\ Adds(h, S)
  BY TotalAdds
<1> DEFINE Bad == {s \in SUBSET S : Total(h, s) # Total(f, s) + Total(g, s)}
<1>2. ASSUME Bad # {} PROVE FALSE
  <2>1. PICK s \in Bad : \A x \in s : s \ {x} \notin Bad
    <3>1. Bad \in SUBSET (SUBSET S)
      OBVIOUS
    <3> HIDE DEF Bad
    <3> QED
      BY <1>2, <3>1, Smallest
  <2>2. s \in SUBSET S /\ Total(h, s) # Total(f, s) + Total(g, s)
    OBVIOUS
  <2>3. CASE s = {}
    <3>1. Total(f, {}) = 0 /\ Total(g, {}) = 0 /\ Total(h, {}) = 0
      BY <1>1 DEF Adds
    <3>2. Total(f, s) = 0 /\ Total(g, s) = 0 /\ Total(h, s) = 0
      BY <2>3, <3>1
    <3> QED
      BY <2>2, <3>2
  <2>4. ASSUME NEW x \in s PROVE FALSE
    <3> DEFINE u == s \ {x}
    <3>1. Total(h, u) = Total(f, u) + Total(g, u) /\ h[x] = f[x] + g[x]
      BY <2>1, <2>2
    <3>2. Total(f, s) = f[x] + Total(f, u) /\ f[x] \in Int /\ Total(f, u) \in Int
      BY <1>1, <2>2 DEF Adds
    <3>3. Total(g, s) = g[x] + Total(g, u) /\ g[x] \in Int /\ Total(g, u) \in Int
      BY <1>1, <2>2 DEF Adds
    <3>4. Total(h, s) = h[x] + Total(h, u)
      BY <1>1, <2>2 DEF Adds
    <3> HIDE DEF u
    <3> QED
      BY <2>2, <3>1, <3>2, <3>3, <3>4
  <2> QED
    BY <2>3, <2>4
<1> QED
  BY <1>2

\* A factor may be taken out of a sum.
LEMMA TotalTimes ==
    ASSUME NEW S, IsFiniteSet(S), NEW k \in Int, NEW f \in [S -> Int],
           NEW h \in [S -> Int], \A x \in S : h[x] = k * f[x]
    PROVE  \A s \in SUBSET S : Total(h, s) = k * Total(f, s)
<1>1. Adds(f, S) /\ Adds(h, S)
  BY TotalAdds
<1> DEFINE Bad == {s \in SUBSET S : Total(h, s) # k * Total(f, s)}
<1>2. ASSUME Bad # {} PROVE FALSE
  <2>1. PICK s \in Bad : \A x \in s : s \ {x} \notin Bad
    <3>1. Bad \in SUBSET (SUBSET S)
      OBVIOUS
    <3> HIDE DEF Bad
    <3> QED
      BY <1>2, <3>1, Smallest
  <2>2. s \in SUBSET S /\ Total(h, s) # k * Total(f, s)
    OBVIOUS
  <2>3. CASE s = {}
    <3>1. Total(f, {}) = 0 /\ Total(h, {}) = 0
      BY <1>1 DEF Adds
    <3>2. Total(f, s) = 0 /\ Total(h, s) = 0
      BY <2>3, <3>1
    <3> QED
      BY <2>2, <3>2
  <2>4. ASSUME NEW x \in s PROVE FALSE
    <3> DEFINE u == s \ {x}
    <3>1. Total(h, u) = k * Total(f, u) /\ h[x] = k * f[x]
      BY <2>1, <2>2
    <3>2. Total(f, s) = f[x] + Total(f, u) /\ f[x] \in Int /\ Total(f, u) \in Int
      BY <1>1, <2>2 DEF Adds
    <3>3. Total(h, s) = h[x] + Total(h, u)
      BY <1>1, <2>2 DEF Adds
    <3>4. \A a, b \in Int : k * (a + b) = k * a + k * b
      OBVIOUS
    <3> HIDE DEF u
    <3>5. k * Total(f, s) = k * f[x] + k * Total(f, u)
      BY <3>2, <3>4
    <3> QED
      BY <2>2, <3>1, <3>3, <3>5
  <2> QED
    BY <2>3, <2>4
<1> QED
  BY <1>2

\* The same for the whole set.
LEMMA SumPlus ==
    ASSUME NEW S, IsFiniteSet(S), NEW f \in [S -> Int], NEW g \in [S -> Int],
           NEW h \in [S -> Int], \A x \in S : h[x] = f[x] + g[x]
    PROVE  Total(h, S) = Total(f, S) + Total(g, S)
<1>1. \A s \in SUBSET S : Total(h, s) = Total(f, s) + Total(g, s)
  BY TotalPlus
<1> QED
  BY <1>1

LEMMA SumTimes ==
    ASSUME NEW S, IsFiniteSet(S), NEW k \in Int, NEW f \in [S -> Int],
           NEW h \in [S -> Int], \A x \in S : h[x] = k * f[x]
    PROVE  Total(h, S) = k * Total(f, S)
<1>1. \A s \in SUBSET S : Total(h, s) = k * Total(f, s)
  BY TotalTimes
<1> QED
  BY <1>1

\* What adds nothing may be left out.
LEMMA TotalOver ==
    ASSUME NEW S, IsFiniteSet(S), NEW f \in [S -> Int], NEW r \in SUBSET S, NEW s \in SUBSET r,
           \A x \in r \ s : f[x] = 0
    PROVE  Total(f, r) = Total(f, s)
<1>1. Adds(f, S)
  BY TotalAdds
<1> DEFINE Bad == {u \in SUBSET r : s \subseteq u /\ Total(f, u) # Total(f, s)}
<1>2. ASSUME Bad # {} PROVE FALSE
  <2>1. PICK u \in Bad : \A x \in u : u \ {x} \notin Bad
    <3>1. Bad \in SUBSET (SUBSET S)
      OBVIOUS
    <3> HIDE DEF Bad
    <3> QED
      BY <1>2, <3>1, Smallest
  <2>2. u \in SUBSET r /\ u \in SUBSET S /\ s \subseteq u /\ Total(f, u) # Total(f, s)
    OBVIOUS
  <2>3. PICK x \in u : x \notin s
    BY <2>2
  <2>4. Total(f, u \ {x}) = Total(f, s)
    BY <2>1, <2>2, <2>3
  <2>5. Total(f, u) = f[x] + Total(f, u \ {x}) /\ f[x] = 0 /\ Total(f, u \ {x}) \in Int
    BY <1>1, <2>2, <2>3 DEF Adds
  <2> QED
    BY <2>2, <2>4, <2>5
<1> QED
  BY <1>2

-----------------------------------------------------------------------------
(* The last of some sessions, and a recursion along a ranking *)

\* Max of numbers up to a bound is one of them, and the greatest.
LEMMA MaxFacts ==
    ASSUME NEW n \in Nat, NEW T \in SUBSET (0..n), T # {}
    PROVE  Max(T) \in T /\ \A m \in T : m <= Max(T)
<1>1. PICK d \in {n - m : m \in T} : \A e \in {n - m : m \in T} : d <= e
  <2>1. {n - m : m \in T} \in SUBSET Nat
    <3>1. \A m \in T : n - m \in Nat
      OBVIOUS
    <3> QED
      BY <3>1
  <2>2. {n - m : m \in T} # {}
    OBVIOUS
  <2> QED
    BY <2>1, <2>2, Least
<1>2. PICK k \in T : d = n - k
  BY <1>1
<1>3. \A m \in T : m <= k
  BY <1>1, <1>2
<1> QED
  BY <1>2, <1>3 DEF Max

\* Recursion with a table of steps.
Recurs(f, a, G, L) == f = [n \in 0..L |-> IF n = 0 THEN a ELSE G[n][f[n - 1]]]

\* The recursion has a solution among the integers.
LEMMA RecursionExists ==
    ASSUME NEW L \in Nat, NEW a \in Int, NEW G \in [1..L -> [Int -> Int]]
    PROVE  \E f \in [0..L -> Int] : Recurs(f, a, G, L)
<1> DEFINE Reaches(f, m) == f[0] = a /\ \A n \in 1..m : f[n] = G[n][f[n - 1]]
           Bad == {m \in 0..L : ~\E f \in [0..L -> Int] : Reaches(f, m)}
<1>1. ASSUME Bad # {} PROVE FALSE
  <2>1. PICK m \in Bad : \A k \in Bad : m <= k
    <3>1. Bad \in SUBSET Nat
      OBVIOUS
    <3> HIDE DEF Bad
    <3> QED
      BY <1>1, <3>1, Least
  <2>2. m \in 0..L /\ ~\E f \in [0..L -> Int] : Reaches(f, m)
    OBVIOUS
  <2>3. m # 0
    <3>1. [n \in 0..L |-> a] \in [0..L -> Int] /\ [n \in 0..L |-> a][0] = a
      OBVIOUS
    <3>2. Reaches([n \in 0..L |-> a], 0)
      BY <3>1
    <3> QED
      BY <2>2, <3>1, <3>2
  <2>4. m - 1 \in 0..L /\ m - 1 \notin Bad
    <3>1. m - 1 \in 0..L /\ ~(m <= m - 1)
      BY <2>2, <2>3
    <3> HIDE DEF Bad
    <3> QED
      BY <2>1, <3>1
  <2>5. PICK f \in [0..L -> Int] : Reaches(f, m - 1)
    BY <2>4
  <2>6. PICK h : h = [f EXCEPT ![m] = G[m][f[m - 1]]]
    OBVIOUS
  <2>7. h \in [0..L -> Int] /\ h[0] = a
    <3>1. m \in 1..L /\ f[m - 1] \in Int /\ f[0] = a /\ 0 \in 0..L
      BY <2>2, <2>3, <2>4, <2>5
    <3>2. G[m][f[m - 1]] \in Int
      BY <3>1
    <3> HIDE DEF Bad, Reaches
    <3> QED
      BY <2>3, <2>6, <3>1, <3>2
  <2>8. ASSUME NEW n \in 1..m PROVE h[n] = G[n][h[n - 1]]
    <3>1. h[n - 1] = f[n - 1] /\ n \in 0..L
      BY <2>2, <2>6, <2>8
    <3>2. CASE n = m
      BY <2>2, <2>6, <3>1, <3>2
    <3>3. CASE n # m
      <4>1. n \in 1..(m - 1) /\ h[n] = f[n]
        BY <2>2, <2>6, <3>1, <3>3
      <4> QED
        BY <2>5, <3>1, <4>1
    <3> QED
      BY <3>2, <3>3
  <2> QED
    BY <2>2, <2>7, <2>8
<1>2. PICK f \in [0..L -> Int] : Reaches(f, L)
  <2>1. L \in 0..L /\ L \notin Bad
    <3> HIDE DEF Bad
    <3> QED
      BY <1>1
  <2> QED
    BY <2>1
<1>3. \A n \in 0..L : f[n] = IF n = 0 THEN a ELSE G[n][f[n - 1]]
  BY <1>2
<1> QED
  BY <1>3 DEF Recurs

Over(f, L) == f = [n \in 0..L |-> f[n]]

\* Two functions that start alike and stay alike.
LEMMA Alike ==
    ASSUME NEW L \in Nat, NEW f, NEW h, Over(f, L), Over(h, L), f[0] = h[0],
           \A n \in 1..L : f[n - 1] = h[n - 1] => f[n] = h[n]
    PROVE  f = h
<1> DEFINE Bad == {n \in 0..L : f[n] # h[n]}
<1>1. ASSUME Bad # {} PROVE FALSE
  <2>1. PICK n \in Bad : \A m \in Bad : n <= m
    <3>1. Bad \in SUBSET Nat
      OBVIOUS
    <3> HIDE DEF Bad
    <3> QED
      BY <1>1, <3>1, Least
  <2>2. n \in 0..L /\ f[n] # h[n]
    OBVIOUS
  <2>3. n # 0
    BY <2>2
  <2>4. n - 1 \in 0..L /\ n \in 1..L /\ ~(n <= n - 1)
    BY <2>2, <2>3
  <2>5. f[n - 1] = h[n - 1]
    BY <2>1, <2>4
  <2> QED
    BY <2>2, <2>4, <2>5
<1>2. \A n \in 0..L : f[n] = h[n]
  BY <1>1
<1> QED
  BY <1>2 DEF Over

-----------------------------------------------------------------------------
(* What an execution reads *)

\* Orders of the session before may be executed.
Executable(s) == s \in 2..today /\ orders[s - 1] # None

\* Orders are for some code, and for every target.
OrdersInv ==
    \A s \in Sessions : orders[s] # None => /\ orders[s].codes # {}
                                            /\ Range(orders[s].ranking) \subseteq orders[s].codes

LEMMA RankingFacts ==
    ASSUME NEW r \in Rankings
    PROVE  /\ Len(r) \in 0..TopN /\ r \in [1..Len(r) -> Codes]
           /\ \A m, n \in 1..Len(r) : r[m] = r[n] => m = n
<1>1. PICK n \in 0..TopN : r \in [1..n -> Codes] /\ IsInjective(r)
  BY DEF Rankings
<1>2. n \in Nat /\ Len(r) = n
  <2>1. n \in Nat
    BY PaperAssumption
  <2>2. r \in Seq(Codes)
    BY <1>1, <2>1
  <2> QED
    BY <1>1, <2>1, <2>2
<1> QED
  BY <1>1, <1>2 DEF IsInjective

\* A session with orders due has a market, and the orders are for some of the codes.
LEMMA SessionFacts ==
    ASSUME TypeOK, NEW s, Executable(s)
    PROVE  /\ s \in Sessions /\ s - 1 \in Sessions /\ s \in Nat /\ s - 1 \in Nat
           /\ 1..(s - 1) \subseteq Sessions
           /\ Due(s) \in SUBSET Codes /\ Targets(s) \in Rankings
           /\ \A c \in Codes : /\ Price(s, c) \in Nat
                               /\ market[s][c].buy \in BOOLEAN /\ market[s][c].sell \in BOOLEAN
                               /\ market[s][c].buy \/ market[s][c].sell => Price(s, c) > 0
<1>1. /\ LastSession \in Nat /\ today \in Nat /\ today <= LastSession /\ s \in 2..today
  BY PaperAssumption DEF TypeOK, today, Executable
<1>2. /\ s \in Sessions /\ s - 1 \in Sessions /\ s \in Nat /\ s - 1 \in Nat
      /\ 1..(s - 1) \subseteq Sessions
  BY <1>1 DEF Sessions
<1>3. orders[s - 1] \in OrderRecords
  BY <1>2 DEF TypeOK, Executable
<1>4. Due(s) \in SUBSET Codes /\ Targets(s) \in Rankings
  BY <1>3 DEF OrderRecords, Due, Targets
<1>5. PICK m \in Markets : m = market[s]
  <2>1. s \in 1..Len(market) /\ market \in Seq(Markets)
    BY <1>1 DEF TypeOK, today
  <2> QED
    BY <2>1
<1>6. \A c \in Codes : /\ m[c] \in [price : Nat, buy : BOOLEAN, sell : BOOLEAN]
                       /\ m[c].buy \/ m[c].sell => m[c].price > 0
  BY PaperAssumption
<1>7. \A c \in Codes : /\ Price(s, c) \in Nat
                       /\ market[s][c].buy \in BOOLEAN /\ market[s][c].sell \in BOOLEAN
                       /\ market[s][c].buy \/ market[s][c].sell => Price(s, c) > 0
  BY <1>5, <1>6 DEF Price
<1> QED
  BY <1>2, <1>4, <1>7

\* The last row of a code is one of its rows.
LEMMA LatestFacts ==
    ASSUME TypeOK, NEW u \in Nat, 1..u \subseteq Sessions, NEW c \in Codes
    PROVE  LatestRow(1..u, c) \in [lots : Nat, mark : Nat]
<1> DEFINE dates == {t \in 1..u : c \in DOMAIN positions[t]}
<1>1. CASE dates = {} \/ positions[Max(dates)][c].lots = 0
  <2>1. LatestRow(1..u, c) = [lots |-> 0, mark |-> 0]
    BY <1>1 DEF LatestRow
  <2> QED
    BY <2>1
<1>2. CASE ~(dates = {} \/ positions[Max(dates)][c].lots = 0)
  <2>1. LatestRow(1..u, c) = positions[Max(dates)][c]
    BY <1>2 DEF LatestRow
  <2>2. Max(dates) \in dates
    <3>1. dates \in SUBSET (0..u) /\ dates # {}
      BY <1>2
    <3> HIDE DEF dates
    <3> QED
      BY <3>1, MaxFacts
  <2>3. PICK t \in Sessions : t = Max(dates) /\ c \in DOMAIN positions[t]
    BY <2>2
  <2>4. AreRows(positions[t], [lots : Nat, mark : Nat])
    BY DEF TypeOK
  <2> QED
    BY <2>1, <2>3, <2>4 DEF AreRows
<1> QED
  BY <1>1, <1>2

LEMMA HeldFacts ==
    ASSUME TypeOK, NEW s \in 1..(LastSession + 1), NEW c \in Codes
    PROVE  Held(s, c) \in [lots : Nat, mark : Nat]
<1>1. s - 1 \in Nat /\ 1..(s - 1) \subseteq Sessions
  BY PaperAssumption DEF Sessions
<1> QED
  BY <1>1, LatestFacts DEF Held

-----------------------------------------------------------------------------
(* The cash that the trades leave *)

\* What the trades of a session did to the cash.
CashOf(rows) == SumFunction([c \in DOMAIN rows |-> rows[c].delta])
CashBy == [t \in Sessions |-> CashOf(trades[t])]

\* _current_cash adds up what each session did to the cash.
LEMMA CashFrom ==
    ASSUME NEW T, NEW s \in 1..(LastSession + 1)
    PROVE  SumFunction([t \in 1..(s - 1) |-> SumFunction([c \in DOMAIN T[t] |-> T[t][c].delta])])
             = Total([t \in Sessions |-> CashOf(T[t])], 1..(s - 1))
<1>1. 1..(s - 1) \subseteq Sessions
  BY PaperAssumption DEF Sessions
<1>2. [t \in 1..(s - 1) |-> SumFunction([c \in DOMAIN T[t] |-> T[t][c].delta])]
        = [t \in 1..(s - 1) |-> [u \in Sessions |-> CashOf(T[u])][t]]
  BY <1>1 DEF CashOf
<1> QED
  BY <1>2 DEF Total

LEMMA CashOfType ==
    ASSUME NEW Record, NEW rows, AreRows(rows, Record), \A r \in Record : r.delta \in Int
    PROVE  CashOf(rows) \in Int
<1>1. DOMAIN rows \subseteq Codes /\ \A c \in DOMAIN rows : rows[c].delta \in Int
  BY DEF AreRows
<1>2. PICK f : f = [c \in DOMAIN rows |-> rows[c].delta]
  OBVIOUS
<1>3. f \in [DOMAIN rows -> Int] /\ IsFiniteSet(DOMAIN rows)
  BY <1>1, <1>2, FS_Subset, PaperAssumption
<1>4. SumFunction(f) \in Int
  BY <1>3, SumType
<1> QED
  BY <1>2, <1>4 DEF CashOf

LEMMA CashFacts ==
    ASSUME TypeOK, NEW s \in 1..(LastSession + 1)
    PROVE  /\ CashBy \in [Sessions -> Int]
           /\ Cash(s) = InitialCash + Total(CashBy, 1..(s - 1))
           /\ Cash(s) \in Int
<1>1. IsFiniteSet(Sessions) /\ InitialCash \in Int /\ 1..(s - 1) \in SUBSET Sessions
  BY PaperAssumption, FS_Interval DEF Sessions
<1>2. \A t \in Sessions : CashOf(trades[t]) \in Int
  <2> TAKE t \in Sessions
  <2>1. AreRows(trades[t], [status : {"filled", "rejected", "noop"}, lots : Int, delta : Int])
    BY DEF TypeOK
  <2>2. \A r \in [status : {"filled", "rejected", "noop"}, lots : Int, delta : Int] : r.delta \in Int
    OBVIOUS
  <2> QED
    BY <2>1, <2>2, CashOfType
<1>3. CashBy \in [Sessions -> Int]
  BY <1>2 DEF CashBy
<1>4. Total(CashBy, 1..(s - 1)) \in Int
  BY <1>1, <1>3, TotalAdds DEF Adds
<1>5. Cash(s) = InitialCash + Total(CashBy, 1..(s - 1))
  BY CashFrom DEF Cash, CashBy
<1> QED
  BY <1>1, <1>3, <1>4, <1>5

-----------------------------------------------------------------------------
(* What an execution computes *)

\* What can be bought at a price can be paid for.
LEMMA QuotientFacts ==
    ASSUME NEW a \in Int, NEW d \in Nat, d > 0
    PROVE  /\ a \div d \in Int
           /\ a >= 0 => a \div d >= 0
           /\ \A m \in Nat : m <= a \div d => m * d <= a
<1>1. PICK q \in Int : q = a \div d
  OBVIOUS
<1>2. q * d <= a /\ a < (q + 1) * d
  BY <1>1
<1>3. ASSUME a >= 0, q < 0 PROVE FALSE
  <2>1. q + 1 <= 0
    BY <1>3
  <2>2. (q + 1) * d <= 0
    BY <2>1
  <2> QED
    BY <1>2, <1>3, <2>2
<1>4. ASSUME NEW m \in Nat, m <= q PROVE m * d <= a
  <2>1. m * d <= q * d
    BY <1>4
  <2> QED
    BY <1>2, <2>1
<1> QED
  BY <1>1, <1>3, <1>4

\* The purchase rule: what is wanted and what can be paid for, if anything.
LEMMA AtMostBoth ==
    ASSUME NEW a \in Int, NEW b \in Int
    PROVE  /\ Max({0, Min({a, b})}) \in Nat
           /\ Max({0, Min({a, b})}) = 0 \/ (Max({0, Min({a, b})}) <= a /\ Max({0, Min({a, b})}) <= b)
<1>1. Min({a, b}) = IF a <= b THEN a ELSE b
  BY DEF Min
<1>2. PICK m \in Int : m = Min({a, b}) /\ m <= a /\ m <= b
  BY <1>1
<1>3. Max({0, m}) = IF m <= 0 THEN 0 ELSE m
  BY DEF Max
<1> QED
  BY <1>2, <1>3

\* Desired shares, sales and proceeds are not negative, and no more is sold than is held.
LEMMA QuantityFacts ==
    ASSUME TypeOK, NEW s, Executable(s), NEW c \in Codes
    PROVE  /\ Held(s, c).lots \in Nat /\ Held(s, c).mark \in Nat /\ Cash(s) \in Int
           /\ Mark(s, c) \in Nat
           /\ Account(s) \in Int
           /\ Desired(s, c) \in Nat
           /\ Sold(s, c) \in Nat /\ Sold(s, c) <= Held(s, c).lots
           /\ Sold(s, c) # 0 => c \in Due(s) /\ Price(s, c) > 0 /\ Desired(s, c) < Held(s, c).lots
           /\ Proceeds(s, c) \in Nat
<1>1. /\ s \in 1..(LastSession + 1) /\ \A d \in Codes : Price(s, d) \in Nat
      /\ \A d \in Codes : market[s][d].sell => Price(s, d) > 0
  BY SessionFacts, PaperAssumption DEF Sessions
<1>2. /\ \A d \in Codes : Held(s, d).lots \in Nat /\ Held(s, d).mark \in Nat
      /\ Cash(s) \in Int
  BY <1>1, HeldFacts, CashFacts
<1>3. \A d \in Codes : Mark(s, d) \in Nat
  BY <1>1, <1>2 DEF Mark
<1>4. Account(s) \in Int
  <2>1. PICK f : f = [d \in Codes |-> Held(s, d).lots * Mark(s, d)]
    OBVIOUS
  <2>2. f \in [Codes -> Int]
    BY <1>2, <1>3, <2>1
  <2>3. SumFunction(f) \in Int
    BY <2>2, SumType, PaperAssumption
  <2> QED
    BY <1>2, <2>1, <2>3 DEF Account
<1>5. Desired(s, c) \in Nat
  <2>1. CASE c \in Range(Targets(s)) /\ Price(s, c) # 0 /\ Account(s) > 0
    <3>1. PICK d \in Int : d = TopN * 100 * Price(s, c) /\ d > 0
      <4>1. TopN \in Nat /\ TopN > 0 /\ Price(s, c) \in Nat /\ Price(s, c) > 0
        BY <1>1, <2>1, PaperAssumption
      <4> QED
        BY <4>1
    <3>2. Desired(s, c) = Account(s) \div d
      BY <2>1, <3>1 DEF Desired
    <3> QED
      BY <1>4, <2>1, <3>1, <3>2, QuotientFacts
  <2>2. CASE ~(c \in Range(Targets(s)) /\ Price(s, c) # 0 /\ Account(s) > 0)
    BY <1>2, <2>2 DEF Desired
  <2> QED
    BY <2>1, <2>2
<1>6. /\ Sold(s, c) \in Nat /\ Sold(s, c) <= Held(s, c).lots
      /\ Sold(s, c) # 0 => c \in Due(s) /\ Price(s, c) > 0 /\ Desired(s, c) < Held(s, c).lots
  BY <1>1, <1>2, <1>5 DEF Sold
<1>7. Proceeds(s, c) \in Nat
  <2>1. 100 - SellRate \in Nat
    BY PaperAssumption
  <2>2. Sold(s, c) * Price(s, c) \in Nat
    BY <1>1, <1>6
  <2> QED
    BY <2>1, <2>2 DEF Proceeds
<1> QED
  BY <1>2, <1>3, <1>4, <1>5, <1>6, <1>7

\* A purchase has a price, adds to the holding, and is covered by the cash that is left.
LEMMA BuyFacts ==
    ASSUME TypeOK, NEW s, Executable(s), NEW c \in Codes, NEW cash \in Int
    PROVE  /\ Buy(s, c, cash) \in Nat
           /\ \A lots \in Nat : Spent(s, c, lots) \in Nat
           /\ Buy(s, c, cash) # 0 => /\ Price(s, c) > 0 /\ Desired(s, c) > Held(s, c).lots
                                     /\ Spent(s, c, Buy(s, c, cash)) <= cash
<1>1. /\ Desired(s, c) \in Nat /\ Held(s, c).lots \in Nat /\ Price(s, c) \in Nat
      /\ market[s][c].buy => Price(s, c) > 0
  BY QuantityFacts, SessionFacts
<1>2. PICK k \in Nat : k = 100 + BuyRate /\ k > 0
  BY PaperAssumption
<1>3. ASSUME NEW lots \in Nat PROVE Spent(s, c, lots) \in Nat
  BY <1>1, <1>2 DEF Spent
<1>4. CASE Desired(s, c) > Held(s, c).lots /\ market[s][c].buy
  <2>1. PICK d \in Nat : d = Price(s, c) * k /\ d > 0
    BY <1>1, <1>2, <1>4
  <2>2. Affordable(s, c, cash) = cash \div d /\ cash \div d \in Int
    BY <1>2, <2>1, QuotientFacts DEF Affordable
  <2>3. PICK m \in Int : m = Max({0, Min({Desired(s, c) - Held(s, c).lots, cash \div d})})
                           /\ m \in Nat /\ (m = 0 \/ m <= cash \div d)
    BY <1>1, <2>2, AtMostBoth
  <2>4. Buy(s, c, cash) = m
    BY <1>4, <2>2, <2>3 DEF Buy
  <2>5. m # 0 => m * d <= cash
    BY <2>1, <2>3, QuotientFacts
  <2>6. Spent(s, c, m) = m * d
    BY <1>1, <1>2, <2>1, <2>3 DEF Spent
  <2> QED
    BY <1>1, <1>3, <1>4, <2>3, <2>4, <2>5, <2>6
<1>5. CASE ~(Desired(s, c) > Held(s, c).lots /\ market[s][c].buy)
  BY <1>3, <1>5 DEF Buy
<1> QED
  BY <1>4, <1>5

\* Cash after the sales; what a purchase leaves of the cash m.
Start(s) == Cash(s) + SumFunction([c \in Codes |-> Proceeds(s, c)])
Left(s, c, m) == m - Spent(s, c, Buy(s, c, m))

\* Sales only add to the cash.
LEMMA StartFacts ==
    ASSUME TypeOK, NEW s, Executable(s)
    PROVE  /\ [c \in Codes |-> Proceeds(s, c)] \in [Codes -> Nat]
           /\ Start(s) \in Int
           /\ Cash(s) >= 0 => Start(s) >= 0
<1>1. PICK f : f = [c \in Codes |-> Proceeds(s, c)]
  OBVIOUS
<1>2. \A c \in Codes : Proceeds(s, c) \in Nat
  BY QuantityFacts
<1>3. f \in [Codes -> Nat] /\ f \in [Codes -> Int] /\ IsFiniteSet(Codes)
  BY <1>1, <1>2, PaperAssumption
<1>4. SumFunction(f) = Total(f, Codes) /\ SumFunction(f) \in Int
  BY <1>3, SumType
<1>5. Total(f, Codes) >= 0
  <2>1. \A c \in Codes : f[c] >= 0
    BY <1>3
  <2> QED
    BY <1>3, <2>1, TotalNotNegative
<1>6. Cash(s) \in Int
  <2>1. s \in 1..(LastSession + 1)
    BY SessionFacts, PaperAssumption DEF Sessions
  <2> QED
    BY <2>1, CashFacts
<1> QED
  BY <1>1, <1>3, <1>4, <1>5, <1>6 DEF Start

\* No purchase overdraws.
LEMMA LeftFacts ==
    ASSUME TypeOK, NEW s, Executable(s), NEW c \in Codes, NEW m \in Int
    PROVE  Left(s, c, m) \in Int /\ (m >= 0 => Left(s, c, m) >= 0)
<1>1. PICK lots \in Nat : lots = Buy(s, c, m) /\ (lots # 0 => Spent(s, c, lots) <= m)
  BY BuyFacts
<1>2. Spent(s, c, lots) \in Nat
  BY BuyFacts
<1>3. lots = 0 => Spent(s, c, lots) = 0
  <2>1. Price(s, c) \in Nat /\ 100 + BuyRate \in Nat
    BY SessionFacts, PaperAssumption
  <2> QED
    BY <2>1 DEF Spent
<1> QED
  BY <1>1, <1>2, <1>3 DEF Left

\* The purchases in turn: each leaves what the one before it left, less what it spends.
LEMMA CashAfterFacts ==
    ASSUME TypeOK, NEW s, Executable(s)
    PROVE  /\ CashAfter(s) \in [0..Len(Targets(s)) -> Int]
           /\ CashAfter(s)[0] = Start(s)
           /\ \A n \in 1..Len(Targets(s)) : CashAfter(s)[n] = Left(s, Targets(s)[n], CashAfter(s)[n - 1])
<1> DEFINE L == Len(Targets(s))
           Follows(f) == f = [n \in 0..L |->
               IF n = 0 THEN Start(s)
               ELSE f[n - 1] - Spent(s, Targets(s)[n], Buy(s, Targets(s)[n], f[n - 1]))]
<1>1. L \in Nat
  BY SessionFacts, RankingFacts
<1>2. PICK G : G = [n \in 1..L |-> [m \in Int |-> Left(s, Targets(s)[n], m)]]
  OBVIOUS
<1>3. G \in [1..L -> [Int -> Int]]
  <2>1. \A n \in 1..L : \A m \in Int : Left(s, Targets(s)[n], m) \in Int
    <3>1. \A n \in 1..L : Targets(s)[n] \in Codes
      BY SessionFacts, RankingFacts
    <3> QED
      BY <3>1, LeftFacts
  <2> QED
    BY <1>2, <2>1
<1>4. Start(s) \in Int
  BY StartFacts
<1>5. PICK f \in [0..L -> Int] : Recurs(f, Start(s), G, L)
  <2> HIDE DEF L
  <2> QED
    BY <1>1, <1>3, <1>4, RecursionExists
<1>6. /\ f[0] = Start(s)
      /\ \A n \in 1..L : f[n] = Left(s, Targets(s)[n], f[n - 1])
  <2>1. f[0] = Start(s) /\ \A n \in 1..L : f[n] = G[n][f[n - 1]]
    BY <1>1, <1>5, SMTT(30) DEF Recurs
  <2>2. \A n \in 1..L : f[n - 1] \in Int
    BY <1>1, <1>5
  <2> QED
    BY <1>2, <2>1, <2>2
<1>7. Follows(f)
  BY <1>5, <1>6 DEF Left
<1>8. CashAfter(s) = CHOOSE g : Follows(g)
  BY DEF CashAfter, Start
<1>9. PICK h : h = CashAfter(s)
  OBVIOUS
<1>10. Follows(h)
  BY <1>7, <1>8, <1>9
<1>11. h = f
  <2>1. h[0] = Start(s) /\ \A n \in 1..L : h[n] = Left(s, Targets(s)[n], h[n - 1])
    BY <1>1, <1>10 DEF Left
  <2>2. Over(h, L) /\ Over(f, L)
    BY <1>5, <1>10 DEF Over
  <2>3. f[0] = h[0]
    BY <1>6, <2>1
  <2>4. \A n \in 1..L : h[n - 1] = f[n - 1] => h[n] = f[n]
    BY <1>6, <2>1
  <2> HIDE DEF L, Follows
  <2> QED
    BY <1>1, <2>2, <2>3, <2>4, Alike
<1> QED
  BY <1>5, <1>6, <1>9, <1>11

\* An execution that begins with cash that is not negative never has less than nothing.
LEMMA NeverOverdrawn ==
    ASSUME TypeOK, NEW s, Executable(s), Cash(s) >= 0
    PROVE  \A n \in 0..Len(Targets(s)) : CashAfter(s)[n] >= 0
<1> DEFINE Bad == {n \in 0..Len(Targets(s)) : ~(CashAfter(s)[n] >= 0)}
<1>1. ASSUME Bad # {} PROVE FALSE
  <2>1. PICK n \in Bad : \A m \in Bad : n <= m
    <3>1. Bad \in SUBSET Nat
      OBVIOUS
    <3> HIDE DEF Bad
    <3> QED
      BY <1>1, <3>1, Least
  <2>2. n \in 0..Len(Targets(s)) /\ ~(CashAfter(s)[n] >= 0)
    OBVIOUS
  <2>3. n # 0
    BY <2>2, CashAfterFacts, StartFacts
  <2>4. n - 1 \in 0..Len(Targets(s)) /\ n \in 1..Len(Targets(s)) /\ ~(n <= n - 1)
    <3>1. Len(Targets(s)) \in Nat
      BY SessionFacts, RankingFacts
    <3> QED
      BY <2>2, <2>3, <3>1
  <2>5. PICK m \in Int : m = CashAfter(s)[n - 1] /\ m >= 0
    <3>1. CashAfter(s)[n - 1] \in Int
      BY <2>4, CashAfterFacts
    <3>2. n - 1 \notin Bad
      <4> HIDE DEF Bad
      <4> QED
        BY <2>1, <2>4
    <3> QED
      BY <2>4, <3>1, <3>2
  <2>6. CashAfter(s)[n] = Left(s, Targets(s)[n], m)
    BY <2>4, <2>5, CashAfterFacts
  <2>7. Targets(s)[n] \in Codes
    BY <2>4, SessionFacts, RankingFacts
  <2> QED
    BY <2>2, <2>5, <2>6, <2>7, LeftFacts
<1> QED
  BY <1>1

\* A target is bought with the cash that the ones ranked before it have left.
LEMMA BoughtInTurn ==
    ASSUME TypeOK, NEW s, Executable(s), NEW n \in 1..Len(Targets(s))
    PROVE  Bought(s, Targets(s)[n]) = Buy(s, Targets(s)[n], CashAfter(s)[n - 1])
<1>1. PICK r \in Rankings : r = Targets(s)
  BY SessionFacts
<1>2. r \in [1..Len(r) -> Codes] /\ \A k, l \in 1..Len(r) : r[k] = r[l] => k = l
  BY RankingFacts
<1>3. PICK c \in Codes : c = r[n]
  BY <1>1, <1>2
<1>4. c \in Range(r)
  BY <1>1, <1>2, <1>3 DEF Range
<1>5. (CHOOSE k \in 1..Len(r) : r[k] = c) = n
  BY <1>1, <1>2, <1>3
<1> QED
  BY <1>1, <1>3, <1>4, <1>5 DEF Bought

\* What is bought is a target, has a price and adds to the holding.
LEMMA BoughtFacts ==
    ASSUME TypeOK, NEW s, Executable(s), NEW c \in Codes
    PROVE  /\ Bought(s, c) \in Nat
           /\ Bought(s, c) # 0 => /\ c \in Range(Targets(s)) /\ Price(s, c) > 0
                                  /\ Desired(s, c) > Held(s, c).lots
           /\ Spent(s, c, Bought(s, c)) \in Nat
           /\ Bought(s, c) = 0 => Spent(s, c, Bought(s, c)) = 0
<1>1. /\ Bought(s, c) \in Nat
      /\ Bought(s, c) # 0 => /\ c \in Range(Targets(s)) /\ Price(s, c) > 0
                             /\ Desired(s, c) > Held(s, c).lots
  <2>1. CASE c \in Range(Targets(s))
    <3>1. PICK n \in 1..Len(Targets(s)) : c = Targets(s)[n]
      <4>1. Targets(s) \in [1..Len(Targets(s)) -> Codes]
        BY SessionFacts, RankingFacts
      <4> QED
        BY <2>1, <4>1 DEF Range
    <3>2. PICK m \in Int : m = CashAfter(s)[n - 1]
      <4>1. n - 1 \in 0..Len(Targets(s))
        BY SessionFacts, RankingFacts
      <4> QED
        BY <4>1, CashAfterFacts
    <3>3. Bought(s, c) = Buy(s, c, m)
      BY <3>1, <3>2, BoughtInTurn
    <3>4. Buy(s, c, m) \in Nat
      BY BuyFacts
    <3>5. Buy(s, c, m) # 0 => Price(s, c) > 0 /\ Desired(s, c) > Held(s, c).lots
      BY BuyFacts
    <3> QED
      BY <2>1, <3>3, <3>4, <3>5
  <2>2. CASE c \notin Range(Targets(s))
    BY <2>2 DEF Bought
  <2> QED
    BY <2>1, <2>2
<1>2. Spent(s, c, Bought(s, c)) \in Nat
  <2>1. \A lots \in Nat : Spent(s, c, lots) \in Nat
    <3>1. 0 \in Int
      OBVIOUS
    <3> QED
      BY <3>1, BuyFacts
  <2> QED
    BY <1>1, <2>1
<1>3. Spent(s, c, 0) = 0
  <2>1. Price(s, c) \in Nat /\ 100 + BuyRate \in Nat
    BY SessionFacts, PaperAssumption
  <2> QED
    BY <2>1 DEF Spent
<1> QED
  BY <1>1, <1>2, <1>3

\* What each code brings and costs.
ProceedsBy(s) == [c \in Codes |-> Proceeds(s, c)]
SpentBy(s) == [c \in Codes |-> Spent(s, c, Bought(s, c))]

\* The purchases in the order of ranks cost what they cost in any order.
LEMMA CashAfterPurchases ==
    ASSUME TypeOK, NEW s, Executable(s)
    PROVE  /\ SpentBy(s) \in [Codes -> Int]
           /\ \A n \in 0..Len(Targets(s)) :
                CashAfter(s)[n] = Start(s) - Total(SpentBy(s), {Targets(s)[m] : m \in 1..n})
<1>1. PICK f : f = SpentBy(s)
  OBVIOUS
<1>2. f \in [Codes -> Int]
  <2>1. \A c \in Codes : Spent(s, c, Bought(s, c)) \in Int
    BY BoughtFacts
  <2> QED
    BY <1>1, <2>1 DEF SpentBy
<1>3. Adds(f, Codes)
  BY <1>2, TotalAdds, PaperAssumption
<1>4. PICK r \in Rankings : r = Targets(s)
  BY SessionFacts
<1>5. Len(r) \in Nat /\ r \in [1..Len(r) -> Codes] /\ \A k, l \in 1..Len(r) : r[k] = r[l] => k = l
  BY RankingFacts
<1>6. PICK a \in [0..Len(r) -> Int] : a = CashAfter(s)
  BY <1>4, CashAfterFacts
<1>7. a[0] = Start(s) /\ Start(s) \in Int
  BY <1>6, CashAfterFacts, StartFacts
<1>8. \A n \in 1..Len(r) : a[n] = a[n - 1] - f[r[n]]
  <2> TAKE n \in 1..Len(r)
  <2>1. PICK c \in Codes : c = r[n]
    BY <1>5
  <2>2. a[n] = Left(s, Targets(s)[n], a[n - 1])
    BY <1>4, <1>6, CashAfterFacts
  <2>3. Bought(s, c) = Buy(s, c, a[n - 1])
    BY <1>4, <1>6, <2>1, BoughtInTurn
  <2>4. f[c] = Spent(s, c, Buy(s, c, a[n - 1]))
    BY <1>1, <2>3 DEF SpentBy
  <2> QED
    BY <1>4, <2>1, <2>2, <2>4 DEF Left
<1> DEFINE First(n) == {r[m] : m \in 1..n}
           Bad == {n \in 0..Len(r) : a[n] # Start(s) - Total(f, First(n))}
<1>9. ASSUME Bad # {} PROVE FALSE
  <2>1. PICK n \in Bad : \A m \in Bad : n <= m
    <3>1. Bad \in SUBSET Nat
      OBVIOUS
    <3> HIDE DEF Bad
    <3> QED
      BY <1>9, <3>1, Least
  <2>2. n \in 0..Len(r) /\ a[n] # Start(s) - Total(f, First(n))
    OBVIOUS
  <2>3. n # 0
    <3>1. First(0) = {}
      OBVIOUS
    <3>2. Total(f, First(0)) = 0
      BY <1>3, <3>1 DEF Adds
    <3> HIDE DEF First, Bad
    <3>3. a[0] = Start(s) - Total(f, First(0))
      BY <1>7, <3>2
    <3> QED
      BY <2>2, <3>3
  <2>4. n - 1 \in 0..Len(r) /\ n \in 1..Len(r) /\ ~(n <= n - 1)
    BY <1>5, <2>2, <2>3
  <2>5. a[n - 1] = Start(s) - Total(f, First(n - 1))
    <3>1. n - 1 \notin Bad
      <4> HIDE DEF Bad
      <4> QED
        BY <2>1, <2>4
    <3> QED
      BY <2>4, <3>1
  <2>6. First(n) \in SUBSET Codes /\ r[n] \in First(n) /\ First(n) \ {r[n]} = First(n - 1)
    <3>1. First(n) \in SUBSET Codes /\ r[n] \in First(n)
      BY <1>5, <2>4
    <3>2. ASSUME NEW c \in First(n), c # r[n] PROVE c \in First(n - 1)
      <4>1. PICK m \in 1..n : c = r[m] /\ m # n
        BY <3>2
      <4>2. m \in 1..(n - 1)
        BY <2>4, <4>1
      <4> QED
        BY <4>1, <4>2
    <3>3. ASSUME NEW c \in First(n - 1) PROVE c \in First(n) /\ c # r[n]
      <4>1. PICK m \in 1..(n - 1) : c = r[m]
        BY <3>3
      <4>2. m \in 1..n /\ m \in 1..Len(r) /\ m # n
        BY <1>5, <2>4, <4>1
      <4> QED
        BY <1>5, <2>4, <4>1, <4>2
    <3> HIDE DEF First
    <3> QED
      BY <3>1, <3>2, <3>3
  <2>7. PICK u : u = First(n)
    OBVIOUS
  <2>8. Total(f, u) = f[r[n]] + Total(f, u \ {r[n]})
    <3>1. u \in SUBSET Codes /\ r[n] \in u
      BY <2>6, <2>7
    <3> QED
      BY <1>3, <3>1 DEF Adds
  <2>9. Total(f, u \ {r[n]}) \in Int /\ f[r[n]] \in Int
    <3>1. u \ {r[n]} \in SUBSET Codes /\ r[n] \in Codes
      BY <1>5, <2>4, <2>6, <2>7
    <3> QED
      BY <1>2, <1>3, <3>1 DEF Adds
  <2>10. a[n] = a[n - 1] - f[r[n]]
    BY <1>8, <2>4
  <2>11. Total(f, First(n)) = f[r[n]] + Total(f, First(n - 1))
    BY <2>6, <2>7, <2>8
  <2>12. Total(f, First(n - 1)) \in Int
    BY <2>6, <2>7, <2>9
  <2>13. PICK t1 \in Int : t1 = Total(f, First(n - 1))
    BY <2>12
  <2>14. a[n] = Start(s) - (f[r[n]] + t1)
    BY <1>7, <2>5, <2>9, <2>10, <2>13
  <2> QED
    BY <2>2, <2>11, <2>13, <2>14
<1>10. \A n \in 0..Len(r) : a[n] = Start(s) - Total(f, First(n))
  BY <1>9
<1> QED
  BY <1>1, <1>2, <1>4, <1>6, <1>10

\* The cash of the equity row is what the trade rows leave.
LEMMA FinalCash ==
    ASSUME TypeOK, OrdersInv, NEW s, Executable(s)
    PROVE  /\ CashAfter(s)[Len(Targets(s))] \in Int
           /\ CashAfter(s)[Len(Targets(s))] =
                Cash(s) + Total(ProceedsBy(s), Codes) - Total(SpentBy(s), Codes)
           /\ CashAfter(s)[Len(Targets(s))] = Cash(s) + CashOf(TradeRows(s))
<1>1. PICK r \in Rankings : r = Targets(s)
  BY SessionFacts
<1>2. Len(r) \in Nat /\ r \in [1..Len(r) -> Codes] /\ Len(r) \in 0..Len(r)
  BY RankingFacts
<1>3. PICK f \in [Codes -> Int] : f = SpentBy(s)
  BY CashAfterPurchases
<1>4. PICK g \in [Codes -> Int] : g = ProceedsBy(s)
  <2>1. \A c \in Codes : Proceeds(s, c) \in Int
    BY QuantityFacts
  <2> QED
    BY <2>1 DEF ProceedsBy
<1>5. IsFiniteSet(Codes) /\ Due(s) \in SUBSET Codes
  BY PaperAssumption, SessionFacts
<1>6. Range(r) \in SUBSET Codes /\ {r[m] : m \in 1..Len(r)} = Range(r) /\ Range(r) \subseteq Due(s)
  <2>1. s - 1 \in Sessions
    BY SessionFacts
  <2>2. Range(r) \subseteq Due(s)
    BY <1>1, <2>1 DEF OrdersInv, Executable, Due, Targets
  <2>3. {r[m] : m \in 1..Len(r)} = Range(r)
    BY <1>2 DEF Range
  <2> QED
    BY <1>5, <2>2, <2>3
<1>7. PICK e \in Int : e = CashAfter(s)[Len(Targets(s))]
  BY <1>1, <1>2, CashAfterFacts
<1>8. e = Start(s) - Total(f, Range(r))
  <2>1. CashAfter(s)[Len(r)] = Start(s) - Total(f, {r[m] : m \in 1..Len(r)})
    BY <1>1, <1>2, <1>3, CashAfterPurchases
  <2>2. Total(f, {r[m] : m \in 1..Len(r)}) = Total(f, Range(r))
    BY <1>6
  <2> QED
    BY <1>1, <1>7, <2>1, <2>2
<1>9. \A c \in Codes \ Range(r) : f[c] = 0
  BY <1>1, <1>3, BoughtFacts DEF SpentBy
<1>10. Total(f, Codes) = Total(f, Range(r))
  BY <1>5, <1>6, <1>9, TotalOver
<1>11. PICK tf \in Int : tf = Total(f, Codes)
  BY <1>5, TotalAdds DEF Adds
<1>12. PICK tg \in Int : tg = Total(g, Codes)
  BY <1>5, TotalAdds DEF Adds
<1>13. Cash(s) \in Int /\ Start(s) = Cash(s) + tg
  <2>1. SumFunction(g) = tg
    BY <1>5, <1>12, SumType
  <2>2. Start(s) = Cash(s) + SumFunction(g)
    BY <1>4 DEF Start, ProceedsBy
  <2>3. s \in 1..(LastSession + 1)
    BY SessionFacts, PaperAssumption DEF Sessions
  <2>4. Cash(s) \in Int
    BY <2>3, CashFacts
  <2> QED
    BY <2>1, <2>2, <2>4
<1>14. e = Cash(s) + tg - tf
  BY <1>8, <1>10, <1>11, <1>13
<1>15. PICK h \in [Codes -> Int] : h = [c \in Codes |-> g[c] - f[c]]
  <2>1. \A c \in Codes : g[c] - f[c] \in Int
    OBVIOUS
  <2> QED
    BY <2>1
<1>16. tg = Total(h, Codes) + tf
  <2>1. \A c \in Codes : g[c] = h[c] + f[c]
    BY <1>15
  <2>2. Total(g, Codes) = Total(h, Codes) + Total(f, Codes)
    BY <1>5, <2>1, TotalPlus
  <2> QED
    BY <1>11, <1>12, <2>2
<1>17. Total(h, Codes) = Total(h, Due(s))
  <2>1. \A c \in Codes \ Due(s) : h[c] = 0
    <3> TAKE c \in Codes \ Due(s)
    <3>1. f[c] = 0
      BY <1>6, <1>9
    <3>2. Sold(s, c) = 0
      BY QuantityFacts
    <3>3. g[c] = 0
      <4>1. Price(s, c) \in Nat /\ 100 - SellRate \in Nat
        BY SessionFacts, PaperAssumption
      <4> QED
        BY <1>4, <3>2, <4>1 DEF ProceedsBy, Proceeds
    <3> QED
      BY <1>15, <3>1, <3>3
  <2> QED
    BY <1>5, <2>1, TotalOver
<1>18. CashOf(TradeRows(s)) = Total(h, Due(s))
  <2>1. DOMAIN TradeRows(s) = Due(s) /\ \A c \in Due(s) : TradeRows(s)[c].delta = h[c]
    BY <1>3, <1>4, <1>5, <1>15 DEF TradeRows, ProceedsBy, SpentBy
  <2>2. [c \in DOMAIN TradeRows(s) |-> TradeRows(s)[c].delta] = [c \in Due(s) |-> h[c]]
    BY <2>1
  <2> QED
    BY <2>2 DEF CashOf, Total
<1>19. PICK th \in Int : th = Total(h, Codes)
  BY <1>5, TotalAdds DEF Adds
<1>20. e = Cash(s) + th
  BY <1>13, <1>14, <1>16, <1>19
<1>21. e = Cash(s) + CashOf(TradeRows(s))
  BY <1>17, <1>18, <1>19, <1>20
<1> QED
  BY <1>3, <1>4, <1>7, <1>11, <1>12, <1>14, <1>21

-----------------------------------------------------------------------------
(* The rows of an execution *)

TradeRecords == [status : {"filled", "rejected", "noop"}, lots : Int, delta : Int]
PositionRecords == [lots : Nat, mark : Nat]

LEMMA AfterFacts ==
    ASSUME TypeOK, NEW s, Executable(s), NEW c \in Codes
    PROVE  After(s, c) \in Nat
<1>1. Held(s, c).lots \in Nat /\ Sold(s, c) \in Nat /\ Sold(s, c) <= Held(s, c).lots
  BY QuantityFacts
<1>2. Bought(s, c) \in Nat
  BY BoughtFacts
<1> QED
  BY <1>1, <1>2 DEF After

LEMMA PositionRowsType ==
    ASSUME TypeOK, NEW s, Executable(s)
    PROVE  AreRows(PositionRows(s), PositionRecords)
<1>1. PICK D : D = {c \in Codes : Held(s, c).lots > 0} \cup {c \in Due(s) : Desired(s, c) # Held(s, c).lots}
  OBVIOUS
<1>2. D \subseteq Codes
  BY <1>1, SessionFacts
<1>3. PositionRows(s) = [c \in D |-> [lots |-> After(s, c), mark |-> Mark(s, c)]]
  BY <1>1 DEF PositionRows
<1>4. \A c \in D : [lots |-> After(s, c), mark |-> Mark(s, c)] \in PositionRecords
  <2> TAKE c \in D
  <2>1. After(s, c) \in Nat
    BY <1>2, AfterFacts
  <2>2. Mark(s, c) \in Nat
    BY <1>2, QuantityFacts
  <2> QED
    BY <2>1, <2>2 DEF PositionRecords
<1> QED
  BY <1>2, <1>3, <1>4 DEF AreRows

LEMMA TradeRowsType ==
    ASSUME TypeOK, NEW s, Executable(s)
    PROVE  AreRows(TradeRows(s), TradeRecords) /\ DOMAIN TradeRows(s) = Due(s)
<1>1. Due(s) \subseteq Codes
  BY SessionFacts
<1>2. \A c \in Due(s) : [status |-> Status(s, c),
                         lots   |-> Bought(s, c) - Sold(s, c),
                         delta  |-> Proceeds(s, c) - Spent(s, c, Bought(s, c))] \in TradeRecords
  <2> TAKE c \in Due(s)
  <2>1. Status(s, c) \in {"filled", "rejected", "noop"}
    BY DEF Status
  <2>2. Bought(s, c) - Sold(s, c) \in Int
    <3>1. Bought(s, c) \in Nat
      BY <1>1, BoughtFacts
    <3>2. Sold(s, c) \in Nat
      BY <1>1, QuantityFacts
    <3> QED
      BY <3>1, <3>2
  <2>3. Proceeds(s, c) - Spent(s, c, Bought(s, c)) \in Int
    <3>1. Spent(s, c, Bought(s, c)) \in Nat
      BY <1>1, BoughtFacts
    <3>2. Proceeds(s, c) \in Nat
      BY <1>1, QuantityFacts
    <3> QED
      BY <3>1, <3>2
  <2> QED
    BY <2>1, <2>2, <2>3 DEF TradeRecords
<1> QED
  BY <1>1, <1>2 DEF AreRows, TradeRows

\* Codes that a session's trades sold, and what the last row before it was worth.
Sales(rows) == {c \in DOMAIN rows : rows[c].lots < 0}
ClosedBy(s) == [t \in Sessions |-> Cardinality(Sales(IF t = s THEN TradeRows(s) ELSE trades[t]))]
Earlier(s) == {t \in 1..(s - 1) : equity[t] # None}
Previous(s) == IF Earlier(s) = {} THEN InitialCash ELSE Value(equity[Max(Earlier(s))])
MarkedBy(s) == [c \in Codes |-> After(s, c) * Mark(s, c)]

LEMMA EquityRowParts ==
    ASSUME NEW s
    PROVE  EquityRow(s) = [cash     |-> CashAfter(s)[Len(Targets(s))],
                           holdings |-> SumFunction(MarkedBy(s)),
                           previous |-> Previous(s),
                           closed   |-> SumFunction(ClosedBy(s))]
BY DEF EquityRow, MarkedBy, Previous, Earlier, ClosedBy, Sales

LEMMA EquityRowType ==
    ASSUME TypeOK, OrdersInv, NEW s, Executable(s)
    PROVE  EquityRow(s) \in EquityRecords
<1>0. /\ IsFiniteSet(Codes) /\ IsFiniteSet(Sessions) /\ LastSession \in Nat /\ InitialCash \in Int
      /\ s - 1 \in Nat /\ 1..(s - 1) \subseteq Sessions
  BY PaperAssumption, SessionFacts, FS_Interval DEF Sessions
<1>1. CashAfter(s)[Len(Targets(s))] \in Int
  BY FinalCash
<1>2. SumFunction(MarkedBy(s)) \in Nat
  <2>1. \A c \in Codes : After(s, c) * Mark(s, c) \in Nat
    <3> TAKE c \in Codes
    <3>1. After(s, c) \in Nat
      BY AfterFacts
    <3>2. Mark(s, c) \in Nat
      BY QuantityFacts
    <3> QED
      BY <3>1, <3>2
  <2>2. PICK f \in [Codes -> Nat] : f = MarkedBy(s)
    BY <2>1 DEF MarkedBy
  <2>3. f \in [Codes -> Int] /\ \A c \in Codes : f[c] >= 0
    OBVIOUS
  <2>4. SumFunction(f) = Total(f, Codes) /\ SumFunction(f) \in Int
    BY <1>0, <2>3, SumType
  <2>5. Total(f, Codes) >= 0
    BY <1>0, <2>3, TotalNotNegative
  <2> QED
    BY <2>2, <2>4, <2>5
<1>3. Previous(s) \in Int
  <2>1. CASE Earlier(s) = {}
    BY <1>0, <2>1 DEF Previous
  <2>2. CASE Earlier(s) # {}
    <3>1. Max(Earlier(s)) \in Earlier(s)
      <4>1. Earlier(s) \in SUBSET (0..(s - 1))
        BY DEF Earlier
      <4> QED
        BY <1>0, <2>2, <4>1, MaxFacts
    <3>2. equity[Max(Earlier(s))] \in EquityRecords
      BY <1>0, <3>1 DEF Earlier, TypeOK
    <3>3. Value(equity[Max(Earlier(s))]) \in Int
      BY <3>2 DEF Value, EquityRecords
    <3> QED
      BY <2>2, <3>3 DEF Previous
  <2> QED
    BY <2>1, <2>2
<1>4. SumFunction(ClosedBy(s)) \in Nat
  <2>1. ASSUME NEW rows, DOMAIN rows \subseteq Codes PROVE Cardinality(Sales(rows)) \in Nat
    <3>1. Sales(rows) \subseteq Codes
      BY <2>1 DEF Sales
    <3>2. IsFiniteSet(Sales(rows))
      BY <1>0, <3>1, FS_Subset
    <3> QED
      BY <3>2, FS_CardinalityType
  <2>2. DOMAIN TradeRows(s) \subseteq Codes
    BY TradeRowsType, SessionFacts
  <2>3. \A t \in Sessions : DOMAIN trades[t] \subseteq Codes
    BY DEF TypeOK, AreRows
  <2>4. ASSUME NEW t \in Sessions
        PROVE  Cardinality(Sales(IF t = s THEN TradeRows(s) ELSE trades[t])) \in Nat
    <3>1. PICK rows : rows = IF t = s THEN TradeRows(s) ELSE trades[t]
      OBVIOUS
    <3>2. DOMAIN rows \subseteq Codes
      BY <2>2, <2>3, <3>1
    <3> QED
      BY <2>1, <3>1, <3>2
  <2>5. PICK f \in [Sessions -> Nat] : f = ClosedBy(s)
    BY <2>4 DEF ClosedBy
  <2>6. f \in [Sessions -> Int] /\ \A t \in Sessions : f[t] >= 0
    OBVIOUS
  <2>7. SumFunction(f) = Total(f, Sessions) /\ SumFunction(f) \in Int
    BY <1>0, <2>6, SumType
  <2>8. Total(f, Sessions) >= 0
    BY <1>0, <2>6, TotalNotNegative
  <2> QED
    BY <2>5, <2>7, <2>8
<1> QED
  BY <1>1, <1>2, <1>3, <1>4, EquityRowParts DEF EquityRecords

\* What a fill costs.
CostBy(s) == [c \in Codes |-> Sold(s, c) * Price(s, c) * SellRate + Bought(s, c) * Price(s, c) * BuyRate]

\* At the price of the session, a fill changes cash and holding by the same, but for its costs.
LEMMA FillCosts ==
    ASSUME NEW held \in Nat, NEW sold \in Nat, NEW bought \in Nat, NEW price \in Nat, NEW mark \in Nat,
           NEW sell \in Int, NEW buy \in Int, sold # 0 => mark = price, bought # 0 => mark = price
    PROVE  sold * price * (100 - sell) + 100 * ((held + bought - sold) * mark)
             + (sold * price * sell + bought * price * buy)
             = bought * price * (100 + buy) + 100 * (held * mark)
<1>1. sold * mark = sold * price /\ bought * mark = bought * price
  OBVIOUS
<1>2. (held + bought - sold) * mark = held * mark + bought * mark - sold * mark
  OBVIOUS
<1>3. PICK a \in Int : a = sold * price
  OBVIOUS
<1>4. PICK b \in Int : b = bought * price
  OBVIOUS
<1>5. PICK h \in Int : h = held * mark
  OBVIOUS
<1>6. a * (100 - sell) + 100 * (h + b - a) + (a * sell + b * buy) = b * (100 + buy) + 100 * h
  <2>1. a * (100 - sell) = 100 * a - a * sell /\ b * (100 + buy) = 100 * b + b * buy
    OBVIOUS
  <2> QED
    BY <2>1
<1> QED
  BY <1>1, <1>2, <1>3, <1>4, <1>5, <1>6

\* The account after an execution, valued as before it.
LEMMA ExecutionCosts ==
    ASSUME TypeOK, OrdersInv, NEW s, Executable(s)
    PROVE  CashAfter(s)[Len(Targets(s))] + 100 * SumFunction(MarkedBy(s)) = Account(s) - SumFunction(CostBy(s))
<1>0. IsFiniteSet(Codes) /\ Codes \in SUBSET Codes
  BY PaperAssumption
<1>1. PICK held \in [Codes -> Nat] : held = [c \in Codes |-> Held(s, c).lots]
  <2>1. \A c \in Codes : Held(s, c).lots \in Nat
    BY QuantityFacts
  <2> QED
    BY <2>1
<1>2. PICK mark \in [Codes -> Nat] : mark = [c \in Codes |-> Mark(s, c)]
  <2>1. \A c \in Codes : Mark(s, c) \in Nat
    BY QuantityFacts
  <2> QED
    BY <2>1
<1>3. PICK price \in [Codes -> Nat] : price = [c \in Codes |-> Price(s, c)]
  <2>1. \A c \in Codes : Price(s, c) \in Nat
    BY SessionFacts
  <2> QED
    BY <2>1
<1>4. PICK sold \in [Codes -> Nat] : sold = [c \in Codes |-> Sold(s, c)]
  <2>1. \A c \in Codes : Sold(s, c) \in Nat
    BY QuantityFacts
  <2> QED
    BY <2>1
<1>5. PICK bought \in [Codes -> Nat] : bought = [c \in Codes |-> Bought(s, c)]
  <2>1. \A c \in Codes : Bought(s, c) \in Nat
    BY BoughtFacts
  <2> QED
    BY <2>1
<1>6. BuyRate \in Int /\ SellRate \in Int
  BY PaperAssumption
<1>7. \A c \in Codes : sold[c] # 0 \/ bought[c] # 0 => mark[c] = price[c]
  <2> TAKE c \in Codes
  <2>1. Sold(s, c) # 0 => Price(s, c) > 0
    BY QuantityFacts
  <2>2. Bought(s, c) # 0 => Price(s, c) > 0
    BY BoughtFacts
  <2> QED
    BY <1>2, <1>3, <1>4, <1>5, <2>1, <2>2 DEF Mark
<1>8. PICK g \in [Codes -> Int] : g = ProceedsBy(s)
  <2>1. \A c \in Codes : Proceeds(s, c) \in Int
    BY QuantityFacts
  <2> QED
    BY <2>1 DEF ProceedsBy
<1>9. PICK f \in [Codes -> Int] : f = SpentBy(s)
  BY CashAfterPurchases
<1>10. PICK v \in [Codes -> Int] : v = [c \in Codes |-> Held(s, c).lots * Mark(s, c)]
  <2>1. \A c \in Codes : held[c] * mark[c] \in Int
    OBVIOUS
  <2>2. \A c \in Codes : Held(s, c).lots * Mark(s, c) = held[c] * mark[c]
    BY <1>1, <1>2
  <2>3. \A c \in Codes : Held(s, c).lots * Mark(s, c) \in Int
    BY <2>1, <2>2
  <2> QED
    BY <2>3
<1>11. PICK w \in [Codes -> Int] : w = MarkedBy(s)
  <2>1. \A c \in Codes : After(s, c) * Mark(s, c) \in Int
    <3> TAKE c \in Codes
    <3>1. After(s, c) \in Int
      BY AfterFacts
    <3>2. Mark(s, c) \in Int
      BY QuantityFacts
    <3> QED
      BY <3>1, <3>2
  <2> QED
    BY <2>1 DEF MarkedBy
<1>12. PICK k \in [Codes -> Int] : k = CostBy(s)
  <2>1. \A c \in Codes : Sold(s, c) * Price(s, c) * SellRate + Bought(s, c) * Price(s, c) * BuyRate \in Int
    <3> TAKE c \in Codes
    <3>1. PICK a \in Int : a = Sold(s, c) * Price(s, c)
      <4>1. sold[c] * price[c] \in Int
        OBVIOUS
      <4>2. sold[c] * price[c] = Sold(s, c) * Price(s, c)
        BY <1>3, <1>4
      <4> QED
        BY <4>1, <4>2
    <3>2. PICK b \in Int : b = Bought(s, c) * Price(s, c)
      <4>1. bought[c] * price[c] \in Int
        OBVIOUS
      <4>2. bought[c] * price[c] = Bought(s, c) * Price(s, c)
        BY <1>3, <1>5
      <4> QED
        BY <4>1, <4>2
    <3>3. a * SellRate + b * BuyRate \in Int
      BY <1>6
    <3> QED
      BY <3>1, <3>2, <3>3
  <2> QED
    BY <2>1 DEF CostBy
<1>13. PICK W \in [Codes -> Int] : \A c \in Codes : W[c] = 100 * w[c]
  <2>1. [c \in Codes |-> 100 * w[c]] \in [Codes -> Int]
    OBVIOUS
  <2> QED
    BY <2>1
<1>14. PICK V \in [Codes -> Int] : \A c \in Codes : V[c] = 100 * v[c]
  <2>1. [c \in Codes |-> 100 * v[c]] \in [Codes -> Int]
    OBVIOUS
  <2> QED
    BY <2>1
<1>15. PICK x \in [Codes -> Int] : \A c \in Codes : x[c] = g[c] + W[c]
  <2>1. [c \in Codes |-> g[c] + W[c]] \in [Codes -> Int]
    OBVIOUS
  <2> QED
    BY <2>1
<1>16. PICK y \in [Codes -> Int] : \A c \in Codes : y[c] = x[c] + k[c]
  <2>1. [c \in Codes |-> x[c] + k[c]] \in [Codes -> Int]
    OBVIOUS
  <2> QED
    BY <2>1
<1>17. \A c \in Codes : y[c] = f[c] + V[c]
  <2> TAKE c \in Codes
  <2>0. PICK h \in Nat : h = held[c]
    OBVIOUS
  <2>1. PICK a \in Nat : a = sold[c]
    OBVIOUS
  <2>2. PICK b \in Nat : b = bought[c]
    OBVIOUS
  <2>3. PICK p \in Nat : p = price[c]
    OBVIOUS
  <2>4. PICK m \in Nat : m = mark[c]
    OBVIOUS
  <2>5. (a # 0 => m = p) /\ (b # 0 => m = p)
    BY <1>7, <2>1, <2>2, <2>3, <2>4
  <2>6. a * p * (100 - SellRate) + 100 * ((h + b - a) * m) + (a * p * SellRate + b * p * BuyRate)
             = b * p * (100 + BuyRate) + 100 * (h * m)
    BY <1>6, <2>5, FillCosts
  <2>7. Held(s, c).lots = h /\ Sold(s, c) = a /\ Bought(s, c) = b /\ Price(s, c) = p /\ Mark(s, c) = m
    BY <1>1, <1>2, <1>3, <1>4, <1>5, <2>0, <2>1, <2>2, <2>3, <2>4
  <2>8. g[c] = a * p * (100 - SellRate)
    BY <1>8, <2>7 DEF ProceedsBy, Proceeds
  <2>9. f[c] = b * p * (100 + BuyRate)
    BY <1>9, <2>7 DEF SpentBy, Spent
  <2>10. v[c] = h * m
    BY <1>10, <2>7
  <2>11. w[c] = (h + b - a) * m
    BY <1>11, <2>7 DEF MarkedBy, After
  <2>12. k[c] = a * p * SellRate + b * p * BuyRate
    BY <1>12, <2>7 DEF CostBy
  <2>13. g[c] + 100 * w[c] + k[c] = f[c] + 100 * v[c]
    BY <2>6, <2>8, <2>9, <2>10, <2>11, <2>12
  <2>14. W[c] = 100 * w[c] /\ V[c] = 100 * v[c] /\ x[c] = g[c] + W[c] /\ y[c] = x[c] + k[c]
    BY <1>13, <1>14, <1>15, <1>16
  <2> QED
    BY <2>13, <2>14
<1>18. Total(y, Codes) = Total(f, Codes) + Total(V, Codes)
  BY <1>0, <1>17, SumPlus
<1>19. Total(y, Codes) = Total(x, Codes) + Total(k, Codes)
  <2>1. \A c \in Codes : y[c] = x[c] + k[c]
    BY <1>16
  <2> QED
    BY <1>0, <2>1, SumPlus, SMTT(30)
<1>20. Total(x, Codes) = Total(g, Codes) + Total(W, Codes)
  <2>1. \A c \in Codes : x[c] = g[c] + W[c]
    BY <1>15
  <2> QED
    BY <1>0, <2>1, SumPlus
<1>21. Total(W, Codes) = 100 * Total(w, Codes)
  <2>1. \A c \in Codes : W[c] = 100 * w[c]
    BY <1>13
  <2> QED
    BY <1>0, <2>1, SumTimes, SMTT(30)
<1>22. Total(V, Codes) = 100 * Total(v, Codes)
  <2>1. \A c \in Codes : V[c] = 100 * v[c]
    BY <1>14
  <2> QED
    BY <1>0, <2>1, SumTimes, SMTT(30)
<1>23. /\ Total(f, Codes) \in Int /\ Total(g, Codes) \in Int /\ Total(k, Codes) \in Int
       /\ Total(v, Codes) \in Int /\ Total(w, Codes) \in Int
  <2>1. \A h \in [Codes -> Int] : Total(h, Codes) \in Int
    BY <1>0, SumType
  <2> QED
    BY <2>1
<1>24. Total(g, Codes) + 100 * Total(w, Codes) + Total(k, Codes) = Total(f, Codes) + 100 * Total(v, Codes)
  BY <1>18, <1>19, <1>20, <1>21, <1>22, <1>23
<1>25. SumFunction(w) = Total(w, Codes) /\ SumFunction(k) = Total(k, Codes) /\ SumFunction(v) = Total(v, Codes)
  BY <1>0, SumType
<1>26. Account(s) = Cash(s) + 100 * Total(v, Codes) /\ Cash(s) \in Int
  <2>1. Cash(s) \in Int
    <3>1. s \in 1..(LastSession + 1)
      BY SessionFacts, PaperAssumption DEF Sessions
    <3> QED
      BY <3>1, CashFacts
  <2> QED
    BY <1>10, <1>25, <2>1 DEF Account
<1>27. CashAfter(s)[Len(Targets(s))] = Cash(s) + Total(g, Codes) - Total(f, Codes)
  BY <1>8, <1>9, FinalCash
<1>28. /\ CashAfter(s)[Len(Targets(s))] + 100 * Total(w, Codes) = Account(s) - Total(k, Codes)
  <2>1. PICK tf, tg, tk, tv, tw \in Int : /\ tf = Total(f, Codes) /\ tg = Total(g, Codes)
            /\ tk = Total(k, Codes) /\ tv = Total(v, Codes) /\ tw = Total(w, Codes)
    BY <1>23
  <2>2. tg + 100 * tw + tk = tf + 100 * tv
    BY <1>24, <2>1
  <2>3. PICK q \in Int : q = Cash(s)
    BY <1>26
  <2>4. Account(s) = q + 100 * tv
    BY <1>26, <2>1, <2>3
  <2>5. CashAfter(s)[Len(Targets(s))] = q + tg - tf
    BY <1>27, <2>1, <2>3
  <2>6. q + tg - tf + 100 * tw = q + 100 * tv - tk
    BY <2>2
  <2>7. CashAfter(s)[Len(Targets(s))] + 100 * tw = Account(s) - tk
    BY <2>4, <2>5, <2>6
  <2> QED
    BY <2>1, <2>7
<1>29. SumFunction(MarkedBy(s)) = Total(w, Codes)
  BY <1>11, <1>25
<1>30. SumFunction(CostBy(s)) = Total(k, Codes)
  BY <1>12, <1>25
<1> QED
  BY <1>28, <1>29, <1>30

-----------------------------------------------------------------------------
(* The invariant *)

\* The trades come last, and only orders that were due leave rows.
RowsInv ==
    \A s \in Sessions : /\ trades[s] # NoRows => equity[s] # None
                        /\ HasRows(s) => Executable(s)

\* The session being executed: nothing of it is committed, nothing follows it.
Running(s) ==
    /\ Executable(s)
    /\ trades[s] = NoRows
    /\ \A t \in Sessions : t > s => ~HasRows(t)
    /\ step = "equity" => equity[s] = EquityRow(s)

AtInv ==
    /\ at = None <=> step = "none"
    /\ \A s \in Sessions : at = s => Running(s)

Solvent ==
    /\ \A u \in 1..(LastSession + 1) : Cash(u) >= 0
    /\ \A s \in Sessions : equity[s] # None => equity[s].cash >= 0

PaperInv == TypeOK /\ OrdersInv /\ RowsInv /\ AtInv /\ Solvent

-----------------------------------------------------------------------------
(* A step that leaves alone what an execution reads leaves alone its result *)

SameReads(s) ==
    /\ market'[s] = market[s]
    /\ orders'[s - 1] = orders[s - 1]
    /\ \A t \in 1..(s - 1) : positions'[t] = positions[t] /\ trades'[t] = trades[t]

\* What a purchase leaves of the cash it finds, and the lots it buys with it.
Lefts(s) == [c \in Codes |-> [m \in Int |-> Left(s, c, m)]]
Buys(s) == [c \in Codes |-> [m \in Int |-> Buy(s, c, m)]]

\* Purchase by purchase: what CashAfter and Bought are, in one state and in the next.
Purchases(s) ==
    /\ CashAfter(s) \in [0..Len(Targets(s)) -> Int]
    /\ Over(CashAfter(s), Len(Targets(s)))
    /\ CashAfter(s)[0] = Start(s)
    /\ \A n \in 1..Len(Targets(s)) :
          CashAfter(s)[n] = Lefts(s)[Targets(s)[n]][CashAfter(s)[n - 1]]
    /\ \A c \in Codes : \A n \in 1..Len(Targets(s)) :
          Targets(s)[n] = c => Bought(s, c) = Buys(s)[c][CashAfter(s)[n - 1]]

LEMMA PurchasesAlways == \A s : TypeOK /\ Executable(s) => Purchases(s)
<1> SUFFICES ASSUME NEW s, TypeOK, Executable(s) PROVE Purchases(s)
  OBVIOUS
<1>1. CashAfter(s) \in [0..Len(Targets(s)) -> Int] /\ CashAfter(s)[0] = Start(s)
  BY CashAfterFacts
<1>2. Over(CashAfter(s), Len(Targets(s)))
  BY <1>1 DEF Over
<1>3. \A n \in 1..Len(Targets(s)) : n - 1 \in 0..Len(Targets(s)) /\ Targets(s)[n] \in Codes
  BY SessionFacts, RankingFacts
<1>4. \A n \in 1..Len(Targets(s)) : CashAfter(s)[n] = Lefts(s)[Targets(s)[n]][CashAfter(s)[n - 1]]
  <2> TAKE n \in 1..Len(Targets(s))
  <2>1. PICK c \in Codes : c = Targets(s)[n]
    BY <1>3
  <2>2. PICK m \in Int : m = CashAfter(s)[n - 1]
    BY <1>1, <1>3
  <2>3. CashAfter(s)[n] = Left(s, c, m)
    BY <2>1, <2>2, CashAfterFacts
  <2> QED
    BY <2>1, <2>2, <2>3 DEF Lefts
<1>5. ASSUME NEW c \in Codes, NEW n \in 1..Len(Targets(s)), Targets(s)[n] = c
      PROVE  Bought(s, c) = Buys(s)[c][CashAfter(s)[n - 1]]
  <2>1. PICK m \in Int : m = CashAfter(s)[n - 1]
    BY <1>1, <1>3
  <2>2. Bought(s, c) = Buy(s, c, m)
    BY <1>5, <2>1, BoughtInTurn
  <2> QED
    BY <2>1, <2>2 DEF Buys
<1> QED
  BY <1>1, <1>2, <1>4, <1>5 DEF Purchases

LEMMA PurchasesNext == (\A s : TypeOK /\ Executable(s) => Purchases(s))'
BY PurchasesAlways, PTL

\* The quantities of an execution, code by code.
SameResult(s) ==
    /\ Targets(s)' = Targets(s) /\ Due(s)' = Due(s)
    /\ CashAfter(s)' = CashAfter(s)
    /\ \A c \in Codes : /\ Held(s, c)' = Held(s, c)
                        /\ Mark(s, c)' = Mark(s, c)
                        /\ Desired(s, c)' = Desired(s, c)
                        /\ Sold(s, c)' = Sold(s, c)
                        /\ Proceeds(s, c)' = Proceeds(s, c)
                        /\ Bought(s, c)' = Bought(s, c)
                        /\ \A lots : Spent(s, c, lots)' = Spent(s, c, lots)

LEMMA HeldSame ==
    ASSUME NEW s \in Nat, s > 0, NEW c,
           \A t \in 1..(s - 1) : positions'[t] = positions[t]
    PROVE  Held(s, c)' = Held(s, c)
<1>1. PICK dates : dates = {t \in 1..(s - 1) : c \in DOMAIN positions[t]}
  OBVIOUS
<1>2. dates = {t \in 1..(s - 1) : c \in DOMAIN positions'[t]}
  BY <1>1
<1>3. dates # {} => positions'[Max(dates)] = positions[Max(dates)]
  <2>1. dates \in SUBSET (0..(s - 1)) /\ \A t \in dates : t \in 1..(s - 1)
    BY <1>1
  <2>2. dates # {} => Max(dates) \in dates
    <3>1. s - 1 \in Nat
      OBVIOUS
    <3> QED
      BY <2>1, <3>1, MaxFacts
  <2> QED
    BY <2>1, <2>2
<1>4. Held(s, c) = IF dates = {} \/ positions[Max(dates)][c].lots = 0
                   THEN [lots |-> 0, mark |-> 0] ELSE positions[Max(dates)][c]
  BY <1>1 DEF Held, LatestRow
<1>5. Held(s, c)' = IF dates = {} \/ positions'[Max(dates)][c].lots = 0
                    THEN [lots |-> 0, mark |-> 0] ELSE positions'[Max(dates)][c]
  BY <1>2 DEF Held, LatestRow
<1> QED
  BY <1>3, <1>4, <1>5

LEMMA CashSame ==
    ASSUME NEW s, \A t \in 1..(s - 1) : trades'[t] = trades[t]
    PROVE  Cash(s)' = Cash(s)
<1>1. [t \in 1..(s - 1) |-> SumFunction([c \in DOMAIN trades'[t] |-> trades'[t][c].delta])]
        = [t \in 1..(s - 1) |-> SumFunction([c \in DOMAIN trades[t] |-> trades[t][c].delta])]
  OBVIOUS
<1> QED
  BY <1>1 DEF Cash

LEMMA ResultSame ==
    ASSUME TypeOK, TypeOK', NEW s, Executable(s), Executable(s)', SameReads(s)
    PROVE  SameResult(s)
<1>0. s \in Nat /\ s > 0 /\ Due(s) \subseteq Codes
  BY SessionFacts, PaperAssumption DEF Sessions
<1>1. Targets(s)' = Targets(s) /\ Due(s)' = Due(s)
  BY DEF SameReads, Targets, Due
<1>2. \A c : Held(s, c)' = Held(s, c)
  BY <1>0, HeldSame DEF SameReads
<1>3. Cash(s)' = Cash(s)
  BY CashSame DEF SameReads
<1>4. \A c : Price(s, c)' = Price(s, c)
  BY DEF SameReads, Price
<1>5. \A c : Mark(s, c)' = Mark(s, c)
  BY <1>2, <1>4 DEF Mark
<1>6. Account(s)' = Account(s)
  <2>1. [c \in Codes |-> Held(s, c)'.lots * Mark(s, c)'] = [c \in Codes |-> Held(s, c).lots * Mark(s, c)]
    BY <1>2, <1>5
  <2> QED
    BY <1>3, <2>1 DEF Account
<1>7. \A c : Desired(s, c)' = Desired(s, c)
  <2> TAKE c
  <2>1. Range(Targets(s)') = Range(Targets(s))
    BY <1>1
  <2>2. CASE c \notin Range(Targets(s))
    BY <2>1, <2>2 DEF Desired
  <2>3. CASE c \in Range(Targets(s)) /\ Price(s, c) = 0
    <3>1. Desired(s, c) = Held(s, c).lots + 1
      BY <2>3 DEF Desired
    <3>2. Desired(s, c)' = Held(s, c)'.lots + 1
      BY <1>4, <2>1, <2>3 DEF Desired
    <3> QED
      BY <1>2, <3>1, <3>2
  <2>4. CASE c \in Range(Targets(s)) /\ Price(s, c) # 0
    <3>1. Desired(s, c) = IF Account(s) > 0 THEN Account(s) \div (TopN * 100 * Price(s, c)) ELSE 0
      BY <2>4 DEF Desired
    <3>2. Desired(s, c)' = IF Account(s)' > 0 THEN Account(s)' \div (TopN * 100 * Price(s, c)') ELSE 0
      BY <1>4, <2>1, <2>4 DEF Desired
    <3> QED
      BY <1>4, <1>6, <3>1, <3>2
  <2> QED
    BY <2>2, <2>3, <2>4
<1>8. \A c : Sold(s, c)' = Sold(s, c)
  <2>1. \A c : market'[s][c] = market[s][c]
    BY DEF SameReads
  <2> QED
    BY <1>1, <1>2, <1>7, <2>1 DEF Sold
<1>9. \A c : Proceeds(s, c)' = Proceeds(s, c)
  BY <1>4, <1>8 DEF Proceeds
<1>10. \A c, lots : Spent(s, c, lots)' = Spent(s, c, lots)
  BY <1>4 DEF Spent
<1>11. \A c, m : Buy(s, c, m)' = Buy(s, c, m)
  <2> TAKE c, m
  <2>1. Affordable(s, c, m)' = Affordable(s, c, m)
    BY <1>4 DEF Affordable
  <2>2. market'[s][c] = market[s][c]
    BY DEF SameReads
  <2> QED
    BY <1>2, <1>7, <2>1, <2>2 DEF Buy
<1>12. Start(s)' = Start(s)
  <2>1. [c \in Codes |-> Proceeds(s, c)'] = [c \in Codes |-> Proceeds(s, c)]
    BY <1>9
  <2> QED
    BY <1>3, <2>1 DEF Start
<1>13. PICK r \in Rankings : r = Targets(s)
  BY SessionFacts
<1>14. Len(r) \in Nat /\ r \in [1..Len(r) -> Codes]
  BY RankingFacts
<1>15. Purchases(s)
  BY PurchasesAlways
<1>16. Purchases(s)'
  BY PurchasesNext
<1>17. Buys(s)' = Buys(s)
  BY <1>11 DEF Buys
<1>18. Lefts(s)' = Lefts(s)
  <2>1. \A c \in Codes, m \in Int : Left(s, c, m)' = Left(s, c, m)
    BY <1>4, <1>11 DEF Left, Spent
  <2> QED
    BY <2>1 DEF Lefts
<1>19. CashAfter(s)' = CashAfter(s)
  <2>1. PICK a : a = CashAfter(s)
    OBVIOUS
  <2>2. PICK b : b = CashAfter(s)'
    OBVIOUS
  <2>3. PICK T : T = Lefts(s)
    OBVIOUS
  <2>4. Over(a, Len(r)) /\ a[0] = Start(s) /\ \A n \in 1..Len(r) : a[n] = T[r[n]][a[n - 1]]
    BY <1>13, <1>15, <2>1, <2>3 DEF Purchases
  <2>5. Over(b, Len(r)) /\ b[0] = Start(s) /\ \A n \in 1..Len(r) : b[n] = T[r[n]][b[n - 1]]
    BY <1>1, <1>12, <1>13, <1>16, <1>18, <2>2, <2>3 DEF Purchases
  <2>6. \A n \in 1..Len(r) : a[n - 1] = b[n - 1] => a[n] = b[n]
    BY <2>4, <2>5
  <2> QED
    BY <1>14, <2>1, <2>2, <2>4, <2>5, <2>6, Alike
<1>20. \A c \in Codes : Bought(s, c)' = Bought(s, c)
  <2> TAKE c \in Codes
  <2>1. CASE c \notin Range(Targets(s))
    BY <1>1, <2>1 DEF Bought
  <2>2. CASE c \in Range(Targets(s))
    <3>1. PICK n \in 1..Len(r) : c = r[n]
      BY <1>13, <1>14, <2>2 DEF Range
    <3>2. Bought(s, c) = Buys(s)[c][CashAfter(s)[n - 1]]
      BY <1>13, <1>15, <3>1 DEF Purchases
    <3>3. Bought(s, c)' = Buys(s)'[c][CashAfter(s)'[n - 1]]
      BY <1>1, <1>13, <1>16, <3>1 DEF Purchases
    <3> QED
      BY <1>17, <1>19, <3>2, <3>3
  <2> QED
    BY <2>1, <2>2
<1> QED
  BY <1>1, <1>2, <1>5, <1>7, <1>8, <1>9, <1>10, <1>19, <1>20 DEF SameResult

LEMMA RowsSame ==
    ASSUME TypeOK, TypeOK', NEW s, Executable(s), Executable(s)', SameReads(s)
    PROVE  /\ PositionRows(s)' = PositionRows(s)
           /\ TradeRows(s)' = TradeRows(s)
<1>0. SameResult(s)
  BY ResultSame
<1>1. Due(s)' = Due(s) /\ Due(s) \subseteq Codes
  BY <1>0, SessionFacts DEF SameResult
<1>2. \A c \in Codes : /\ Held(s, c)' = Held(s, c) /\ Mark(s, c)' = Mark(s, c)
                       /\ Desired(s, c)' = Desired(s, c) /\ Sold(s, c)' = Sold(s, c)
                       /\ Proceeds(s, c)' = Proceeds(s, c) /\ Bought(s, c)' = Bought(s, c)
  BY <1>0 DEF SameResult
<1>3. \A c \in Codes : After(s, c)' = After(s, c)
  BY <1>2 DEF After
<1>4. \A c \in Codes : Status(s, c)' = Status(s, c)
  BY <1>2 DEF Status
<1>5. \A c \in Codes : SpentBy(s)'[c] = SpentBy(s)[c]
  <2> TAKE c \in Codes
  <2>1. \A lots : Spent(s, c, lots)' = Spent(s, c, lots)
    BY <1>0 DEF SameResult
  <2>2. Price(s, c)' = Price(s, c)
    BY DEF SameReads, Price
  <2> QED
    BY <1>2, <2>2 DEF SpentBy, Spent
<1>6. PositionRows(s)' = PositionRows(s)
  <2>1. PICK D : D = {c \in Codes : Held(s, c).lots > 0} \cup {c \in Due(s) : Desired(s, c) # Held(s, c).lots}
    OBVIOUS
  <2>2. D \subseteq Codes
    BY <1>1, <2>1
  <2>3. D = {c \in Codes : Held(s, c)'.lots > 0} \cup {c \in Due(s)' : Desired(s, c)' # Held(s, c)'.lots}
    BY <1>1, <1>2, <2>1
  <2>4. PositionRows(s) = [c \in D |-> [lots |-> After(s, c), mark |-> Mark(s, c)]]
    BY <2>1 DEF PositionRows
  <2>5. PositionRows(s)' = [c \in D |-> [lots |-> After(s, c)', mark |-> Mark(s, c)']]
    BY <2>3 DEF PositionRows
  <2>6. [c \in D |-> [lots |-> After(s, c)', mark |-> Mark(s, c)']] = [c \in D |-> [lots |-> After(s, c), mark |-> Mark(s, c)]]
    BY <1>2, <1>3, <2>2
  <2> QED
    BY <2>4, <2>5, <2>6
<1>7. TradeRows(s)' = TradeRows(s)
  <2>1. TradeRows(s) = [c \in Due(s) |-> [status |-> Status(s, c), lots |-> Bought(s, c) - Sold(s, c),
                                          delta |-> Proceeds(s, c) - SpentBy(s)[c]]]
    BY <1>1 DEF TradeRows, SpentBy
  <2>2. TradeRows(s)' = [c \in Due(s)' |-> [status |-> Status(s, c)', lots |-> Bought(s, c)' - Sold(s, c)',
                                            delta |-> Proceeds(s, c)' - SpentBy(s)'[c]]]
    BY <1>1 DEF TradeRows, SpentBy
  <2>3. \A c \in Due(s) : [status |-> Status(s, c)', lots |-> Bought(s, c)' - Sold(s, c)',
                           delta |-> Proceeds(s, c)' - SpentBy(s)'[c]]
                            = [status |-> Status(s, c), lots |-> Bought(s, c) - Sold(s, c),
                               delta |-> Proceeds(s, c) - SpentBy(s)[c]]
    BY <1>1, <1>2, <1>4, <1>5
  <2> QED
    BY <1>1, <2>1, <2>2, <2>3
<1> QED
  BY <1>6, <1>7

LEMMA EquityRowSame ==
    ASSUME TypeOK, TypeOK', NEW s, Executable(s), Executable(s)', SameReads(s),
           \A t \in 1..(s - 1) : equity'[t] = equity[t],
           \A t \in Sessions : t # s => trades'[t] = trades[t]
    PROVE  EquityRow(s)' = EquityRow(s)
<1>0. SameResult(s)
  BY ResultSame
<1>1. CashAfter(s)'[Len(Targets(s)')] = CashAfter(s)[Len(Targets(s))]
  BY <1>0 DEF SameResult
<1>2. MarkedBy(s)' = MarkedBy(s)
  <2>1. \A c \in Codes : After(s, c)' * Mark(s, c)' = After(s, c) * Mark(s, c)
    BY <1>0 DEF SameResult, After
  <2> QED
    BY <2>1 DEF MarkedBy
<1>3. Previous(s)' = Previous(s)
  <2>1. Earlier(s)' = Earlier(s)
    BY DEF Earlier
  <2>2. Earlier(s) # {} => equity'[Max(Earlier(s))] = equity[Max(Earlier(s))]
    <3>1. Earlier(s) \in SUBSET (0..(s - 1)) /\ s - 1 \in Nat
      BY SessionFacts DEF Earlier
    <3>2. Earlier(s) # {} => Max(Earlier(s)) \in Earlier(s)
      BY <3>1, MaxFacts
    <3> QED
      BY <3>2 DEF Earlier
  <2>3. CASE Earlier(s) = {}
    BY <2>1, <2>3 DEF Previous
  <2>4. CASE Earlier(s) # {}
    <3>1. Previous(s) = Value(equity[Max(Earlier(s))])
      BY <2>4 DEF Previous
    <3>2. Previous(s)' = Value(equity'[Max(Earlier(s)')])
      BY <2>1, <2>4 DEF Previous, Value
    <3> QED
      BY <2>1, <2>2, <2>4, <3>1, <3>2
  <2> QED
    BY <2>3, <2>4
<1>4. ClosedBy(s)' = ClosedBy(s)
  <2>1. TradeRows(s)' = TradeRows(s)
    BY RowsSame
  <2>2. \A t \in Sessions : (IF t = s THEN TradeRows(s)' ELSE trades'[t])
                              = IF t = s THEN TradeRows(s) ELSE trades[t]
    BY <2>1
  <2>3. \A t \in Sessions : Cardinality(Sales(IF t = s THEN TradeRows(s)' ELSE trades'[t]))
                              = Cardinality(Sales(IF t = s THEN TradeRows(s) ELSE trades[t]))
    BY <2>2
  <2>4. ClosedBy(s)' = [t \in Sessions |-> Cardinality(Sales(IF t = s THEN TradeRows(s)' ELSE trades'[t]))]
    BY DEF ClosedBy, Sales
  <2> QED
    BY <2>3, <2>4 DEF ClosedBy
<1>5. EquityRow(s)' = [cash     |-> CashAfter(s)'[Len(Targets(s)')],
                       holdings |-> SumFunction(MarkedBy(s)'),
                       previous |-> Previous(s)',
                       closed   |-> SumFunction(ClosedBy(s)')]
  BY DEF EquityRow, MarkedBy, Previous, Earlier, ClosedBy, Sales, Value
<1> QED
  BY <1>1, <1>2, <1>3, <1>4, <1>5, EquityRowParts

-----------------------------------------------------------------------------
(* The invariant is inductive *)

LEMMA NoRowsFacts ==
    /\ DOMAIN NoRows = {} /\ CashOf(NoRows) = 0
    /\ \A Record : AreRows(NoRows, Record)
<1>1. DOMAIN NoRows = {}
  BY DEF NoRows
<1>2. CashOf(NoRows) = 0
  <2>1. PICK f : f = [c \in DOMAIN NoRows |-> NoRows[c].delta]
    OBVIOUS
  <2>2. f \in [{} -> Int] /\ IsFiniteSet({})
    BY <1>1, <2>1, FS_EmptySet
  <2>3. SumFunction(f) = Total(f, {}) /\ Total(f, {}) = 0
    <3>1. Total(f, {}) = SumFunction(f)
      BY <2>2, TotalFacts
    <3>2. Total(f, {}) = 0
      BY <2>2, TotalFacts
    <3> QED
      BY <3>1, <3>2
  <2> QED
    BY <2>1, <2>3 DEF CashOf
<1>3. \A Record : AreRows(NoRows, Record)
  BY DEF AreRows, NoRows
<1> QED
  BY <1>1, <1>2, <1>3

LEMMA InitPaper == Init => PaperInv
<1> SUFFICES ASSUME Init PROVE PaperInv
  OBVIOUS
<1> USE DEF Init
<1>0. LastSession \in Nat /\ InitialCash \in Nat /\ IsFiniteSet(Sessions) /\ None \notin Sessions
  BY PaperAssumption, NoneAssumption, FS_Interval DEF Sessions
<1>1. TypeOK
  <2>1. market \in Seq(Markets) /\ today <= LastSession
    BY <1>0 DEF today
  <2>2. \A s \in Sessions : positions[s] = NoRows /\ trades[s] = NoRows
    OBVIOUS
  <2>3. \A s \in Sessions : AreRows(positions[s], [lots : Nat, mark : Nat])
    BY <2>2, NoRowsFacts
  <2>4. \A s \in Sessions : AreRows(trades[s], [status : {"filled", "rejected", "noop"},
                                                lots : Int, delta : Int])
    BY <2>2, NoRowsFacts
  <2>5. orders \in [Sessions -> OrderRecords \cup {None}] /\ equity \in [Sessions -> EquityRecords \cup {None}]
    OBVIOUS
  <2>6. DOMAIN positions = Sessions /\ DOMAIN trades = Sessions
    OBVIOUS
  <2>7. at \in Sessions \cup {None} /\ step \in {"none", "positions", "equity"}
    OBVIOUS
  <2> QED
    BY <2>1, <2>3, <2>4, <2>5, <2>6, <2>7 DEF TypeOK
<1>2. OrdersInv
  BY DEF OrdersInv
<1>3. RowsInv
  BY DEF RowsInv, HasRows
<1>4. AtInv
  BY <1>0 DEF AtInv
<1>5. Solvent
  <2>1. ASSUME NEW u \in 1..(LastSession + 1) PROVE Cash(u) >= 0
    <3>1. Cash(u) = InitialCash + Total(CashBy, 1..(u - 1)) /\ CashBy \in [Sessions -> Int]
      BY <1>1, CashFacts
    <3>2. \A t \in Sessions : CashBy[t] = 0
      BY NoRowsFacts DEF CashBy
    <3>3. 1..(u - 1) \in SUBSET Sessions /\ {} \in SUBSET (1..(u - 1))
      BY <1>0 DEF Sessions
    <3>4. Total(CashBy, 1..(u - 1)) = Total(CashBy, {})
      <4>1. \A t \in (1..(u - 1)) \ {} : CashBy[t] = 0
        BY <3>2, <3>3
      <4> QED
        BY <1>0, <3>1, <3>3, <4>1, TotalOver
    <3>5. Total(CashBy, {}) = 0
      BY <1>0, <3>1, TotalFacts
    <3> QED
      BY <1>0, <3>1, <3>4, <3>5
  <2> QED
    BY <2>1 DEF Solvent
<1> QED
  BY <1>1, <1>2, <1>3, <1>4, <1>5 DEF PaperInv

LEMMA TodayFacts ==
    ASSUME TypeOK
    PROVE  /\ LastSession \in Nat /\ today \in Nat /\ today <= LastSession
           /\ None \notin Sessions /\ None \notin EquityRecords
BY PaperAssumption, NoneAssumption DEF TypeOK, today

LEMMA OrdersOfRebalance ==
    ASSUME PaperInv, NEW s \in Sessions, NEW ranking \in Rankings, Rebalance(s, ranking)
    PROVE  orders' \in [Sessions -> OrderRecords \cup {None}] /\ OrdersInv'
<1>1. PICK codes : /\ codes = Range(ranking) \cup {c \in Codes : LatestRow(1..s, c).lots > 0}
                   /\ codes # {}
                   /\ orders' = [orders EXCEPT ![s] = [ranking |-> ranking, codes |-> codes]]
  BY DEF Rebalance
<1>2. Range(ranking) \subseteq Codes
  <2>1. ranking \in [1..Len(ranking) -> Codes]
    BY RankingFacts
  <2> QED
    BY <2>1 DEF Range
<1>3. codes \in SUBSET Codes
  BY <1>1, <1>2
<1>4. [ranking |-> ranking, codes |-> codes] \in OrderRecords
  BY <1>3 DEF OrderRecords
<1>5. orders \in [Sessions -> OrderRecords \cup {None}]
  BY DEF PaperInv, TypeOK
<1>6. orders' \in [Sessions -> OrderRecords \cup {None}]
  BY <1>1, <1>4, <1>5
<1>7. OrdersInv'
  <2>1. ASSUME NEW t \in Sessions, orders'[t] # None
        PROVE  orders'[t].codes # {} /\ Range(orders'[t].ranking) \subseteq orders'[t].codes
    <3>1. CASE t = s
      BY <1>1, <1>5, <3>1
    <3>2. CASE t # s
      BY <1>1, <1>5, <2>1, <3>2 DEF PaperInv, OrdersInv
    <3> QED
      BY <3>1, <3>2
  <2> QED
    BY <2>1 DEF OrdersInv
<1> QED
  BY <1>6, <1>7

LEMMA MergeType ==
    ASSUME NEW Record, NEW old, NEW new, AreRows(old, Record), AreRows(new, Record)
    PROVE  AreRows(Merge(old, new), Record)
BY DEF AreRows, Merge

LEMMA TypeStep == PaperInv /\ [Next]_vars => TypeOK'
<1> SUFFICES ASSUME PaperInv, [Next]_vars PROVE TypeOK'
  OBVIOUS
<1>0. TypeOK /\ OrdersInv
  BY DEF PaperInv
<1>1. ASSUME NEW m \in Markets, NewSession(m) PROVE TypeOK'
  <2>1. market \in Seq(Markets) /\ market' = Append(market, m) /\ today < LastSession
    BY <1>0, <1>1 DEF NewSession, TypeOK
  <2>2. market' \in Seq(Markets) /\ Len(market') = Len(market) + 1
    BY <2>1
  <2>3. today' <= LastSession
    BY <2>1, <2>2, TodayFacts, <1>0 DEF today
  <2> QED
    BY <1>0, <1>1, <2>2, <2>3 DEF NewSession, TypeOK, ledgers, AreRows
<1>2. ASSUME NEW s \in Sessions, NEW ranking \in Rankings, Rebalance(s, ranking) PROVE TypeOK'
  <2>1. orders' \in [Sessions -> OrderRecords \cup {None}]
    BY <1>2, OrdersOfRebalance
  <2> QED
    BY <1>0, <1>2, <2>1 DEF Rebalance, TypeOK, today, AreRows
<1>3. ASSUME NEW s \in Sessions, AppendPositions(s) PROVE TypeOK'
  <2>1. Executable(s) /\ positions' = [positions EXCEPT ![s] = Merge(positions[s], PositionRows(s))]
    BY <1>3 DEF AppendPositions, Executable
  <2>2. AreRows(PositionRows(s), PositionRecords)
    BY <1>0, <2>1, PositionRowsType
  <2>3. \A t \in Sessions : AreRows(positions[t], PositionRecords)
    BY <1>0 DEF TypeOK, PositionRecords
  <2>4. AreRows(Merge(positions[s], PositionRows(s)), PositionRecords)
    BY <2>2, <2>3, MergeType
  <2>5. DOMAIN positions' = Sessions /\ \A t \in Sessions : AreRows(positions'[t], PositionRecords)
    <3>1. DOMAIN positions = Sessions
      BY <1>0 DEF TypeOK
    <3>2. PICK rows : rows = Merge(positions[s], PositionRows(s))
      OBVIOUS
    <3>3. \A t \in Sessions : positions'[t] = IF t = s THEN rows ELSE positions[t]
      BY <2>1, <3>1, <3>2
    <3> QED
      BY <2>1, <2>3, <2>4, <3>1, <3>2, <3>3
  <2>6. \A t \in Sessions : AreRows(positions[t], [lots : Nat, mark : Nat])'
    BY <2>5 DEF PositionRecords, AreRows
  <2> QED
    BY <1>0, <1>3, <2>5, <2>6 DEF AppendPositions, TypeOK, today, AreRows
<1>4. ASSUME AppendEquity PROVE TypeOK'
  <2>1. PICK s \in Sessions : s = at
    BY <1>0, <1>4 DEF AppendEquity, PaperInv, AtInv, TypeOK
  <2>2. Executable(s)
    BY <2>1 DEF PaperInv, AtInv, Running
  <2>3. EquityRow(s) \in EquityRecords
    BY <1>0, <2>2, EquityRowType
  <2>4. equity' = [equity EXCEPT ![s] = EquityRow(s)]
    BY <1>4, <2>1 DEF AppendEquity
  <2>5. equity' \in [Sessions -> EquityRecords \cup {None}]
    BY <1>0, <2>3, <2>4 DEF TypeOK
  <2> QED
    BY <1>0, <1>4, <2>5 DEF AppendEquity, TypeOK, today, AreRows
<1>5. ASSUME AppendTrades PROVE TypeOK'
  <2>1. PICK s \in Sessions : s = at
    BY <1>0, <1>5 DEF AppendTrades, PaperInv, AtInv, TypeOK
  <2>2. Executable(s)
    BY <2>1 DEF PaperInv, AtInv, Running
  <2>3. PICK rows : rows = TradeRows(s) /\ AreRows(rows, TradeRecords)
    BY <1>0, <2>2, TradeRowsType
  <2>4. trades' = [trades EXCEPT ![s] = rows]
    BY <1>5, <2>1, <2>3 DEF AppendTrades
  <2>5. DOMAIN trades = Sessions /\ \A t \in Sessions : AreRows(trades[t], TradeRecords)
    BY <1>0 DEF TypeOK, TradeRecords
  <2>6. DOMAIN trades' = Sessions /\ \A t \in Sessions : trades'[t] = IF t = s THEN rows ELSE trades[t]
    BY <2>4, <2>5
  <2>7. \A t \in Sessions : AreRows(trades'[t], TradeRecords)
    BY <2>3, <2>5, <2>6
  <2>8. \A t \in Sessions : AreRows(trades[t], [status : {"filled", "rejected", "noop"}, lots : Int, delta : Int])'
    BY <2>7 DEF TradeRecords, AreRows
  <2> QED
    BY <1>0, <1>5, <2>6, <2>8 DEF AppendTrades, TypeOK, today, AreRows
<1>6. ASSUME Interrupt PROVE TypeOK'
  BY <1>0, <1>6 DEF Interrupt, TypeOK, today, ledgers, AreRows
<1>7. ASSUME UNCHANGED vars PROVE TypeOK'
  BY <1>0, <1>7 DEF vars, TypeOK, today, ledgers, AreRows
<1> QED
  BY <1>1, <1>2, <1>3, <1>4, <1>5, <1>6, <1>7 DEF Next

LEMMA OrdersStep == PaperInv /\ [Next]_vars => OrdersInv'
<1> SUFFICES ASSUME PaperInv, [Next]_vars PROVE OrdersInv'
  OBVIOUS
<1>1. ASSUME UNCHANGED orders PROVE OrdersInv'
  BY <1>1 DEF PaperInv, OrdersInv
<1>2. ASSUME NEW s \in Sessions, NEW ranking \in Rankings, Rebalance(s, ranking) PROVE OrdersInv'
  BY <1>2, OrdersOfRebalance
<1>3. (\E s \in Sessions : \E ranking \in Rankings : Rebalance(s, ranking)) \/ UNCHANGED orders
  BY DEF Next, NewSession, AppendPositions, AppendEquity, AppendTrades, Interrupt, vars, ledgers
<1> QED
  BY <1>1, <1>2, <1>3

\* Once due, orders stay due; the session is one that has orders.
LEMMA ExecutableStays ==
    ASSUME PaperInv, [Next]_vars, NEW s, Executable(s)
    PROVE  /\ Executable(s)'
           /\ market'[s] = market[s] /\ orders'[s - 1] = orders[s - 1]
<1>0. TypeOK
  BY DEF PaperInv
<1>1. s \in 2..Len(market) /\ orders[s - 1] # None
  BY DEF Executable, today
<1>2. market \in Seq(Markets)
  BY <1>0 DEF TypeOK
<1>3. CASE \E m \in Markets : NewSession(m)
  <2>1. PICK m \in Markets : market' = Append(market, m) /\ orders' = orders
    BY <1>3 DEF NewSession, ledgers
  <2>2. Len(market') = Len(market) + 1 /\ market'[s] = market[s]
    BY <1>1, <1>2, <2>1
  <2>3. s \in 2..Len(market')
    BY <1>1, <1>2, <2>2
  <2> QED
    BY <1>1, <2>1, <2>2, <2>3 DEF Executable, today
<1>4. CASE \E t \in Sessions : \E ranking \in Rankings : Rebalance(t, ranking)
  <2>1. PICK t \in Sessions, ranking \in Rankings : Rebalance(t, ranking)
    BY <1>4
  <2>2. PICK row : orders[t] = None /\ orders' = [orders EXCEPT ![t] = row] /\ market' = market
    BY <2>1 DEF Rebalance
  <2>3. s - 1 # t /\ orders \in [Sessions -> OrderRecords \cup {None}]
    BY <1>0, <1>1, <2>2 DEF TypeOK
  <2>4. orders'[s - 1] = orders[s - 1]
    BY <2>2, <2>3
  <2> QED
    BY <1>1, <2>2, <2>4 DEF Executable, today
<1>5. CASE UNCHANGED <<market, orders>>
  BY <1>1, <1>5 DEF Executable, today
<1>6. \/ \E m \in Markets : NewSession(m)
      \/ \E t \in Sessions : \E ranking \in Rankings : Rebalance(t, ranking)
      \/ UNCHANGED <<market, orders>>
  BY DEF Next, AppendPositions, AppendEquity, AppendTrades, Interrupt, vars, ledgers
<1> QED
  BY <1>3, <1>4, <1>5, <1>6

LEMMA RunningSession ==
    ASSUME PaperInv, step # "none" \/ at # None
    PROVE  \E s \in Sessions : s = at /\ Running(s) /\ Executable(s)
BY DEF PaperInv, TypeOK, AtInv, Running

LEMMA RowsStep == PaperInv /\ [Next]_vars => RowsInv'
<1> SUFFICES ASSUME PaperInv, [Next]_vars, NEW s \in Sessions
             PROVE  /\ trades'[s] # NoRows => equity'[s] # None
                    /\ HasRows(s)' => Executable(s)'
  BY DEF RowsInv
<1>0. /\ trades[s] # NoRows => equity[s] # None
      /\ HasRows(s) => Executable(s)
      /\ DOMAIN positions = Sessions /\ DOMAIN equity = Sessions /\ DOMAIN trades = Sessions
  BY DEF PaperInv, RowsInv, TypeOK
<1>1. Executable(s) => Executable(s)'
  BY ExecutableStays
<1>2. CASE UNCHANGED <<positions, equity, trades>>
  BY <1>0, <1>1, <1>2 DEF HasRows
<1>3. ASSUME NEW t \in Sessions, AppendPositions(t)
      PROVE  /\ trades'[s] # NoRows => equity'[s] # None
             /\ HasRows(s)' => Executable(s)'
  <2>1. Executable(t) /\ UNCHANGED <<equity, trades>> /\ \E rows : positions' = [positions EXCEPT ![t] = rows]
    BY <1>3 DEF AppendPositions, Executable
  <2>2. s # t => (HasRows(s)' => HasRows(s))
    BY <1>0, <2>1 DEF HasRows
  <2> QED
    BY <1>0, <1>1, <2>1, <2>2
<1>4. CASE AppendEquity
  <2>1. PICK t \in Sessions : t = at /\ Running(t) /\ Executable(t)
    BY <1>4, RunningSession DEF AppendEquity
  <2>2. equity' = [equity EXCEPT ![t] = EquityRow(t)] /\ UNCHANGED <<positions, trades>>
    BY <1>4, <2>1 DEF AppendEquity
  <2>3. EquityRow(t) # None
    BY <2>1, EquityRowType, TodayFacts DEF PaperInv
  <2>4. CASE s = t
    BY <1>0, <1>1, <2>1, <2>2, <2>3, <2>4
  <2>5. CASE s # t
    <3>1. equity'[s] = equity[s]
      BY <1>0, <2>2, <2>5
    <3> QED
      BY <1>0, <1>1, <2>2, <3>1 DEF HasRows
  <2> QED
    BY <2>4, <2>5
<1>5. CASE AppendTrades
  <2>1. PICK t \in Sessions : t = at /\ Running(t) /\ Executable(t)
    BY <1>5, RunningSession DEF AppendTrades
  <2>2. trades' = [trades EXCEPT ![t] = TradeRows(t)] /\ UNCHANGED <<positions, equity>>
    BY <1>5, <2>1 DEF AppendTrades
  <2>3. equity[t] = EquityRow(t)
    BY <1>5, <2>1 DEF AppendTrades, Running
  <2>4. EquityRow(t) # None
    BY <2>1, EquityRowType, TodayFacts DEF PaperInv
  <2>5. HasRows(s)' => HasRows(s)
    BY <2>2 DEF HasRows
  <2>6. s # t => trades'[s] = trades[s]
    BY <1>0, <2>2
  <2> QED
    BY <1>0, <1>1, <2>2, <2>3, <2>4, <2>5, <2>6
<1>6. \/ UNCHANGED <<positions, equity, trades>>
      \/ \E t \in Sessions : AppendPositions(t)
      \/ AppendEquity \/ AppendTrades
  BY DEF Next, NewSession, Rebalance, Interrupt, vars, ledgers
<1> QED
  BY <1>2, <1>3, <1>4, <1>5, <1>6

LEMMA AtStep == PaperInv /\ [Next]_vars => AtInv'
<1> SUFFICES ASSUME PaperInv, [Next]_vars PROVE AtInv'
  OBVIOUS
<1>0. TypeOK /\ TypeOK' /\ None \notin Sessions
  BY TypeStep, TodayFacts DEF PaperInv
<1>1. ASSUME at' = None, step' = "none" PROVE AtInv'
  BY <1>0, <1>1 DEF AtInv
<1>2. ASSUME NEW s \in Sessions, AppendPositions(s) PROVE AtInv'
  <2>1. at' = s /\ step' = "positions" /\ Executable(s)
    BY <1>2 DEF AppendPositions, Executable
  <2>2. Executable(s)'
    BY <2>1, ExecutableStays
  <2>3. trades' = trades /\ trades[s] = NoRows
    BY <1>2 DEF AppendPositions
  <2>4. \A t \in Sessions : t > s => ~HasRows(t)'
    <3>1. equity' = equity /\ \E rows : positions' = [positions EXCEPT ![s] = rows]
      BY <1>2 DEF AppendPositions
    <3>2. \A t \in Sessions : t > s => ~HasRows(t)
      BY <1>2 DEF AppendPositions, InTurn
    <3>3. s \in Int /\ \A t \in Sessions : t \in Int
      BY TodayFacts, <1>0 DEF Sessions
    <3>4. \A t \in Sessions : t > s => positions'[t] = positions[t]
      BY <1>0, <3>1, <3>3 DEF TypeOK
    <3> QED
      BY <3>1, <3>2, <3>4 DEF HasRows
  <2>5. Running(s)'
    BY <2>1, <2>2, <2>3, <2>4 DEF Running
  <2> QED
    BY <1>0, <2>1, <2>5 DEF AtInv
<1>3. CASE AppendEquity
  <2>1. PICK s \in Sessions : s = at /\ Running(s) /\ Executable(s)
    BY <1>3, RunningSession DEF AppendEquity
  <2>2. /\ equity' = [equity EXCEPT ![s] = EquityRow(s)]
        /\ UNCHANGED <<market, orders, positions, trades>>
        /\ at' = s /\ step' = "equity"
    BY <1>3, <2>1 DEF AppendEquity
  <2>3. Executable(s)'
    BY <2>1, ExecutableStays
  <2>4. s \in Int /\ \A t \in Sessions : t # s => equity'[t] = equity[t]
    BY <1>0, <2>2, TodayFacts DEF TypeOK, Sessions
  <2>5. \A t \in Sessions : t > s => ~HasRows(t)'
    <3>1. \A t \in Sessions : t > s => ~HasRows(t) /\ t # s
      BY <2>1, <2>4 DEF Running
    <3> QED
      BY <2>2, <2>4, <3>1 DEF HasRows
  <2>6. EquityRow(s)' = EquityRow(s)
    <3>1. SameReads(s)
      BY <2>2 DEF SameReads
    <3>2. \A t \in 1..(s - 1) : equity'[t] = equity[t]
      <4>1. \A t \in 1..(s - 1) : t \in Sessions /\ t # s
        BY <1>0, <2>1, SessionFacts
      <4> QED
        BY <2>4, <4>1
    <3>3. \A t \in Sessions : t # s => trades'[t] = trades[t]
      BY <2>2
    <3> QED
      BY <1>0, <2>1, <2>3, <3>1, <3>2, <3>3, EquityRowSame
  <2>7. equity'[s] = EquityRow(s)'
    BY <1>0, <2>2, <2>6 DEF TypeOK
  <2>8. trades'[s] = NoRows
    BY <2>1, <2>2 DEF Running
  <2>9. Running(s)'
    BY <2>3, <2>5, <2>7, <2>8 DEF Running
  <2> QED
    BY <1>0, <2>2, <2>9 DEF AtInv
<1>4. CASE UNCHANGED vars
  <2>1. at' = at /\ step' = step
    BY <1>4 DEF vars
  <2>2. ASSUME NEW s \in Sessions, at = s PROVE Running(s)'
    <3>1. Running(s) /\ Executable(s)
      BY <2>2 DEF PaperInv, AtInv, Running
    <3>2. Executable(s)'
      BY <3>1, ExecutableStays
    <3>3. EquityRow(s)' = EquityRow(s)
      <4>1. SameReads(s)
        BY <1>4 DEF SameReads, vars, ledgers
      <4>2. trades' = trades /\ equity' = equity
        BY <1>4 DEF vars, ledgers
      <4> QED
        BY <1>0, <3>1, <3>2, <4>1, <4>2, EquityRowSame
    <3>4. trades' = trades /\ equity' = equity /\ positions' = positions
      BY <1>4 DEF vars, ledgers
    <3> QED
      BY <2>1, <3>1, <3>2, <3>3, <3>4 DEF Running, HasRows
  <2> QED
    BY <2>1, <2>2 DEF AtInv, PaperInv
<1>5. \/ at' = None /\ step' = "none"
      \/ \E s \in Sessions : AppendPositions(s)
      \/ AppendEquity \/ UNCHANGED vars
  BY <1>0 DEF Next, NewSession, Rebalance, AppendTrades, Interrupt, PaperInv, AtInv
<1> QED
  BY <1>1, <1>2, <1>3, <1>4, <1>5

LEMMA LaterUnpaid ==
    ASSUME PaperInv, NEW s \in Sessions, Running(s), NEW t \in Sessions, t > s
    PROVE  trades[t] = NoRows /\ equity[t] = None /\ positions[t] = NoRows
BY DEF PaperInv, RowsInv, Running, HasRows

\* A sum over the sessions before u, when one more has been added to those before s.
LEMMA SumStep ==
    ASSUME NEW f \in [Sessions -> Int], NEW g \in [Sessions -> Int], NEW s \in Sessions, NEW k,
           NEW u \in 1..(LastSession + 1), u > s, g[s] = k,
           \A t \in Sessions : t # s => g[t] = f[t],
           \A t \in Sessions : t > s => f[t] = 0
    PROVE  Total(g, 1..(u - 1)) = Total(f, 1..(s - 1)) + k
<1>0. IsFiniteSet(Sessions) /\ LastSession \in Nat /\ s \in Nat /\ s > 0 /\ k \in Int
  BY PaperAssumption, FS_Interval DEF Sessions
<1>1. PICK R \in SUBSET Sessions : R = 1..(u - 1) /\ s \in R
  BY <1>0 DEF Sessions
<1>2. PICK r \in SUBSET (R \ {s}) : r = 1..(s - 1)
  BY <1>0, <1>1
<1>3. PICK rest \in SUBSET Sessions : rest = R \ {s}
  OBVIOUS
<1>4. Total(g, R) = k + Total(g, rest)
  <2>1. Adds(g, Sessions)
    BY <1>0, TotalAdds
  <2>2. Total(g, R) = g[s] + Total(g, R \ {s})
    BY <1>1, <2>1 DEF Adds
  <2> QED
    BY <1>3, <2>2
<1>5. Total(g, rest) = Total(g, r)
  <2>1. \A t \in rest \ r : g[t] = 0
    <3> TAKE t \in rest \ r
    <3>1. t \in Sessions /\ t # s /\ t > s
      BY <1>0, <1>1, <1>2, <1>3
    <3> QED
      BY <3>1
  <2>2. r \in SUBSET rest /\ IsFiniteSet(Sessions)
    BY <1>0, <1>2, <1>3
  <2> QED
    BY <2>1, <2>2, TotalOver
<1>6. Total(g, r) = Total(f, r)
  <2>1. \A t \in r : g[t] = f[t]
    BY <1>1, <1>2
  <2> QED
    BY <2>1, TotalSame
<1>7. Total(f, r) \in Int
  <2>1. r \in SUBSET Sessions
    BY <1>1, <1>2
  <2> QED
    BY <1>0, <2>1, TotalAdds DEF Adds
<1> QED
  BY <1>0, <1>1, <1>2, <1>4, <1>5, <1>6, <1>7

\* What committing a session does to the cash that later sessions start from.
LEMMA CashStep ==
    ASSUME PaperInv, NEW s \in Sessions, Running(s),
           trades' = [trades EXCEPT ![s] = TradeRows(s)],
           NEW u \in 1..(LastSession + 1)
    PROVE  /\ u <= s => Cash(u)' = Cash(u)
           /\ u > s => Cash(u)' = Cash(s) + CashOf(TradeRows(s))
<1>0. /\ TypeOK /\ Executable(s) /\ IsFiniteSet(Sessions) /\ LastSession \in Nat /\ s \in Nat /\ s > 0
      /\ s \in 1..(LastSession + 1) /\ InitialCash \in Int
  BY PaperAssumption, FS_Interval DEF PaperInv, Running, Sessions
<1>1. PICK rows : rows = TradeRows(s)
  OBVIOUS
<1>2. \A t \in Sessions : trades'[t] = IF t = s THEN rows ELSE trades[t]
  BY <1>0, <1>1 DEF TypeOK
<1>3. ASSUME u <= s PROVE Cash(u)' = Cash(u)
  <2>1. \A t \in 1..(u - 1) : t \in Sessions /\ t # s
    BY <1>0, <1>3 DEF Sessions
  <2>2. \A t \in 1..(u - 1) : trades'[t] = trades[t]
    BY <1>2, <2>1
  <2> QED
    BY <2>2, CashSame
<1>4. ASSUME u > s PROVE Cash(u)' = Cash(s) + CashOf(rows)
  <2>1. CashOf(rows) \in Int
    <3>1. AreRows(rows, TradeRecords)
      BY <1>0, <1>1, TradeRowsType
    <3>2. \A r \in TradeRecords : r.delta \in Int
      BY DEF TradeRecords
    <3> QED
      BY <3>1, <3>2, CashOfType
  <2>2. CashBy \in [Sessions -> Int] /\ Cash(s) = InitialCash + Total(CashBy, 1..(s - 1))
    BY <1>0, CashFacts
  <2>3. PICK g : g = [t \in Sessions |-> CashOf(trades'[t])]
    OBVIOUS
  <2>4. \A t \in Sessions : CashOf(trades'[t]) = IF t = s THEN CashOf(rows) ELSE CashBy[t]
    BY <1>2 DEF CashBy
  <2>5. \A t \in Sessions : CashOf(trades'[t]) \in Int
    BY <2>1, <2>2, <2>4
  <2>6. g \in [Sessions -> Int] /\ \A t \in Sessions : g[t] = IF t = s THEN CashOf(rows) ELSE CashBy[t]
    BY <2>3, <2>4, <2>5
  <2>7. Cash(u)' = InitialCash + Total(g, 1..(u - 1))
    <3>1. PICK T : T = trades'
      OBVIOUS
    <3>2. SumFunction([t \in 1..(u - 1) |-> SumFunction([c \in DOMAIN T[t] |-> T[t][c].delta])])
            = Total([t \in Sessions |-> CashOf(T[t])], 1..(u - 1))
      BY CashFrom
    <3> QED
      BY <2>3, <3>1, <3>2 DEF Cash
  <2>8. Total(g, 1..(u - 1)) = Total(CashBy, 1..(s - 1)) + CashOf(rows)
    <3>1. \A t \in Sessions : t > s => CashBy[t] = 0
      BY LaterUnpaid, NoRowsFacts DEF CashBy
    <3>2. \A t \in Sessions : t # s => g[t] = CashBy[t]
      BY <2>6
    <3>3. g \in [Sessions -> Int] /\ g[s] = CashOf(rows)
      BY <2>6
    <3>4. CashBy \in [Sessions -> Int]
      BY <2>2
    <3> QED
      BY <1>4, <3>1, <3>2, <3>3, <3>4, SumStep
  <2>9. PICK k \in Int : k = Total(CashBy, 1..(s - 1))
    <3>1. 1..(s - 1) \in SUBSET Sessions
      BY <1>0 DEF Sessions
    <3> QED
      BY <1>0, <2>2, <3>1, TotalAdds DEF Adds
  <2> QED
    BY <1>0, <2>1, <2>2, <2>7, <2>8, <2>9
<1> QED
  BY <1>1, <1>3, <1>4

LEMMA SolventStep == PaperInv /\ [Next]_vars => Solvent'
<1> SUFFICES ASSUME PaperInv, [Next]_vars PROVE Solvent'
  OBVIOUS
<1>0. /\ TypeOK /\ OrdersInv
      /\ \A u \in 1..(LastSession + 1) : Cash(u) >= 0
      /\ \A s \in Sessions : equity[s] # None => equity[s].cash >= 0
  BY DEF PaperInv, Solvent
<1>1. \A s \in Sessions : s \in 1..(LastSession + 1)
  BY PaperAssumption DEF Sessions
<1>2. ASSUME trades' = trades PROVE \A u \in 1..(LastSession + 1) : Cash(u)' >= 0
  <2>1. \A u \in 1..(LastSession + 1) : Cash(u)' = Cash(u)
    BY <1>2, CashSame
  <2> QED
    BY <1>0, <2>1
<1>3. ASSUME NEW s \in Sessions, Running(s)
      PROVE  CashAfter(s)[Len(Targets(s))] >= 0
  <2>1. Executable(s) /\ Cash(s) >= 0
    BY <1>0, <1>1, <1>3 DEF Running
  <2>2. Len(Targets(s)) \in 0..Len(Targets(s))
    BY <1>0, <2>1, SessionFacts, RankingFacts
  <2> QED
    BY <1>0, <2>1, <2>2, NeverOverdrawn
<1>4. CASE AppendEquity
  <2>1. PICK s \in Sessions : s = at /\ Running(s) /\ Executable(s)
    BY <1>4, RunningSession DEF AppendEquity
  <2>2. equity' = [equity EXCEPT ![s] = EquityRow(s)] /\ trades' = trades
    BY <1>4, <2>1 DEF AppendEquity
  <2>3. EquityRow(s).cash >= 0
    <3>1. EquityRow(s).cash = CashAfter(s)[Len(Targets(s))]
      BY EquityRowParts
    <3> QED
      BY <1>3, <2>1, <3>1
  <2>4. ASSUME NEW t \in Sessions, equity'[t] # None PROVE equity'[t].cash >= 0
    <3>1. CASE t = s
      BY <1>0, <2>2, <2>3, <3>1 DEF TypeOK
    <3>2. CASE t # s
      BY <1>0, <2>2, <2>4, <3>2 DEF TypeOK
    <3> QED
      BY <3>1, <3>2
  <2> QED
    BY <1>2, <2>2, <2>4 DEF Solvent
<1>5. CASE AppendTrades
  <2>1. PICK s \in Sessions : s = at /\ Running(s) /\ Executable(s)
    BY <1>5, RunningSession DEF AppendTrades
  <2>2. trades' = [trades EXCEPT ![s] = TradeRows(s)] /\ equity' = equity
    BY <1>5, <2>1 DEF AppendTrades
  <2>3. CashAfter(s)[Len(Targets(s))] = Cash(s) + CashOf(TradeRows(s))
    BY <1>0, <2>1, FinalCash
  <2>4. CashAfter(s)[Len(Targets(s))] >= 0
    BY <1>3, <2>1
  <2>5. ASSUME NEW u \in 1..(LastSession + 1) PROVE Cash(u)' >= 0
    <3>1. CASE u <= s
      <4>1. Cash(u)' = Cash(u)
        BY <2>1, <2>2, <3>1, CashStep
      <4> QED
        BY <1>0, <4>1
    <3>2. CASE u > s
      <4>1. Cash(u)' = Cash(s) + CashOf(TradeRows(s))
        BY <2>1, <2>2, <3>2, CashStep
      <4> QED
        BY <2>3, <2>4, <4>1
    <3>3. u \in Int /\ s \in Int
      BY PaperAssumption DEF Sessions
    <3> QED
      BY <3>1, <3>2, <3>3
  <2> QED
    BY <1>0, <2>2, <2>5 DEF Solvent
<1>6. CASE UNCHANGED <<equity, trades>>
  BY <1>0, <1>2, <1>6 DEF Solvent
<1>7. AppendEquity \/ AppendTrades \/ UNCHANGED <<equity, trades>>
  BY DEF Next, NewSession, Rebalance, AppendPositions, Interrupt, vars, ledgers
<1> QED
  BY <1>4, <1>5, <1>6, <1>7

\* _execute_portfolio and its three appends keep the invariant, whatever the market
\* shows, whatever was interrupted, and whether or not it was replayed.
THEOREM PaperInvariant == Spec => []PaperInv
<1>1. PaperInv /\ [Next]_vars => PaperInv'
  BY TypeStep, OrdersStep, RowsStep, AtStep, SolventStep DEF PaperInv
<1> QED
  BY InitPaper, <1>1, PTL DEF Spec

\* Ledgers, orders and rows have their types: no holding or mark is ever negative.
THEOREM PaperTypes == Spec => []TypeOK
<1>1. PaperInv => TypeOK
  BY DEF PaperInv
<1> QED
  BY <1>1, PaperInvariant, PTL

\* _execute_portfolio never overdraws the account: a purchase is cut to the cash that is
\* left, costs included, so neither the trades nor an equity row leave less than nothing.
THEOREM CashCovers == Spec => []CashIsCovered
<1>1. PaperInv => CashIsCovered
  <2> SUFFICES ASSUME PaperInv PROVE CashIsCovered
    OBVIOUS
  <2>1. 1..(today + 1) \subseteq 1..(LastSession + 1)
    BY TodayFacts DEF PaperInv
  <2> QED
    BY <2>1 DEF PaperInv, Solvent, CashIsCovered
<1> QED
  BY <1>1, PaperInvariant, PTL

\* The equity row of an execution is worth what the account was at the same prices, less
\* commission, slippage and duty of each fill: _execute_portfolio creates no value.
THEOREM TradingOnlyCosts == Spec => []TradingCreatesNoValue
<1>1. PaperInv => TradingCreatesNoValue
  <2> SUFFICES ASSUME PaperInv, step = "equity"
               PROVE  Value(equity[at]) =
                        Account(at) - SumFunction([c \in Codes |-> Sold(at, c) * Price(at, c) * SellRate
                                                       + Bought(at, c) * Price(at, c) * BuyRate])
    BY DEF TradingCreatesNoValue
  <2>1. PICK s \in Sessions : s = at /\ Running(s) /\ Executable(s)
    BY RunningSession
  <2>2. equity[s] = EquityRow(s)
    BY <2>1 DEF Running
  <2>3. Value(equity[s]) = CashAfter(s)[Len(Targets(s))] + 100 * SumFunction(MarkedBy(s))
    BY <2>2, EquityRowParts DEF Value
  <2>4. Value(equity[s]) = Account(s) - SumFunction(CostBy(s))
    BY <2>1, <2>3, ExecutionCosts DEF PaperInv
  <2> QED
    BY <2>1, <2>4 DEF CostBy
<1> QED
  BY <1>1, PaperInvariant, PTL

-----------------------------------------------------------------------------
(* Replaying: with every interrupted session replayed before the next *)

\* What an unfinished session has written is what it would write now.
Faithful(s) ==
    /\ positions[s] = PositionRows(s)
    /\ equity[s] \in {None, EquityRow(s)}
    /\ \A t \in Sessions : t > s => ~HasRows(t)

\* The session being executed is the only unfinished one.
Alone(s) ==
    /\ positions[s] = PositionRows(s)
    /\ \A t \in Sessions : t < s => ~Unfinished(t)

ReplayInv ==
    /\ \A s \in Sessions : Unfinished(s) => Faithful(s)
    /\ \A s \in Sessions : at = s => Alone(s)

\* An execution that goes on changes nothing of any other session.
LEMMA OnlyOne ==
    ASSUME NEW s \in Sessions, \A t \in Sessions : t > s => ~HasRows(t),
           \A t \in Sessions : t < s => ~Unfinished(t),
           \A t \in Sessions : t # s => /\ positions'[t] = positions[t]
                                        /\ equity'[t] = equity[t]
                                        /\ trades'[t] = trades[t]
    PROVE  \A t \in Sessions : t # s => ~Unfinished(t)'
<1> TAKE t \in Sessions
<1>1. t \in Int /\ s \in Int
  BY PaperAssumption DEF Sessions
<1>2. ASSUME t # s PROVE ~Unfinished(t)
  BY <1>1, <1>2 DEF Unfinished
<1>3. t # s => (Unfinished(t)' <=> Unfinished(t))
  BY DEF Unfinished, HasRows
<1> QED
  BY <1>2, <1>3

LEMMA MergeSame ==
    ASSUME NEW Record, NEW rows, AreRows(rows, Record)
    PROVE  Merge(rows, rows) = rows /\ Merge(NoRows, rows) = rows
BY DEF AreRows, Merge, NoRows

\* What the three steps of an execution share.
LEMMA EarlierSessions ==
    ASSUME TypeOK, NEW s, Executable(s)
    PROVE  /\ s \in Sessions
           /\ \A t \in 1..(s - 1) : t \in Sessions /\ t # s /\ t < s
BY SessionFacts DEF Sessions

LEMMA ReplayPositions ==
    ASSUME Replayed, PaperInv, ReplayInv, PaperInv', [Next]_vars, NEW s \in Sessions, AppendPositions(s)
    PROVE  /\ ReplayInv'
           /\ HasRows(s) => positions'[s] = positions[s]
<1>0. TypeOK /\ TypeOK' /\ AtInv' /\ None \notin Sessions
  BY TodayFacts DEF PaperInv
<1>1. Executable(s) /\ trades[s] = NoRows /\ InTurn(s)
  BY DEF AppendPositions, Executable
<1>2. /\ positions' = [positions EXCEPT ![s] = Merge(positions[s], PositionRows(s))]
      /\ at' = s /\ UNCHANGED <<market, orders, equity, trades>>
  BY DEF AppendPositions
<1>3. \A t \in Sessions : t > s => ~HasRows(t)
  BY <1>1 DEF InTurn
<1>4. \A t \in Sessions : t < s => ~Unfinished(t)
  BY <1>1 DEF InTurn
<1>5. DOMAIN positions = Sessions
  BY <1>0 DEF TypeOK
<1>6. \A t \in Sessions : t # s => /\ positions'[t] = positions[t]
                                   /\ equity'[t] = equity[t]
                                   /\ trades'[t] = trades[t]
  BY <1>2, <1>5
<1>7. \A t \in Sessions : t # s => ~Unfinished(t)'
  BY <1>3, <1>4, <1>6, OnlyOne
<1>8. positions'[s] = PositionRows(s) /\ equity[s] \in {None, EquityRow(s)}
      /\ (HasRows(s) => positions[s] = PositionRows(s))
  <2>1. AreRows(PositionRows(s), PositionRecords)
    BY <1>0, <1>1, PositionRowsType
  <2>2. positions'[s] = Merge(positions[s], PositionRows(s))
    BY <1>2, <1>5
  <2>3. CASE HasRows(s)
    <3>1. Faithful(s)
      BY <1>1, <2>3 DEF ReplayInv, Unfinished
    <3>2. Merge(PositionRows(s), PositionRows(s)) = PositionRows(s)
      BY <2>1, MergeSame
    <3> QED
      BY <2>2, <3>1, <3>2 DEF Faithful
  <2>4. CASE ~HasRows(s)
    <3>1. positions[s] = NoRows /\ equity[s] = None
      BY <2>4 DEF HasRows
    <3>2. Merge(NoRows, PositionRows(s)) = PositionRows(s)
      BY <2>1, MergeSame
    <3> QED
      BY <2>2, <2>4, <3>1, <3>2
  <2> QED
    BY <2>3, <2>4
<1>9. Executable(s)'
  BY <1>1, ExecutableStays
<1>10. SameReads(s)
  BY <1>0, <1>1, <1>2, <1>6, EarlierSessions DEF SameReads
<1>11. PositionRows(s)' = PositionRows(s)
  BY <1>0, <1>1, <1>9, <1>10, RowsSame
<1>12. EquityRow(s)' = EquityRow(s)
  <2>1. \A t \in 1..(s - 1) : equity'[t] = equity[t]
    BY <1>2
  <2>2. \A t \in Sessions : t # s => trades'[t] = trades[t]
    BY <1>2
  <2> QED
    BY <1>0, <1>1, <1>9, <1>10, <2>1, <2>2, EquityRowSame
<1>13. \A t \in Sessions : t > s => ~HasRows(t)'
  BY <1>0, <1>2 DEF AtInv, Running
<1>14. Faithful(s)'
  <2>1. equity'[s] = equity[s]
    BY <1>2
  <2> QED
    BY <1>8, <1>11, <1>12, <1>13, <2>1 DEF Faithful
<1>15. Alone(s)'
  <2>1. \A t \in Sessions : t < s => t # s
    BY PaperAssumption DEF Sessions
  <2> QED
    BY <1>7, <1>8, <1>11, <2>1 DEF Alone
<1>16. ReplayInv'
  <2>1. ASSUME NEW t \in Sessions, Unfinished(t)' PROVE Faithful(t)'
    <3>1. t = s
      BY <1>7, <2>1
    <3> QED
      BY <1>14, <3>1
  <2>2. ASSUME NEW t \in Sessions, at' = t PROVE Alone(t)'
    <3>1. t = s
      BY <1>2, <2>2
    <3> QED
      BY <1>15, <3>1
  <2> QED
    BY <2>1, <2>2 DEF ReplayInv
<1> QED
  BY <1>8, <1>16

LEMMA ReplayEquity ==
    ASSUME PaperInv, ReplayInv, PaperInv', [Next]_vars, AppendEquity
    PROVE  ReplayInv'
<1>0. TypeOK /\ TypeOK' /\ AtInv' /\ None \notin Sessions
  BY TodayFacts DEF PaperInv
<1>1. PICK s \in Sessions : s = at /\ Running(s) /\ Executable(s)
  BY RunningSession DEF AppendEquity
<1>2. /\ equity' = [equity EXCEPT ![s] = EquityRow(s)]
      /\ at' = s /\ UNCHANGED <<market, orders, positions, trades>>
  BY <1>1 DEF AppendEquity
<1>3. Alone(s)
  BY <1>1 DEF ReplayInv
<1>4. DOMAIN equity = Sessions
  BY <1>0 DEF TypeOK
<1>5. \A t \in Sessions : t # s => /\ positions'[t] = positions[t]
                                   /\ equity'[t] = equity[t]
                                   /\ trades'[t] = trades[t]
  BY <1>2, <1>4
<1>6. \A t \in Sessions : t # s => ~Unfinished(t)'
  <2>1. \A t \in Sessions : t > s => ~HasRows(t)
    BY <1>1 DEF Running
  <2>2. \A t \in Sessions : t < s => ~Unfinished(t)
    BY <1>3 DEF Alone
  <2> QED
    BY <1>5, <2>1, <2>2, OnlyOne
<1>7. Executable(s)'
  BY <1>1, ExecutableStays
<1>8. SameReads(s)
  BY <1>2 DEF SameReads
<1>9. PositionRows(s)' = PositionRows(s)
  BY <1>0, <1>1, <1>7, <1>8, RowsSame
<1>10. Running(s)'
  BY <1>0, <1>2 DEF AtInv
<1>11. equity'[s] = EquityRow(s)'
  <2>1. step' = "equity"
    BY DEF AppendEquity
  <2> QED
    BY <1>10, <2>1 DEF Running
<1>12. positions'[s] = PositionRows(s)'
  BY <1>2, <1>3, <1>9 DEF Alone
<1>13. Faithful(s)'
  BY <1>10, <1>11, <1>12 DEF Faithful, Running
<1>14. Alone(s)'
  <2>1. \A t \in Sessions : t < s => t # s
    BY PaperAssumption DEF Sessions
  <2> QED
    BY <1>6, <1>12, <2>1 DEF Alone
<1>15. ASSUME NEW t \in Sessions, Unfinished(t)' PROVE Faithful(t)'
  <2>1. t = s
    BY <1>6, <1>15
  <2> QED
    BY <1>13, <2>1
<1>16. ASSUME NEW t \in Sessions, at' = t PROVE Alone(t)'
  <2>1. t = s
    BY <1>2, <1>16
  <2> QED
    BY <1>14, <2>1
<1> QED
  BY <1>15, <1>16 DEF ReplayInv

\* Nothing is unfinished once the trades are there.
LEMMA ReplayTrades ==
    ASSUME PaperInv, ReplayInv, PaperInv', AppendTrades
    PROVE  /\ ReplayInv'
           /\ \A s \in Sessions : s = at => trades'[s] = TradeRows(s) /\ TradeRows(s) # NoRows
<1>0. TypeOK /\ None \notin Sessions
  BY TodayFacts DEF PaperInv
<1>1. PICK s \in Sessions : s = at /\ Running(s) /\ Executable(s)
  BY RunningSession DEF AppendTrades
<1>2. /\ trades' = [trades EXCEPT ![s] = TradeRows(s)]
      /\ at' = None /\ UNCHANGED <<market, orders, positions, equity>>
  BY <1>1 DEF AppendTrades
<1>3. DOMAIN trades = Sessions
  BY <1>0 DEF TypeOK
<1>4. TradeRows(s) # NoRows
  <2>1. s - 1 \in Sessions /\ orders[s - 1] # None
    BY <1>0, <1>1, SessionFacts DEF Executable
  <2>2. Due(s) # {}
    BY <2>1 DEF PaperInv, OrdersInv, Due
  <2>3. DOMAIN TradeRows(s) = Due(s)
    BY <1>0, <1>1, TradeRowsType
  <2> QED
    BY <2>2, <2>3, NoRowsFacts
<1>5. \A t \in Sessions : t # s => /\ positions'[t] = positions[t]
                                   /\ equity'[t] = equity[t]
                                   /\ trades'[t] = trades[t]
  BY <1>2, <1>3
<1>6. \A t \in Sessions : t # s => ~Unfinished(t)'
  <2>1. \A t \in Sessions : t > s => ~HasRows(t)
    BY <1>1 DEF Running
  <2>2. \A t \in Sessions : t < s => ~Unfinished(t)
    BY <1>1 DEF ReplayInv, Alone
  <2> QED
    BY <1>5, <2>1, <2>2, OnlyOne
<1>7. trades'[s] = TradeRows(s)
  BY <1>2, <1>3
<1>8. ~Unfinished(s)'
  BY <1>4, <1>7 DEF Unfinished
<1>9. ReplayInv'
  BY <1>0, <1>2, <1>6, <1>8 DEF ReplayInv
<1> QED
  BY <1>1, <1>4, <1>7, <1>9

LEMMA ReplayOther ==
    ASSUME PaperInv, ReplayInv, PaperInv', [Next]_vars, UNCHANGED <<positions, equity, trades>>,
           at' = None \/ at' = at
    PROVE  ReplayInv'
<1>0. TypeOK /\ TypeOK' /\ None \notin Sessions
  BY TodayFacts DEF PaperInv
<1>1. \A t \in Sessions : (Unfinished(t)' <=> Unfinished(t)) /\ (HasRows(t)' <=> HasRows(t))
  BY DEF Unfinished, HasRows
<1>2. ASSUME NEW s \in Sessions, Executable(s)
      PROVE  PositionRows(s)' = PositionRows(s) /\ EquityRow(s)' = EquityRow(s)
  <2>1. Executable(s)' /\ market'[s] = market[s] /\ orders'[s - 1] = orders[s - 1]
    BY <1>2, ExecutableStays
  <2>2. SameReads(s)
    BY <2>1 DEF SameReads
  <2>3. PositionRows(s)' = PositionRows(s)
    BY <1>0, <1>2, <2>1, <2>2, RowsSame
  <2>4. EquityRow(s)' = EquityRow(s)
    BY <1>0, <1>2, <2>1, <2>2, EquityRowSame
  <2> QED
    BY <2>3, <2>4
<1>3. ASSUME NEW s \in Sessions, Unfinished(s)' PROVE Faithful(s)'
  <2>1. Unfinished(s) /\ Faithful(s)
    BY <1>1, <1>3 DEF ReplayInv
  <2>2. Executable(s)
    BY <2>1 DEF Unfinished, PaperInv, RowsInv
  <2>3. PositionRows(s)' = PositionRows(s) /\ EquityRow(s)' = EquityRow(s)
    BY <1>2, <2>2
  <2> QED
    BY <1>1, <2>1, <2>3 DEF Faithful
<1>4. ASSUME NEW s \in Sessions, at' = s PROVE Alone(s)'
  <2>1. at = s
    BY <1>0, <1>4
  <2>2. Alone(s) /\ Executable(s)
    BY <2>1 DEF ReplayInv, PaperInv, AtInv, Running
  <2>3. PositionRows(s)' = PositionRows(s)
    BY <1>2, <2>2
  <2> QED
    BY <1>1, <2>2, <2>3 DEF Alone
<1> QED
  BY <1>3, <1>4 DEF ReplayInv

LEMMA ReplayStep ==
    ASSUME Replayed, PaperInv, ReplayInv, [Next]_vars
    PROVE  ReplayInv'
<1>1. PaperInv'
  BY TypeStep, OrdersStep, RowsStep, AtStep, SolventStep DEF PaperInv
<1>2. \/ \E s \in Sessions : AppendPositions(s)
      \/ AppendEquity \/ AppendTrades
      \/ UNCHANGED <<positions, equity, trades>> /\ (at' = None \/ at' = at)
  BY DEF Next, NewSession, Rebalance, Interrupt, vars, ledgers
<1> QED
  BY <1>1, <1>2, ReplayPositions, ReplayEquity, ReplayTrades, ReplayOther

LEMMA InitReplay == Init => ReplayInv
<1>1. None \notin Sessions
  BY NoneAssumption
<1> QED
  BY <1>1 DEF Init, ReplayInv, Unfinished, HasRows

-----------------------------------------------------------------------------
(* The ledgers agree before every session that reads no unfinished one *)

Reads(u) == \A t \in 1..(u - 1) : ~Unfinished(t)

\* Holdings are what the trades account for, and the last equity row has their cash.
Agrees(u) ==
    /\ \A c \in Codes : Held(u, c).lots = Traded(u, c)
    /\ \A t \in 1..(u - 1) :
          equity[t] # None /\ (\A v \in 1..(u - 1) : v > t => equity[v] = None)
             => equity[t].cash = Cash(u)

AgreeInv == \A u \in 1..(LastSession + 1) : Reads(u) => Agrees(u)

\* The lots a session's trades add to the holding of a code.
LotsBy(T, c) == [t \in Sessions |-> IF c \in DOMAIN T[t] THEN T[t][c].lots ELSE 0]

LEMMA TradedFrom ==
    ASSUME NEW T, NEW c, NEW u \in 1..(LastSession + 1)
    PROVE  SumFunction([t \in 1..(u - 1) |-> IF c \in DOMAIN T[t] THEN T[t][c].lots ELSE 0])
             = Total(LotsBy(T, c), 1..(u - 1))
<1>1. 1..(u - 1) \subseteq Sessions
  BY PaperAssumption DEF Sessions
<1>2. [t \in 1..(u - 1) |-> IF c \in DOMAIN T[t] THEN T[t][c].lots ELSE 0]
        = [t \in 1..(u - 1) |-> LotsBy(T, c)[t]]
  BY <1>1 DEF LotsBy
<1> QED
  BY <1>2 DEF Total

LEMMA TradedSame ==
    ASSUME NEW u, NEW c, \A t \in 1..(u - 1) : trades'[t] = trades[t]
    PROVE  Traded(u, c)' = Traded(u, c)
<1>1. [t \in 1..(u - 1) |-> IF c \in DOMAIN trades'[t] THEN trades'[t][c].lots ELSE 0]
        = [t \in 1..(u - 1) |-> IF c \in DOMAIN trades[t] THEN trades[t][c].lots ELSE 0]
  OBVIOUS
<1> QED
  BY <1>1 DEF Traded

LEMMA AgreesSame ==
    ASSUME NEW u \in 1..(LastSession + 1), Reads(u) => Agrees(u),
           \A t \in 1..(u - 1) : /\ positions'[t] = positions[t]
                                 /\ equity'[t] = equity[t]
                                 /\ trades'[t] = trades[t]
    PROVE  Reads(u)' => Agrees(u)'
<1>0. u \in Nat /\ u > 0
  BY PaperAssumption
<1>1. Reads(u)' => Reads(u)
  BY DEF Reads, Unfinished, HasRows
<1>2. Cash(u)' = Cash(u)
  BY CashSame
<1>3. \A c \in Codes : Held(u, c)' = Held(u, c)
  BY <1>0, HeldSame
<1>4. \A c \in Codes : Traded(u, c)' = Traded(u, c)
  BY TradedSame
<1>5. Agrees(u) => Agrees(u)'
  <2> SUFFICES ASSUME Agrees(u) PROVE Agrees(u)'
    OBVIOUS
  <2>1. \A c \in Codes : Held(u, c)'.lots = Traded(u, c)'
    BY <1>3, <1>4 DEF Agrees
  <2>2. ASSUME NEW t \in 1..(u - 1), equity'[t] # None,
               \A v \in 1..(u - 1) : v > t => equity'[v] = None
        PROVE  equity'[t].cash = Cash(u)'
    BY <1>2, <2>2 DEF Agrees
  <2> QED
    BY <2>1, <2>2 DEF Agrees
<1> QED
  BY <1>1, <1>5

\* What is held after a session whose rows are its position rows.
LEMMA HeldAfter ==
    ASSUME PaperInv, NEW s \in Sessions, Running(s), positions[s] = PositionRows(s),
           NEW u \in 1..(LastSession + 1), u > s, NEW c \in Codes
    PROVE  Held(u, c).lots = Held(s, c).lots
                               + (IF c \in Due(s) THEN Bought(s, c) - Sold(s, c) ELSE 0)
<1>0. /\ TypeOK /\ OrdersInv /\ Executable(s) /\ s \in Nat /\ s > 0 /\ u \in Nat
      /\ \A t \in Sessions : t > s => positions[t] = NoRows
  <2>1. TypeOK /\ OrdersInv /\ Executable(s)
    BY DEF PaperInv, Running
  <2>2. s \in Nat /\ s > 0 /\ u \in Nat
    BY PaperAssumption DEF Sessions
  <2> QED
    BY <2>1, <2>2, LaterUnpaid
<1>1. Held(s, c).lots \in Nat /\ Sold(s, c) \in Nat
  BY <1>0, QuantityFacts
<1>2. Bought(s, c) \in Nat
  BY <1>0, BoughtFacts
<1>3. c \notin Due(s) => Bought(s, c) = 0 /\ Sold(s, c) = 0
  <2>1. Bought(s, c) # 0 => c \in Range(Targets(s))
    BY <1>0, BoughtFacts
  <2>2. Range(Targets(s)) \subseteq Due(s)
    <3>1. s - 1 \in Sessions /\ orders[s - 1] # None
      BY <1>0, SessionFacts DEF Executable
    <3> QED
      BY <1>0, <3>1 DEF OrdersInv, Due, Targets
  <2>3. Sold(s, c) # 0 => c \in Due(s)
    BY <1>0, QuantityFacts
  <2> QED
    BY <2>1, <2>2, <2>3
<1>4. PICK before : before = {t \in 1..(s - 1) : c \in DOMAIN positions[t]}
  OBVIOUS
<1>5. PICK dates : dates = {t \in 1..(u - 1) : c \in DOMAIN positions[t]}
  OBVIOUS
<1>6. \A t \in dates : t \in 1..s
  <2>1. \A t \in dates : t \in Sessions /\ t > s => c \in DOMAIN NoRows
    BY <1>0, <1>5
  <2>2. \A t \in dates : t \in Sessions
    BY <1>5, PaperAssumption DEF Sessions
  <2>3. \A t \in dates : ~(t > s)
    BY <2>1, <2>2, NoRowsFacts
  <2> QED
    BY <1>0, <1>5, <2>3
<1>7. Held(u, c) = IF dates = {} \/ positions[Max(dates)][c].lots = 0
                   THEN [lots |-> 0, mark |-> 0] ELSE positions[Max(dates)][c]
  BY <1>5 DEF Held, LatestRow
<1>8. Held(s, c) = IF before = {} \/ positions[Max(before)][c].lots = 0
                   THEN [lots |-> 0, mark |-> 0] ELSE positions[Max(before)][c]
  BY <1>4 DEF Held, LatestRow
<1>9. CASE c \in DOMAIN PositionRows(s)
  <2>1. s \in dates
    BY <1>0, <1>5, <1>9
  <2>2. Max(dates) = s
    <3>1. dates \in SUBSET (0..s) /\ dates # {}
      BY <1>6, <2>1
    <3>2. Max(dates) \in dates /\ \A m \in dates : m <= Max(dates)
      BY <1>0, <3>1, MaxFacts
    <3>3. Max(dates) \in 1..s /\ s <= Max(dates)
      BY <1>6, <2>1, <3>2
    <3> QED
      BY <1>0, <3>3
  <2>3. positions[s][c].lots = After(s, c)
    BY <1>9 DEF PositionRows
  <2>4. Held(u, c).lots = After(s, c)
    BY <1>7, <2>1, <2>2, <2>3
  <2> QED
    BY <1>1, <1>2, <1>3, <2>4 DEF After
<1>10. CASE c \notin DOMAIN PositionRows(s)
  <2>1. dates = before
    <3>1. s \notin dates
      BY <1>5, <1>10
    <3>2. \A t \in dates : t \in before
      BY <1>0, <1>4, <1>5, <1>6, <3>1
    <3>3. \A t \in before : t \in dates
      BY <1>0, <1>4, <1>5
    <3> QED
      BY <3>2, <3>3
  <2>2. Held(u, c) = Held(s, c)
    BY <1>7, <1>8, <2>1
  <2>3. c \in Due(s) => Desired(s, c) = Held(s, c).lots
    <3>1. c \in Due(s) /\ Desired(s, c) # Held(s, c).lots => c \in DOMAIN PositionRows(s)
      BY DEF PositionRows
    <3> QED
      BY <1>10, <3>1
  <2>4. c \in Due(s) => Bought(s, c) = 0 /\ Sold(s, c) = 0
    <3>1. Sold(s, c) # 0 => Desired(s, c) < Held(s, c).lots
      BY <1>0, QuantityFacts
    <3>2. Bought(s, c) # 0 => Desired(s, c) > Held(s, c).lots
      BY <1>0, BoughtFacts
    <3> QED
      BY <1>1, <2>3, <3>1, <3>2
  <2> QED
    BY <1>1, <2>2, <2>4
<1> QED
  BY <1>9, <1>10

LEMMA TradedStep ==
    ASSUME PaperInv, NEW s \in Sessions, Running(s),
           trades' = [trades EXCEPT ![s] = TradeRows(s)],
           NEW u \in 1..(LastSession + 1), u > s, NEW c \in Codes
    PROVE  Traded(u, c)' = Traded(s, c) + (IF c \in Due(s) THEN Bought(s, c) - Sold(s, c) ELSE 0)
<1>0. TypeOK /\ Executable(s) /\ s \in 1..(LastSession + 1)
  BY PaperAssumption DEF PaperInv, Running, Sessions
<1>1. PICK rows : rows = TradeRows(s)
  OBVIOUS
<1>2. \A t \in Sessions : trades'[t] = IF t = s THEN rows ELSE trades[t]
  BY <1>0, <1>1 DEF TypeOK
<1>3. PICK k : k = IF c \in Due(s) THEN Bought(s, c) - Sold(s, c) ELSE 0
  OBVIOUS
<1>4. k \in Int
  <2>1. Bought(s, c) \in Nat
    BY <1>0, BoughtFacts
  <2>2. Sold(s, c) \in Nat
    BY <1>0, QuantityFacts
  <2> QED
    BY <1>3, <2>1, <2>2
<1>5. PICK f : f = LotsBy(trades, c)
  OBVIOUS
<1>6. f \in [Sessions -> Int]
  <2>1. \A t \in Sessions : (IF c \in DOMAIN trades[t] THEN trades[t][c].lots ELSE 0) \in Int
    <3> TAKE t \in Sessions
    <3>1. AreRows(trades[t], TradeRecords)
      BY <1>0 DEF TypeOK, TradeRecords
    <3> QED
      BY <3>1 DEF AreRows, TradeRecords
  <2> QED
    BY <1>5, <2>1 DEF LotsBy
<1>7. PICK T : T = trades'
  OBVIOUS
<1>8. PICK g : g = LotsBy(T, c)
  OBVIOUS
<1>9. g[s] = k
  <2>1. g[s] = IF c \in DOMAIN rows THEN rows[c].lots ELSE 0
    BY <1>2, <1>7, <1>8 DEF LotsBy
  <2>2. DOMAIN rows = Due(s)
    BY <1>0, <1>1, TradeRowsType
  <2>3. c \in Due(s) => rows[c].lots = Bought(s, c) - Sold(s, c)
    BY <1>1 DEF TradeRows
  <2> QED
    BY <1>3, <2>1, <2>2, <2>3
<1>10. \A t \in Sessions : t # s => g[t] = f[t]
  BY <1>2, <1>5, <1>7, <1>8 DEF LotsBy
<1>11. g \in [Sessions -> Int]
  <2>1. \A t \in Sessions : g[t] \in Int
    <3> TAKE t \in Sessions
    <3>1. CASE t = s
      BY <1>4, <1>9, <3>1
    <3>2. CASE t # s
      BY <1>6, <1>10, <3>2
    <3> QED
      BY <3>1, <3>2
  <2>2. g = [t \in Sessions |-> g[t]]
    BY <1>8 DEF LotsBy
  <2> QED
    BY <2>1, <2>2
<1>12. \A t \in Sessions : t > s => f[t] = 0
  <2> TAKE t \in Sessions
  <2>1. t > s => trades[t] = NoRows
    BY LaterUnpaid
  <2> QED
    BY <1>5, <2>1, NoRowsFacts DEF LotsBy
<1>13. Total(g, 1..(u - 1)) = Total(f, 1..(s - 1)) + k
  BY <1>6, <1>9, <1>10, <1>11, <1>12, SumStep
<1>14. Traded(u, c)' = Total(g, 1..(u - 1))
  <2>1. SumFunction([t \in 1..(u - 1) |-> IF c \in DOMAIN T[t] THEN T[t][c].lots ELSE 0])
          = Total(LotsBy(T, c), 1..(u - 1))
    BY TradedFrom
  <2> QED
    BY <1>7, <1>8, <2>1 DEF Traded
<1>15. Traded(s, c) = Total(f, 1..(s - 1))
  <2>1. SumFunction([t \in 1..(s - 1) |-> IF c \in DOMAIN trades[t] THEN trades[t][c].lots ELSE 0])
          = Total(LotsBy(trades, c), 1..(s - 1))
    BY <1>0, TradedFrom
  <2> QED
    BY <1>5, <2>1 DEF Traded
<1> QED
  BY <1>3, <1>13, <1>14, <1>15

LEMMA AgreeTrades ==
    ASSUME PaperInv, ReplayInv, AgreeInv, PaperInv', AppendTrades, NEW u \in 1..(LastSession + 1)
    PROVE  Reads(u)' => Agrees(u)'
<1>0. TypeOK /\ OrdersInv
  BY DEF PaperInv
<1>1. PICK s \in Sessions : s = at /\ Running(s) /\ Executable(s)
  BY RunningSession DEF AppendTrades
<1>2. trades' = [trades EXCEPT ![s] = TradeRows(s)] /\ UNCHANGED <<positions, equity>>
  BY <1>1 DEF AppendTrades
<1>3. s \in Nat /\ s > 0 /\ u \in Nat /\ s \in 1..(LastSession + 1) /\ LastSession \in Nat
  BY PaperAssumption DEF Sessions
<1>4. Alone(s)
  BY <1>1 DEF ReplayInv
<1>5. CASE u <= s
  <2>1. \A t \in 1..(u - 1) : t # s /\ t \in Sessions
    BY <1>3, <1>5 DEF Sessions
  <2>2. \A t \in 1..(u - 1) : /\ positions'[t] = positions[t] /\ equity'[t] = equity[t]
                              /\ trades'[t] = trades[t]
    BY <1>0, <1>2, <2>1 DEF TypeOK
  <2> QED
    BY <2>2, AgreesSame DEF AgreeInv
<1>6. CASE u > s
  <2>1. Agrees(s)
    <3>1. \A t \in 1..(s - 1) : t \in Sessions /\ t < s
      BY <1>3 DEF Sessions
    <3>2. Reads(s)
      BY <1>4, <3>1 DEF Reads, Alone
    <3> QED
      BY <1>3, <3>2 DEF AgreeInv
  <2>2. ASSUME NEW c \in Codes PROVE Held(u, c)'.lots = Traded(u, c)'
    <3>1. Held(u, c)' = Held(u, c)
      BY <1>2, <1>3, <1>6, HeldSame
    <3>2. positions[s] = PositionRows(s)
      BY <1>4 DEF Alone
    <3>3. Held(u, c).lots = Held(s, c).lots + (IF c \in Due(s) THEN Bought(s, c) - Sold(s, c) ELSE 0)
      BY <1>1, <1>6, <3>2, HeldAfter
    <3>4. Traded(u, c)' = Traded(s, c) + (IF c \in Due(s) THEN Bought(s, c) - Sold(s, c) ELSE 0)
      BY <1>1, <1>2, <1>6, TradedStep
    <3>5. Held(s, c).lots = Traded(s, c)
      BY <2>1 DEF Agrees
    <3> QED
      BY <3>1, <3>3, <3>4, <3>5
  <2>3. ASSUME NEW t \in 1..(u - 1), equity'[t] # None,
               \A v \in 1..(u - 1) : v > t => equity'[v] = None
        PROVE  equity'[t].cash = Cash(u)'
    <3>1. equity[s] = EquityRow(s)
      BY <1>1 DEF AppendTrades, Running
    <3>2. EquityRow(s) # None
      BY <1>0, <1>1, EquityRowType, TodayFacts
    <3>3. t \in Sessions /\ t \in Nat /\ s \in 1..(u - 1)
      BY <1>3, <1>6 DEF Sessions
    <3>4. ~(s > t)
      BY <1>2, <2>3, <3>1, <3>2, <3>3
    <3>5. ~(t > s)
      BY <1>1, <1>2, <2>3, <3>3, LaterUnpaid
    <3>6. t = s
      BY <1>3, <3>3, <3>4, <3>5
    <3>7. equity'[t].cash = CashAfter(s)[Len(Targets(s))]
      BY <1>2, <3>1, <3>6, EquityRowParts
    <3>8. Cash(u)' = Cash(s) + CashOf(TradeRows(s))
      BY <1>1, <1>2, <1>6, CashStep
    <3>9. CashAfter(s)[Len(Targets(s))] = Cash(s) + CashOf(TradeRows(s))
      BY <1>0, <1>1, FinalCash
    <3> QED
      BY <3>7, <3>8, <3>9
  <2>4. Agrees(u)'
    BY <2>2, <2>3 DEF Agrees
  <2> QED
    BY <2>4
<1> QED
  BY <1>3, <1>5, <1>6

LEMMA AgreeStep ==
    ASSUME Replayed, PaperInv, ReplayInv, AgreeInv, [Next]_vars
    PROVE  AgreeInv'
<1> SUFFICES ASSUME NEW u \in 1..(LastSession + 1) PROVE Reads(u)' => Agrees(u)'
  BY DEF AgreeInv
<1>0. TypeOK /\ u \in Nat /\ LastSession \in Nat /\ Sessions = 1..LastSession
  BY PaperAssumption DEF PaperInv, Sessions
<1>1. Reads(u) => Agrees(u)
  BY DEF AgreeInv
<1>2. PaperInv'
  BY TypeStep, OrdersStep, RowsStep, AtStep, SolventStep DEF PaperInv
<1>3. CASE UNCHANGED <<positions, equity, trades>>
  BY <1>1, <1>3, AgreesSame
<1>4. ASSUME NEW s \in Sessions, AppendPositions(s) PROVE Reads(u)' => Agrees(u)'
  <2>1. /\ trades[s] = NoRows /\ UNCHANGED <<equity, trades>>
        /\ positions' = [positions EXCEPT ![s] = Merge(positions[s], PositionRows(s))]
    BY <1>4 DEF AppendPositions
  <2>2. \A t \in Sessions : t # s => positions'[t] = positions[t]
    BY <1>0, <2>1 DEF TypeOK
  <2>3. CASE u <= s \/ positions'[s] = positions[s]
    <3>1. \A t \in 1..(u - 1) : t \in Sessions /\ (u <= s => t # s)
      BY <1>0
    <3>2. \A t \in 1..(u - 1) : positions'[t] = positions[t]
      BY <2>2, <2>3, <3>1
    <3> QED
      BY <1>1, <2>1, <3>2, AgreesSame
  <2>4. CASE u > s /\ positions'[s] # positions[s]
    <3>1. ~HasRows(s)
      BY <1>2, <1>4, <2>4, ReplayPositions
    <3>2. positions'[s] # NoRows
      BY <2>4, <3>1 DEF HasRows
    <3>3. Unfinished(s)'
      BY <2>1, <3>2 DEF Unfinished, HasRows
    <3>4. s \in 1..(u - 1)
      BY <1>0, <2>4
    <3> QED
      BY <3>3, <3>4 DEF Reads
  <2> QED
    BY <1>0, <2>3, <2>4
<1>5. CASE AppendEquity
  <2>1. PICK s \in Sessions : s = at /\ Running(s) /\ Executable(s)
    BY <1>5, RunningSession DEF AppendEquity
  <2>2. equity' = [equity EXCEPT ![s] = EquityRow(s)] /\ UNCHANGED <<positions, trades>>
    BY <1>5, <2>1 DEF AppendEquity
  <2>3. CASE u <= s
    <3>1. \A t \in 1..(u - 1) : t \in Sessions /\ t # s
      BY <1>0, <2>3
    <3>2. \A t \in 1..(u - 1) : equity'[t] = equity[t]
      BY <1>0, <2>2, <3>1 DEF TypeOK
    <3> QED
      BY <1>1, <2>2, <3>2, AgreesSame
  <2>4. CASE u > s
    <3>1. EquityRow(s) # None
      BY <2>1, EquityRowType, TodayFacts DEF PaperInv
    <3>2. equity'[s] # None /\ trades'[s] = NoRows
      BY <1>0, <2>1, <2>2, <3>1 DEF TypeOK, Running
    <3>3. Unfinished(s)'
      BY <3>2 DEF Unfinished, HasRows
    <3>4. s \in 1..(u - 1)
      BY <1>0, <2>4
    <3> QED
      BY <3>3, <3>4 DEF Reads
  <2> QED
    BY <1>0, <2>3, <2>4
<1>6. CASE AppendTrades
  BY <1>2, <1>6, AgreeTrades
<1>7. \/ UNCHANGED <<positions, equity, trades>>
      \/ \E s \in Sessions : AppendPositions(s)
      \/ AppendEquity \/ AppendTrades
  BY DEF Next, NewSession, Rebalance, Interrupt, vars, ledgers
<1> QED
  BY <1>3, <1>4, <1>5, <1>6, <1>7

LEMMA InitAgree == Init => AgreeInv
<1> SUFFICES ASSUME Init, NEW u \in 1..(LastSession + 1) PROVE Agrees(u)
  BY DEF AgreeInv
<1>0. \A t \in 1..(u - 1) : t \in Sessions
  BY PaperAssumption DEF Sessions
<1>1. \A t \in 1..(u - 1) : positions[t] = NoRows /\ trades[t] = NoRows /\ equity[t] = None
  BY <1>0 DEF Init
<1>2. ASSUME NEW c \in Codes PROVE Held(u, c).lots = Traded(u, c)
  <2>1. Held(u, c) = [lots |-> 0, mark |-> 0]
    <3>1. {t \in 1..(u - 1) : c \in DOMAIN positions[t]} = {}
      BY <1>1, NoRowsFacts
    <3> QED
      BY <3>1 DEF Held, LatestRow
  <2>2. Traded(u, c) = 0
    <3>1. PICK f : f = LotsBy(trades, c)
      OBVIOUS
    <3>2. \A t \in Sessions : trades[t] = NoRows
      BY DEF Init
    <3>3. f \in [Sessions -> Int] /\ \A t \in Sessions : f[t] = 0
      BY <3>1, <3>2, NoRowsFacts DEF LotsBy
    <3>4. IsFiniteSet(Sessions) /\ 1..(u - 1) \in SUBSET Sessions /\ {} \in SUBSET (1..(u - 1))
      BY <1>0, PaperAssumption, FS_Interval DEF Sessions
    <3>5. Total(f, 1..(u - 1)) = Total(f, {})
      <4>1. \A t \in (1..(u - 1)) \ {} : f[t] = 0
        BY <1>0, <3>3
      <4> QED
        BY <3>3, <3>4, <4>1, TotalOver
    <3>6. Total(f, {}) = 0
      BY <3>3, <3>4, TotalFacts
    <3>7. Traded(u, c) = Total(f, 1..(u - 1))
      BY <3>1, TradedFrom DEF Traded
    <3> QED
      BY <3>5, <3>6, <3>7
  <2> QED
    BY <2>1, <2>2
<1> QED
  BY <1>1, <1>2 DEF Agrees

\* Where every interrupted session is replayed before the next one, the append order of
\* _execute_portfolio keeps what is written equal to what would be written, and the three
\* ledgers in agreement before every session that follows only finished ones.
THEOREM ReplayInvariant == Replayed => (Spec => [](PaperInv /\ ReplayInv /\ AgreeInv))
<1> SUFFICES ASSUME Replayed PROVE Spec => [](PaperInv /\ ReplayInv /\ AgreeInv)
  OBVIOUS
<1> DEFINE IInv == PaperInv /\ ReplayInv /\ AgreeInv
<1>1. Init => IInv
  BY InitPaper, InitReplay, InitAgree
<1>2. IInv /\ [Next]_vars => IInv'
  <2> SUFFICES ASSUME IInv, [Next]_vars PROVE IInv'
    OBVIOUS
  <2>1. PaperInv'
    BY TypeStep, OrdersStep, RowsStep, AtStep, SolventStep DEF PaperInv
  <2>2. ReplayInv'
    BY ReplayStep
  <2>3. AgreeInv'
    BY AgreeStep
  <2> QED
    BY <2>1, <2>2, <2>3
<1> QED
  BY <1>1, <1>2, PTL DEF Spec

\* An interrupted session computes again exactly the rows it has appended, so that
\* append_ledger accepts its replay, whichever append the interruption fell after.
THEOREM Replays == Replayed => (Spec => []ReplayIsSafe)
<1> SUFFICES ASSUME Replayed PROVE Spec => []ReplayIsSafe
  OBVIOUS
<1>1. PaperInv /\ ReplayInv /\ AgreeInv => ReplayIsSafe
  BY DEF ReplayInv, Faithful, ReplayIsSafe
<1>2. Spec => [](PaperInv /\ ReplayInv /\ AgreeInv)
  BY ReplayInvariant
<1> QED
  BY <1>1, <1>2, PTL

\* Between sessions, with nothing interrupted, _current_positions has what the trades
\* bought and did not sell, and the last equity row the cash that _current_cash computes.
THEOREM LedgersTellOneStory == Replayed => (Spec => []LedgersAgree)
<1> SUFFICES ASSUME Replayed PROVE Spec => []LedgersAgree
  OBVIOUS
<1>1. PaperInv /\ ReplayInv /\ AgreeInv => LedgersAgree
  <2> SUFFICES ASSUME PaperInv, AgreeInv, \A s \in Sessions : ~Unfinished(s),
                      NEW valued, valued = {s \in Sessions : equity[s] # None}
               PROVE  /\ \A c \in Codes : Held(today + 1, c).lots = Traded(today + 1, c)
                      /\ valued # {} => equity[Max(valued)].cash = Cash(today + 1)
    BY DEF LedgersAgree
  <2>1. PICK u \in 1..(LastSession + 1) : u = today + 1
    BY TodayFacts DEF PaperInv
  <2>2. \A t \in 1..(u - 1) : t \in Sessions
    BY PaperAssumption DEF Sessions
  <2>3. Agrees(u)
    BY <2>1, <2>2 DEF AgreeInv, Reads
  <2>4. \A t \in valued : t \in 1..(u - 1)
    <3> TAKE t \in valued
    <3>1. Executable(t)
      BY DEF PaperInv, RowsInv, HasRows
    <3> QED
      BY <2>1, <3>1, TodayFacts DEF Executable, PaperInv
  <2>5. ASSUME valued # {} PROVE equity[Max(valued)].cash = Cash(u)
    <3>1. valued \in SUBSET (0..LastSession) /\ LastSession \in Nat
      BY PaperAssumption DEF Sessions
    <3>2. PICK m : m = Max(valued) /\ m \in valued /\ \A t \in valued : t <= m
      BY <2>5, <3>1, MaxFacts
    <3>3. m \in 1..(u - 1) /\ equity[m] # None
      BY <2>4, <3>2
    <3>4. ASSUME NEW v \in 1..(u - 1), v > m PROVE equity[v] = None
      <4>1. v \notin valued
        BY <3>2, <3>3, <3>4
      <4> QED
        BY <2>2, <4>1
    <3> QED
      BY <2>3, <3>2, <3>3, <3>4 DEF Agrees
  <2> QED
    BY <2>1, <2>3, <2>5 DEF Agrees
<1>2. Spec => [](PaperInv /\ ReplayInv /\ AgreeInv)
  BY ReplayInvariant
<1> QED
  BY <1>1, <1>2, PTL
===============================================================================
