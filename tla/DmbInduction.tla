------------------------------ MODULE DmbInduction ------------------------------
(***************************************************************************)
(* Induction over the natural numbers, stated with a set and not with a    *)
(* predicate, and what follows from it for the recursive functions of the  *)
(* other modules: that they exist, sums over finite sets, and searches.    *)
(***************************************************************************)
EXTENDS Integers, FiniteSetTheorems, WellFoundedInduction, NaturalsInduction, TLAPS

(* A set of numbers has a least element.                                   *)
LEMMA Least ==
  ASSUME NEW T \in SUBSET Nat, T # {}
  PROVE  \E n \in T : \A m \in T : n <= m
<1>1. PICK n \in T : \A m \in T : <<m, n>> \notin OpToRel(<, Nat)
  BY WFMin, NatLessThanWellFounded
<1>2. \A m \in T : ~(m < n)
  BY <1>1 DEF OpToRel
<1>. QED  BY <1>2

(* Induction: a set with 0 and all successors is everything.               *)
LEMMA Induction ==
  ASSUME NEW T \in SUBSET Nat, 0 \in T, \A n \in T : n + 1 \in T
  PROVE  T = Nat
<1>. SUFFICES ASSUME Nat \ T # {} PROVE FALSE
  OBVIOUS
<1>1. PICK n \in Nat \ T : \A m \in Nat \ T : n <= m
  BY Least
<1>2. n - 1 \in T /\ (n - 1) + 1 = n
  BY <1>1
<1>. QED  BY <1>1, <1>2

(* Induction over the subsets of a finite set.                             *)
LEMMA SubsetInduction ==
  ASSUME NEW S, IsFiniteSet(S), NEW F \in SUBSET (SUBSET S), {} \in F,
         \A R \in F : \A x \in S \ R : R \cup {x} \in F
  PROVE  F = SUBSET S
<1>. DEFINE T == {n \in Nat : \A R \in SUBSET S : Cardinality(R) = n => R \in F}
<1>1. 0 \in T
  BY FS_Subset, FS_EmptySet
<1>2. ASSUME NEW n \in T PROVE n + 1 \in T
  <2>. SUFFICES ASSUME NEW R \in SUBSET S, Cardinality(R) = n + 1 PROVE R \in F
    BY <1>2
  <2>1. IsFiniteSet(R) /\ R # {}
    BY FS_Subset, FS_EmptySet
  <2>2. PICK x \in R : TRUE
    BY <2>1
  <2>3. Cardinality(R \ {x}) = (n + 1) - 1
    BY <2>1, FS_RemoveElement
  <2>4. R \ {x} \in SUBSET S /\ R = (R \ {x}) \cup {x} /\ x \in S \ (R \ {x})
    OBVIOUS
  <2>5. R \ {x} \in F
    BY <2>3, <2>4
  <2>. QED  BY <2>4, <2>5
<1>3. T = Nat
  <2>. HIDE DEF T
  <2>1. T \in SUBSET Nat
    BY DEF T
  <2>. QED  BY <1>1, <1>2, <2>1, Induction
<1>4. ASSUME NEW R \in SUBSET S PROVE R \in F
  <2>1. Cardinality(R) \in Nat
    BY FS_Subset, FS_CardinalityType
  <2>. QED  BY <1>3, <2>1
<1>. QED  BY <1>4

(* Functions that begin alike and go on alike are the same.                *)
LEMMA Stepwise ==
  ASSUME NEW n, n \in Nat, NEW f, NEW w, f[0] = w[0],
         \A k \in 1 .. n : f[k - 1] = w[k - 1] => f[k] = w[k]
  PROVE  \A k \in 0 .. n : f[k] = w[k]
<1>. DEFINE T == {k \in Nat : k <= n => f[k] = w[k]}
<1>1. 0 \in T
  OBVIOUS
<1>2. ASSUME NEW k \in T PROVE k + 1 \in T
  <2>. SUFFICES ASSUME k + 1 <= n PROVE f[k + 1] = w[k + 1]
    BY <1>2
  <2>1. k + 1 \in 1 .. n /\ (k + 1) - 1 = k /\ f[k] = w[k]
    BY <1>2
  <2>. QED  BY <2>1
<1>3. T = Nat
  <2>. HIDE DEF T
  <2>1. T \in SUBSET Nat
    BY DEF T
  <2>. QED  BY <1>1, <1>2, <2>1, Induction
<1>. QED  BY <1>3

-----------------------------------------------------------------------------
(* Sums.  The sums of g over the subsets of S, as a function of the subset *)
(* from which any element may be taken out.                                *)
Sums(g, S) ==
  {h \in [SUBSET S -> Int] :
     h[{}] = 0 /\ \A s \in SUBSET S : \A e \in s : h[s] = g[e] + h[s \ {e}]}

LEMMA SumsOfOneMore ==
  ASSUME NEW S, NEW x \in S, NEW g, \A y \in S : g[y] \in Int, NEW h \in Sums(g, S \ {x})
  PROVE  Sums(g, S) # {}
<1>. DEFINE R == S \ {x}
            H == [s \in SUBSET S |-> IF x \in s THEN g[x] + h[s \ {x}] ELSE h[s]]
<1>0. /\ h \in [SUBSET R -> Int] /\ h[{}] = 0
      /\ \A s \in SUBSET R : \A e \in s : h[s] = g[e] + h[s \ {e}]
  BY DEF Sums
<1>1. \A s \in SUBSET S : s \ {x} \in SUBSET R /\ (x \notin s => s \in SUBSET R)
  OBVIOUS
<1>2. H \in [SUBSET S -> Int]
  BY <1>0, <1>1
<1>3. H[{}] = 0
  BY <1>0
<1>4. ASSUME NEW s \in SUBSET S, NEW e \in s PROVE H[s] = g[e] + H[s \ {e}]
  <2>1. s \ {e} \in SUBSET S
    OBVIOUS
  <2>2. CASE e = x
    BY <1>1, <2>1, <2>2
  <2>3. CASE e # x /\ x \in s
    <3>1. s \ {x} \in SUBSET R /\ e \in s \ {x} /\ (s \ {e}) \ {x} = (s \ {x}) \ {e}
      BY <2>3
    <3>2. h[s \ {x}] = g[e] + h[(s \ {x}) \ {e}]
      BY <1>0, <3>1
    <3>3. x \in s \ {e} /\ H[s \ {e}] = g[x] + h[(s \ {x}) \ {e}]
      BY <2>1, <2>3, <3>1
    <3>4. H[s] = g[x] + h[s \ {x}]
      BY <2>3
    <3>5. h[(s \ {x}) \ {e}] \in Int
      BY <1>0, <3>1
    <3>6. g[e] \in Int /\ g[x] \in Int
      OBVIOUS
    <3>. HIDE DEF H
    <3>. QED  BY <3>2, <3>3, <3>4, <3>5, <3>6
  <2>4. CASE x \notin s
    BY <1>0, <1>1, <2>1, <2>4
  <2>. QED  BY <2>2, <2>3, <2>4
<1>5. H \in Sums(g, S)
  <2>. HIDE DEF H
  <2>. QED  BY <1>2, <1>3, <1>4 DEF Sums
<1>. QED  BY <1>5

LEMMA SumsExist ==
  ASSUME NEW S, IsFiniteSet(S), NEW g, \A x \in S : g[x] \in Int
  PROVE  Sums(g, S) # {}
<1>. DEFINE F == {R \in SUBSET S : Sums(g, R) # {}}
<1>1. {} \in F
  <2>1. [s \in SUBSET {} |-> 0] \in Sums(g, {})
    BY DEF Sums
  <2>. QED  BY <2>1
<1>2. ASSUME NEW R \in F, NEW x \in S \ R PROVE R \cup {x} \in F
  <2>1. (R \cup {x}) \ {x} = R /\ R \cup {x} \in SUBSET S /\ x \in R \cup {x}
    BY <1>2
  <2>2. PICK h : h \in Sums(g, (R \cup {x}) \ {x})
    BY <1>2, <2>1
  <2>3. \A y \in R \cup {x} : g[y] \in Int
    BY <2>1
  <2>4. Sums(g, R \cup {x}) # {}
    BY <2>1, <2>2, <2>3, SumsOfOneMore
  <2>. QED  BY <2>1, <2>4
<1>3. F = SUBSET S
  <2>. HIDE DEF F
  <2>1. F \in SUBSET (SUBSET S)
    BY DEF F
  <2>. QED  BY <1>1, <1>2, <2>1, SubsetInduction
<1>. QED  BY <1>3

(* Summands that agree on a set have the same sum over it.                 *)
LEMMA SumsAgree ==
  ASSUME NEW S, IsFiniteSet(S), NEW g, NEW k, NEW h \in Sums(g, S), NEW l \in Sums(k, S),
         NEW R \in SUBSET S, \A x \in R : g[x] = k[x]
  PROVE  h[R] = l[R]
<1>. DEFINE F == {s \in SUBSET R : h[s] = l[s]}
<1>1. {} \in F
  BY DEF Sums
<1>2. ASSUME NEW s \in F, NEW x \in R \ s PROVE s \cup {x} \in F
  <2>1. s \cup {x} \in SUBSET S /\ (s \cup {x}) \ {x} = s /\ s \cup {x} \in SUBSET R
    BY <1>2
  <2>2. h[s \cup {x}] = g[x] + h[s] /\ l[s \cup {x}] = k[x] + l[s]
    BY <2>1 DEF Sums
  <2>. QED  BY <1>2, <2>1, <2>2
<1>3. F = SUBSET R
  <2>. HIDE DEF F
  <2>1. F \in SUBSET (SUBSET R) /\ IsFiniteSet(R)
    BY FS_Subset DEF F
  <2>. QED  BY <1>1, <1>2, <2>1, SubsetInduction
<1>. QED  BY <1>3

(* If a single summand changes, so does the sum, by as much.               *)
LEMMA SumChanges ==
  ASSUME NEW S, IsFiniteSet(S), NEW g, NEW k, NEW h \in Sums(g, S), NEW l \in Sums(k, S),
         NEW b \in S, \A x \in S \ {b} : g[x] = k[x], g[b] \in Int, k[b] \in Int
  PROVE  l[S] = h[S] + (k[b] - g[b])
<1>1. h[S \ {b}] = l[S \ {b}]
  BY SumsAgree
<1>2. h[S] = g[b] + h[S \ {b}] /\ l[S] = k[b] + l[S \ {b}] /\ h[S \ {b}] \in Int
  BY DEF Sums
<1>. QED  BY <1>1, <1>2

(* A sum of natural numbers is one, and no less than each of them.         *)
LEMMA SumAtLeast ==
  ASSUME NEW S, IsFiniteSet(S), NEW g, \A x \in S : g[x] \in Nat, NEW h \in Sums(g, S)
  PROVE  h[S] \in Nat /\ \A b \in S : g[b] <= h[S]
<1>. DEFINE F == {s \in SUBSET S : h[s] \in Nat}
<1>0. h[{}] = 0 /\ \A s \in SUBSET S : \A e \in s : h[s] = g[e] + h[s \ {e}]
  BY DEF Sums
<1>1. {} \in F
  BY <1>0
<1>2. ASSUME NEW s \in F, NEW x \in S \ s PROVE s \cup {x} \in F
  <2>1. s \cup {x} \in SUBSET S /\ x \in s \cup {x} /\ (s \cup {x}) \ {x} = s
    BY <1>2
  <2>2. h[s \cup {x}] = g[x] + h[s]
    BY <1>0, <2>1
  <2>. QED  BY <1>2, <2>1, <2>2
<1>3. F = SUBSET S
  <2>. HIDE DEF F
  <2>1. F \in SUBSET (SUBSET S)
    BY DEF F
  <2>. QED  BY <1>1, <1>2, <2>1, SubsetInduction
<1>4. \A s \in SUBSET S : h[s] \in Nat
  BY <1>3
<1>5. ASSUME NEW b \in S PROVE g[b] <= h[S]
  <2>1. h[S] = g[b] + h[S \ {b}] /\ h[S \ {b}] \in Nat
    BY <1>0, <1>4
  <2>. QED  BY <2>1
<1>. QED  BY <1>4, <1>5

(* The recursive function behind MapThenSumSet, which takes out the        *)
(* elements in the order of CHOOSE, exists and is a sum.                   *)
IsFold(f, g, S) ==
  f = [s \in SUBSET S |-> IF s = {} THEN 0
                         ELSE g[CHOOSE x \in s : TRUE] + f[s \ {CHOOSE x \in s : TRUE}]]

LEMMA SumFolds ==
  ASSUME NEW S, NEW g, NEW h \in Sums(g, S)
  PROVE  IsFold(h, g, S)
<1>1. h \in [SUBSET S -> Int] /\ h[{}] = 0
  BY DEF Sums
<1>2. ASSUME NEW s \in SUBSET S, s # {}
      PROVE  h[s] = g[CHOOSE x \in s : TRUE] + h[s \ {CHOOSE x \in s : TRUE}]
  <2>1. (CHOOSE x \in s : TRUE) \in s
    BY <1>2
  <2>. QED  BY <2>1 DEF Sums
<1>. QED  BY <1>1, <1>2 DEF IsFold

LEMMA FoldSums ==
  ASSUME NEW S, IsFiniteSet(S), NEW g, NEW h \in Sums(g, S), NEW f, IsFold(f, g, S)
  PROVE  f[S] = h[S]
<1>. DEFINE T == {n \in Nat : \A s \in SUBSET S : Cardinality(s) = n => f[s] = h[s]}
<1>1. 0 \in T
  <2>1. \A s \in SUBSET S : Cardinality(s) = 0 => s = {}
    BY FS_Subset, FS_EmptySet
  <2>. QED  BY <2>1 DEF Sums, IsFold
<1>2. ASSUME NEW n \in T PROVE n + 1 \in T
  <2>. SUFFICES ASSUME NEW s \in SUBSET S, Cardinality(s) = n + 1 PROVE f[s] = h[s]
    BY <1>2
  <2>1. IsFiniteSet(s) /\ s # {}
    BY <1>2, FS_Subset, FS_EmptySet
  <2>2. PICK x : x = CHOOSE y \in s : TRUE
    OBVIOUS
  <2>3. x \in s
    BY <2>1, <2>2
  <2>4. Cardinality(s \ {x}) = (n + 1) - 1
    BY <2>1, <2>3, FS_RemoveElement
  <2>5. s \ {x} \in SUBSET S /\ f[s \ {x}] = h[s \ {x}]
    BY <1>2, <2>4
  <2>6. f[s] = g[x] + f[s \ {x}]
    BY <2>1, <2>2 DEF IsFold
  <2>7. h[s] = g[x] + h[s \ {x}]
    BY <2>3 DEF Sums
  <2>. QED  BY <2>5, <2>6, <2>7
<1>3. T = Nat
  <2>. HIDE DEF T
  <2>1. T \in SUBSET Nat
    BY DEF T
  <2>. QED  BY <1>1, <1>2, <2>1, Induction
<1>. QED  BY <1>3, FS_CardinalityType

-----------------------------------------------------------------------------
(* Recursion over the numbers: a beginning and a step define a function.   *)
Runs(S, a, step, n) ==
  {g \in [0 .. n -> S] : g[0] = a /\ \A m \in 0 .. n - 1 : g[m + 1] = step[m][g[m]]}

LEMMA RunsExist ==
  ASSUME NEW S, NEW a, a \in S, NEW step, step \in [Nat -> [S -> S]], NEW n \in Nat
  PROVE  Runs(S, a, step, n) # {}
<1>. DEFINE T == {m \in Nat : Runs(S, a, step, m) # {}}
<1>1. 0 \in T
  <2>1. [m \in 0 .. 0 |-> a] \in Runs(S, a, step, 0)
    BY DEF Runs
  <2>. QED  BY <2>1
<1>2. ASSUME NEW m \in T PROVE m + 1 \in T
  <2>1. PICK g : g \in Runs(S, a, step, m)
    OBVIOUS
  <2>2. /\ m \in Nat /\ g \in [0 .. m -> S] /\ g[0] = a
        /\ \A k \in 0 .. m - 1 : g[k + 1] = step[k][g[k]]
    BY <2>1 DEF Runs
  <2>. DEFINE h == [k \in 0 .. m + 1 |-> IF k <= m THEN g[k] ELSE step[m][g[m]]]
  <2>3. h \in [0 .. m + 1 -> S]
    <3>1. step[m] \in [S -> S] /\ g[m] \in S
      BY <2>2
    <3>2. step[m][g[m]] \in S
      BY <3>1
    <3>. QED  BY <2>2, <3>2
  <2>4. h[0] = a
    BY <2>2
  <2>5. ASSUME NEW k \in 0 .. (m + 1) - 1 PROVE h[k + 1] = step[k][h[k]]
    <3>1. CASE k = m
      <4>1. k + 1 \in 0 .. m + 1 /\ ~(k + 1 <= m) /\ m \in 0 .. m + 1 /\ m <= m
        BY <2>2, <3>1
      <4>2. h[k + 1] = step[m][g[m]] /\ h[m] = g[m]
        BY <4>1
      <4>. QED  BY <3>1, <4>2
    <3>2. CASE k # m
      BY <2>2, <3>2
    <3>. QED  BY <3>1, <3>2
  <2>6. h \in Runs(S, a, step, m + 1)
    <3>. HIDE DEF h
    <3>. QED  BY <2>3, <2>4, <2>5 DEF Runs
  <2>. QED  BY <2>2, <2>6
<1>3. T = Nat
  <2>. HIDE DEF T
  <2>1. T \in SUBSET Nat
    BY DEF T
  <2>. QED  BY <1>1, <1>2, <2>1, Induction
<1>. QED  BY <1>3

IsRecursive(f, S, a, step) ==
  f \in [Nat -> S] /\ f[0] = a /\ \A n \in Nat : f[n + 1] = step[n][f[n]]

LEMMA Recursion ==
  ASSUME NEW S, NEW a, a \in S, NEW step, step \in [Nat -> [S -> S]]
  PROVE  \E f : IsRecursive(f, S, a, step)
<1>. DEFINE run(n) == CHOOSE g : g \in Runs(S, a, step, n)
            f == [n \in Nat |-> run(n)[n]]
<1>1. ASSUME NEW n \in Nat PROVE run(n) \in Runs(S, a, step, n)
  BY RunsExist
<1>. HIDE DEF run
<1>2. f \in [Nat -> S]
  <2>1. ASSUME NEW n \in Nat PROVE run(n)[n] \in S
    <3>1. run(n) \in [0 .. n -> S]
      BY <1>1 DEF Runs
    <3>. QED  BY <3>1
  <2>. QED  BY <2>1
<1>3. f[0] = a
  BY <1>1 DEF Runs
<1>4. ASSUME NEW n \in Nat PROVE f[n + 1] = step[n][f[n]]
  <2>1. run(n) \in Runs(S, a, step, n) /\ run(n + 1) \in Runs(S, a, step, n + 1) /\ n + 1 \in Nat
    BY <1>1
  <2>2. run(n)[n] = run(n + 1)[n]
    <3>. DEFINE T == {k \in Nat : k <= n => run(n)[k] = run(n + 1)[k]}
    <3>1. 0 \in T
      BY <2>1 DEF Runs
    <3>2. ASSUME NEW k \in T PROVE k + 1 \in T
      <4>1. PICK g, h : g = run(n) /\ h = run(n + 1)
        OBVIOUS
      <4>2. k \in Nat /\ (k <= n => g[k] = h[k])
        BY <4>1
      <4>3. /\ \A m \in 0 .. n - 1 : g[m + 1] = step[m][g[m]]
            /\ \A m \in 0 .. n : h[m + 1] = step[m][h[m]]
        BY <2>1, <4>1 DEF Runs
      <4>4. ASSUME k + 1 <= n PROVE g[k + 1] = h[k + 1]
        <5>1. k \in 0 .. n - 1 /\ k \in 0 .. n
          BY <4>2, <4>4
        <5>2. g[k + 1] = step[k][g[k]] /\ h[k + 1] = step[k][h[k]]
          BY <4>3, <5>1
        <5>3. g[k] = h[k]
          BY <4>2, <4>4
        <5>. QED  BY <5>2, <5>3
      <4>. QED  BY <4>1, <4>2, <4>4
    <3>3. T = Nat
      <4>. HIDE DEF T
      <4>1. T \in SUBSET Nat
        BY DEF T
      <4>. QED  BY <3>1, <3>2, <4>1, Induction
    <3>. QED  BY <3>3
  <2>3. run(n + 1)[n + 1] = step[n][run(n + 1)[n]]
    BY <2>1 DEF Runs
  <2>. QED  BY <2>1, <2>2, <2>3
<1>. QED  BY <1>2, <1>3, <1>4 DEF IsRecursive

(* A search from p on for the first number in a set that has the last one. *)
IsScan(f, p, N, Stop) == f = [q \in p .. N |-> IF q \in Stop THEN q ELSE f[q + 1]]

LEMMA ScanExists ==
  ASSUME NEW N \in Nat, NEW p \in Nat, NEW Stop, N \in Stop
  PROVE  \E f : IsScan(f, p, N, Stop)
<1>. DEFINE Later(q) == {m \in q .. N : m \in Stop}
            least(q) == CHOOSE m \in Later(q) : \A k \in Later(q) : m <= k
            f == [q \in p .. N |-> least(q)]
<1>1. ASSUME NEW q \in p .. N
      PROVE  least(q) \in Later(q) /\ \A k \in Later(q) : least(q) <= k
  <2>1. Later(q) \in SUBSET Nat /\ Later(q) # {}
    OBVIOUS
  <2>2. \E m \in Later(q) : \A k \in Later(q) : m <= k
    <3>. HIDE DEF Later
    <3>. QED  BY <2>1, Least
  <2>. QED  BY <2>2
<1>2. \A q \in p .. N : \A m, n \in Later(q) :
        (\A k \in Later(q) : m <= k) /\ (\A k \in Later(q) : n <= k) => m = n
  OBVIOUS
<1>3. ASSUME NEW q \in p .. N PROVE least(q) = IF q \in Stop THEN q ELSE f[q + 1]
  <2>1. CASE q \in Stop
    <3>1. q \in Later(q) /\ \A k \in Later(q) : q <= k
      BY <2>1
    <3>. HIDE DEF least
    <3>. QED  BY <1>1, <1>2, <2>1, <3>1
  <2>2. CASE q \notin Stop
    <3>1. q + 1 \in p .. N /\ Later(q) = Later(q + 1)
      BY <2>2
    <3>. QED  BY <1>1, <1>2, <2>2, <3>1
  <2>. QED  BY <2>1, <2>2
<1>4. IsScan(f, p, N, Stop)
  <2>. HIDE DEF least
  <2>. QED  BY <1>3 DEF IsScan
<1>. QED  BY <1>4

LEMMA ScanFinds ==
  ASSUME NEW N \in Nat, NEW p \in Nat, NEW Stop, N \in Stop, p <= N, NEW f, IsScan(f, p, N, Stop)
  PROVE  f[p] \in p .. N /\ f[p] \in Stop /\ \A m \in p .. f[p] - 1 : m \notin Stop
<1>. DEFINE T == {n \in Nat : \A q \in p .. N : N - q = n =>
                   f[q] \in q .. N /\ f[q] \in Stop /\ \A m \in q .. f[q] - 1 : m \notin Stop}
<1>0. \A q \in p .. N : f[q] = IF q \in Stop THEN q ELSE f[q + 1]
  BY DEF IsScan
<1>1. 0 \in T
  BY <1>0
<1>2. ASSUME NEW n \in T PROVE n + 1 \in T
  <2>. SUFFICES ASSUME NEW q \in p .. N, N - q = n + 1
                PROVE  f[q] \in q .. N /\ f[q] \in Stop /\ \A m \in q .. f[q] - 1 : m \notin Stop
    OBVIOUS
  <2>1. CASE q \in Stop
    BY <1>0, <2>1
  <2>2. CASE q \notin Stop
    <3>1. f[q] = f[q + 1] /\ q + 1 \in p .. N /\ N - (q + 1) = n
      BY <1>0, <2>2
    <3>2. /\ f[q + 1] \in q + 1 .. N /\ f[q + 1] \in Stop
          /\ \A m \in q + 1 .. f[q + 1] - 1 : m \notin Stop
      BY <3>1
    <3>. QED  BY <2>2, <3>1, <3>2
  <2>. QED  BY <2>1, <2>2
<1>3. T = Nat
  <2>. HIDE DEF T
  <2>1. T \in SUBSET Nat
    BY DEF T
  <2>. QED  BY <1>1, <1>2, <2>1, Induction
<1>4. p \in p .. N /\ N - p \in Nat
  OBVIOUS
<1>5. \A n \in Nat : \A q \in p .. N : N - q = n =>
        f[q] \in q .. N /\ f[q] \in Stop /\ \A m \in q .. f[q] - 1 : m \notin Stop
  BY <1>3
<1>. QED  BY <1>4, <1>5

================================================================================
