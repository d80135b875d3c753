------------------------------- MODULE Lemmas -------------------------------
(***************************************************************************)
(* What the proofs need about numbers, loops, sums over finite sets, and   *)
(* requests that start while others are under way.                         *)
(* The induction theorems of the library quantify over predicates, which   *)
(* no prover here can instantiate; the predicates below are sets.          *)
(***************************************************************************)
EXTENDS Integers, Functions, NaturalsInduction, WellFoundedInduction, FiniteSetTheorems, TLAPS

(* A set of numbers has a least element.                                   *)
LEMMA Least ==
  ASSUME NEW T \in SUBSET Nat, T # {}
  PROVE  \E x \in T : \A y \in T : x <= y
<1>1. PICK x \in T : \A y \in T : <<y, x>> \notin OpToRel(<, Nat)
  BY NatLessThanWellFounded, WFMin, Zenon
<1>2. \A y \in T : ~ (y < x)
  BY <1>1, Zenon DEF OpToRel
<1>. QED
  BY <1>2

(* Induction up to n: what holds at 0 and is handed on holds everywhere.   *)
LEMMA UpTo ==
  ASSUME NEW n \in Nat, NEW T, 0 \in T, \A i \in 1..n : i - 1 \in T => i \in T
  PROVE  \A i \in 0..n : i \in T
<1>. DEFINE D == {i \in 0..n : i \notin T}
<1>. SUFFICES ASSUME D # {} PROVE FALSE
  OBVIOUS
<1>1. D \subseteq Nat
  OBVIOUS
<1>2. PICK x \in D : \A y \in D : x <= y
  <2>. HIDE DEF D
  <2>. QED
    BY <1>1, Least
<1>3. \A y \in D : ~ (y < x)
  <2>. HIDE DEF D
  <2>. QED
    BY <1>1, <1>2
<1>4. x \in 1..n /\ x - 1 \in 0..n
  OBVIOUS
<1>5. x - 1 \notin D
  BY <1>3, <1>4
<1>. QED
  BY <1>4, <1>5

(* A loop of n steps in R that starts with base has a run.                 *)
Runs(R, base, n, step) ==
  \E f \in [0..n -> R] : f[0] = base /\ \A i \in 1..n : f[i] = step[i][f[i - 1]]

LEMMA LoopRuns ==
  ASSUME NEW R, NEW base \in R, NEW n \in Nat, NEW step \in [1..n -> [R -> R]]
  PROVE  Runs(R, base, n, step)
<1>. DEFINE IsRun(m, f) == f[0] = base /\ \A i \in 1..m : f[i] = step[i][f[i - 1]]
            T == {m \in 0..n : \E f \in [0..m -> R] : IsRun(m, f)}
<1>1. 0 \in T
  <2>1. [i \in 0..0 |-> base] \in [0..0 -> R] /\ IsRun(0, [i \in 0..0 |-> base])
    OBVIOUS
  <2>. HIDE DEF IsRun
  <2>. QED
    BY <2>1
<1>2. ASSUME NEW m \in 1..n, m - 1 \in T PROVE m \in T
  <2>1. PICK f \in [0..(m - 1) -> R] : IsRun(m - 1, f)
    BY <1>2
  <2>. DEFINE g == [i \in 0..m |-> IF i = m THEN step[m][f[m - 1]] ELSE f[i]]
  <2>2. f[m - 1] \in R /\ step[m] \in [R -> R]
    OBVIOUS
  <2>3. g \in [0..m -> R]
    BY <2>2
  <2>4. g[0] = base
    BY <2>1
  <2>5. ASSUME NEW i \in 1..m PROVE g[i] = step[i][g[i - 1]]
    <3>1. CASE i = m
      BY <3>1
    <3>2. CASE i # m
      <4>1. i \in 1..(m - 1) /\ i \in 0..m /\ i - 1 \in 0..m /\ i - 1 # m
        BY <3>2
      <4>. QED
        BY <2>1, <3>2, <4>1
    <3>. QED
      BY <3>1, <3>2
  <2>. HIDE DEF g
  <2>6. IsRun(m, g)
    BY <2>4, <2>5
  <2>. HIDE DEF IsRun
  <2>. QED
    BY <2>3, <2>6
<1>3. n \in T
  <2>. HIDE DEF T
  <2>1. \A m \in 1..n : m - 1 \in T => m \in T
    BY <1>2
  <2>2. \A m \in 0..n : m \in T
    BY <1>1, <2>1, UpTo
  <2>. QED
    BY <2>2
<1>. QED
  BY <1>3 DEF Runs

-----------------------------------------------------------------------------
(* Induction over the subsets of a finite set: what holds of each when it  *)
(* holds of those with one element less.                                   *)
LEMMA Subsets ==
  ASSUME NEW S, IsFiniteSet(S), NEW T,
         \A s \in SUBSET S : (\A x \in s : s \ {x} \in T) => s \in T
  PROVE  SUBSET S \subseteq T
<1>. DEFINE n == Cardinality(S)
            N == {i \in 0..n : \A s \in SUBSET S : Cardinality(s) = i => s \in T}
<1>1. \A s \in SUBSET S : IsFiniteSet(s) /\ Cardinality(s) \in Nat /\ Cardinality(s) <= n
  BY FS_Subset, FS_CardinalityType
<1>2. n \in Nat
  BY <1>1
<1>3. 0 \in N
  <2>1. \A s \in SUBSET S : Cardinality(s) = 0 => s = {}
    BY <1>1, FS_EmptySet
  <2>2. {} \in T
    OBVIOUS
  <2>. QED
    BY <1>2, <2>1, <2>2
<1>4. ASSUME NEW i \in 1..n, i - 1 \in N PROVE i \in N
  <2>1. ASSUME NEW s \in SUBSET S, Cardinality(s) = i PROVE s \in T
    <3>1. ASSUME NEW x \in s PROVE s \ {x} \in T
      <4>1. Cardinality(s \ {x}) = i - 1
        BY <1>1, <2>1, FS_RemoveElement
      <4>. QED
        BY <1>4, <4>1
    <3>. QED
      BY <3>1
  <2>. QED
    BY <2>1
<1>. HIDE DEF N, n
<1>5. \A i \in 0..n : i \in N
  BY <1>2, <1>3, <1>4, UpTo
<1>6. ASSUME NEW s \in SUBSET S PROVE s \in T
  <2>1. Cardinality(s) \in 0..n
    BY <1>1, <1>2
  <2>. QED
    BY <1>5, <2>1 DEF N
<1>. QED
  BY <1>6

-----------------------------------------------------------------------------
(* Sums (SumFunctionOnSet of the community modules) take the elements one  *)
(* after the other.                                                        *)
Chosen(s) == CHOOSE x \in s : TRUE

Adds(g, f, S) ==
  g = [s \in SUBSET S |-> IF s = {} THEN 0 ELSE f[Chosen(s)] + g[s \ {Chosen(s)}]]

LEMMA SumTaken ==
  ASSUME NEW f, NEW S
  PROVE  SumFunctionOnSet(f, S) = (CHOOSE g : Adds(g, f, S))[S]
<1>1. SumFunctionOnSet(f, S) =
        (CHOOSE g : g = [s \in SUBSET S |->
           IF s = {} THEN 0
           ELSE f[CHOOSE x \in s : TRUE] + g[s \ {CHOOSE x \in s : TRUE}]])[S]
  BY DEF SumFunctionOnSet, FoldFunctionOnSet, MapThenFoldSet
<1>. QED
  BY <1>1 DEF Adds, Chosen

LEMMA ChosenIsOne == ASSUME NEW s, s # {} PROVE Chosen(s) \in s
BY DEF Chosen

(* Adding up runs,                                                         *)
LEMMA AddsRuns ==
  ASSUME NEW S, IsFiniteSet(S), NEW f, \A x \in S : f[x] \in Int
  PROVE  \E g \in [SUBSET S -> Int] : Adds(g, f, S)
<1>. DEFINE Fine(g, n) ==
       /\ g \in [SUBSET S -> Int] /\ g[{}] = 0
       /\ \A s \in SUBSET S : s # {} /\ Cardinality(s) <= n =>
              g[s] = f[Chosen(s)] + g[s \ {Chosen(s)}]
            n == Cardinality(S)
            N == {i \in 0..n : \E g : Fine(g, i)}
<1>1. \A s \in SUBSET S : IsFiniteSet(s) /\ Cardinality(s) \in Nat /\ Cardinality(s) <= n
  BY FS_Subset, FS_CardinalityType
<1>2. n \in Nat
  BY <1>1
<1>3. 0 \in N
  <2>. DEFINE g == [s \in SUBSET S |-> 0]
  <2>1. g \in [SUBSET S -> Int] /\ g[{}] = 0
    OBVIOUS
  <2>2. \A s \in SUBSET S : Cardinality(s) <= 0 => s = {}
    BY <1>1, FS_EmptySet
  <2>. HIDE DEF g
  <2>3. Fine(g, 0)
    BY <2>1, <2>2
  <2>. QED
    BY <1>2, <2>3
<1>4. ASSUME NEW i \in 1..n, i - 1 \in N PROVE i \in N
  <2>1. PICK g : Fine(g, i - 1)
    BY <1>4
  <2>. DEFINE step(s) == f[Chosen(s)] + g[s \ {Chosen(s)}]
              h == [s \in SUBSET S |-> IF s # {} /\ Cardinality(s) = i THEN step(s) ELSE g[s]]
  <2>2. ASSUME NEW s \in SUBSET S, s # {}
        PROVE  /\ Chosen(s) \in S /\ s \ {Chosen(s)} \in SUBSET S /\ step(s) \in Int
               /\ Cardinality(s \ {Chosen(s)}) = Cardinality(s) - 1
    <3>1. Chosen(s) \in s
      BY <2>2, ChosenIsOne
    <3>2. Cardinality(s \ {Chosen(s)}) = Cardinality(s) - 1
      BY <1>1, <3>1, FS_RemoveElement
    <3>. QED
      BY <2>1, <3>1, <3>2
  <2>. HIDE DEF step
  <2>3. h \in [SUBSET S -> Int] /\ h[{}] = 0
    BY <2>1, <2>2
  <2>4. ASSUME NEW s \in SUBSET S, s # {}, Cardinality(s) <= i
        PROVE  h[s] = f[Chosen(s)] + h[s \ {Chosen(s)}]
    <3>1. h[s \ {Chosen(s)}] = g[s \ {Chosen(s)}]
      BY <1>1, <2>2, <2>4
    <3>2. h[s] = step(s)
      <4>1. CASE Cardinality(s) = i
        BY <2>4, <4>1
      <4>2. CASE Cardinality(s) # i
        <5>1. Cardinality(s) <= i - 1
          BY <1>1, <2>4, <4>2
        <5>. QED
          BY <2>1, <2>4, <4>2, <5>1 DEF step
      <4>. QED
        BY <4>1, <4>2
    <3>. QED
      BY <3>1, <3>2 DEF step
  <2>. HIDE DEF h
  <2>5. Fine(h, i)
    BY <2>3, <2>4
  <2>. HIDE DEF Fine
  <2>. QED
    BY <1>2, <2>5
<1>5. n \in N
  <2>. HIDE DEF N, n
  <2>. QED
    BY <1>2, <1>3, <1>4, UpTo
<1>6. PICK g : Fine(g, n)
  BY <1>5
<1>7. g = [s \in SUBSET S |-> IF s = {} THEN 0 ELSE f[Chosen(s)] + g[s \ {Chosen(s)}]]
  BY <1>1, <1>6
<1>. QED
  BY <1>6, <1>7 DEF Adds

(* ... in one way.                                                         *)
LEMMA AddsOneWay ==
  ASSUME NEW S, IsFiniteSet(S), NEW f, NEW R, S \subseteq R,
         NEW g, Adds(g, f, S), NEW h, Adds(h, f, R)
  PROVE  \A s \in SUBSET S : g[s] = h[s]
<1>. DEFINE T == {s \in SUBSET S : g[s] = h[s]}
<1>1. ASSUME NEW s \in SUBSET S, \A x \in s : s \ {x} \in T PROVE s \in T
  <2>1. /\ g[s] = IF s = {} THEN 0 ELSE f[Chosen(s)] + g[s \ {Chosen(s)}]
        /\ h[s] = IF s = {} THEN 0 ELSE f[Chosen(s)] + h[s \ {Chosen(s)}]
    BY DEF Adds
  <2>2. s # {} => g[s \ {Chosen(s)}] = h[s \ {Chosen(s)}]
    BY <1>1, ChosenIsOne
  <2>. QED
    BY <2>1, <2>2
<1>. HIDE DEF T
<1>2. SUBSET S \subseteq T
  BY <1>1, Subsets
<1>. QED
  BY <1>2 DEF T

Numbers(f, S) == IsFiniteSet(S) /\ \A x \in S : f[x] \in Int

(* So a sum is a number, and its chosen element may be set apart.           *)
LEMMA SumOfChosen ==
  ASSUME NEW f, NEW S, Numbers(f, S)
  PROVE  /\ SumFunctionOnSet(f, S) \in Int
         /\ SumFunctionOnSet(f, {}) = 0
         /\ S # {} => SumFunctionOnSet(f, S) =
                        f[Chosen(S)] + SumFunctionOnSet(f, S \ {Chosen(S)})
<1>. DEFINE G(R) == CHOOSE g : Adds(g, f, R)
<1>1. ASSUME NEW R \in SUBSET S
      PROVE  Adds(G(R), f, R) /\ G(R) \in [SUBSET R -> Int] /\ SumFunctionOnSet(f, R) = G(R)[R]
  <2>1. IsFiniteSet(R) /\ \A x \in R : f[x] \in Int
    BY FS_Subset DEF Numbers
  <2>2. PICK g \in [SUBSET R -> Int] : Adds(g, f, R)
    BY <2>1, AddsRuns
  <2>3. Adds(G(R), f, R)
    BY <2>2
  <2>. HIDE DEF G
  <2>4. \A s \in SUBSET R : G(R)[s] = g[s]
    BY <2>1, <2>2, <2>3, AddsOneWay
  <2>5. DOMAIN G(R) = SUBSET R /\ G(R) = [s \in SUBSET R |-> G(R)[s]]
    BY <2>3 DEF Adds
  <2>6. G(R) \in [SUBSET R -> Int]
    BY <2>2, <2>4, <2>5
  <2>7. SumFunctionOnSet(f, R) = G(R)[R]
    BY SumTaken DEF G
  <2>. QED
    BY <2>3, <2>6, <2>7
<1>. HIDE DEF G
<1>2. SumFunctionOnSet(f, S) \in Int
  <2>1. S \in SUBSET S /\ G(S) \in [SUBSET S -> Int] /\ SumFunctionOnSet(f, S) = G(S)[S]
    BY <1>1
  <2>. QED
    BY <2>1
<1>3. SumFunctionOnSet(f, {}) = 0
  BY <1>1 DEF Adds
<1>4. ASSUME S # {}
      PROVE  SumFunctionOnSet(f, S) = f[Chosen(S)] + SumFunctionOnSet(f, S \ {Chosen(S)})
  <2>. DEFINE R == S \ {Chosen(S)}
  <2>1. G(S)[S] = f[Chosen(S)] + G(S)[R]
    BY <1>1, <1>4 DEF Adds
  <2>2. IsFiniteSet(R)
    BY FS_Subset DEF Numbers
  <2>3. G(R)[R] = G(S)[R]
    <3>1. Adds(G(R), f, R) /\ Adds(G(S), f, S) /\ R \subseteq S
      BY <1>1
    <3>. HIDE DEF R
    <3>. QED
      BY <2>2, <3>1, AddsOneWay
  <2>. QED
    BY <1>1, <2>1, <2>3
<1>. QED
  BY <1>2, <1>3, <1>4

(* So may any other.                                                       *)
LEMMA SumOfOne ==
  ASSUME NEW f, NEW S, Numbers(f, S), NEW x \in S
  PROVE  SumFunctionOnSet(f, S) = f[x] + SumFunctionOnSet(f, S \ {x})
<1>. DEFINE Sum(s) == SumFunctionOnSet(f, s)
            T == {s \in SUBSET S : \A y \in s : Sum(s) = f[y] + Sum(s \ {y})}
<1>1. \A s \in SUBSET S : Numbers(f, s)
  BY FS_Subset DEF Numbers
<1>2. \A s \in SUBSET S : Sum(s) \in Int /\ (s # {} => Sum(s) = f[Chosen(s)] + Sum(s \ {Chosen(s)}))
  BY <1>1, SumOfChosen
<1>. HIDE DEF Sum
<1>3. ASSUME NEW s \in SUBSET S, \A y \in s : s \ {y} \in T, NEW y \in s
      PROVE  Sum(s) = f[y] + Sum(s \ {y})
  <2>. DEFINE c == Chosen(s)
              rest == (s \ {c}) \ {y}
  <2>1. c \in s /\ Sum(s) = f[c] + Sum(s \ {c})
    BY <1>2, ChosenIsOne
  <2>. HIDE DEF c
  <2>2. CASE y = c
    BY <2>1, <2>2
  <2>3. CASE y # c
    <3>1. Sum(s \ {c}) = f[y] + Sum(rest)
      BY <1>3, <2>1, <2>3
    <3>2. rest = (s \ {y}) \ {c} /\ c \in s \ {y}
      BY <2>1, <2>3
    <3>3. Sum(s \ {y}) = f[c] + Sum(rest)
      BY <1>3, <3>2
    <3>4. f[c] \in Int /\ f[y] \in Int /\ Sum(rest) \in Int
      BY <1>1, <1>2, <2>1 DEF Numbers
    <3>. HIDE DEF rest
    <3>. QED
      BY <2>1, <3>1, <3>3, <3>4
  <2>. QED
    BY <2>2, <2>3
<1>4. \A s \in SUBSET S : (\A y \in s : s \ {y} \in T) => s \in T
  BY <1>3
<1>5. IsFiniteSet(S)
  BY DEF Numbers
<1>. HIDE DEF T
<1>6. SUBSET S \subseteq T
  BY <1>4, <1>5, Subsets
<1>7. S \in T
  BY <1>6
<1>. QED
  BY <1>7 DEF T, Sum

(* A sum is told by its terms.                                             *)
LEMMA SumsAlike ==
  ASSUME NEW f, NEW S, Numbers(f, S), NEW g, \A x \in S : g[x] = f[x]
  PROVE  SumFunctionOnSet(g, S) = SumFunctionOnSet(f, S)
<1>. DEFINE Sf(s) == SumFunctionOnSet(f, s)
            Sg(s) == SumFunctionOnSet(g, s)
            T == {s \in SUBSET S : Sg(s) = Sf(s)}
<1>1. \A s \in SUBSET S : Numbers(f, s) /\ Numbers(g, s)
  BY FS_Subset DEF Numbers
<1>2. \A s \in SUBSET S :
         /\ s # {} => Sf(s) = f[Chosen(s)] + Sf(s \ {Chosen(s)})
         /\ s # {} => Sg(s) = g[Chosen(s)] + Sg(s \ {Chosen(s)})
         /\ Sf({}) = 0 /\ Sg({}) = 0
  BY <1>1, SumOfChosen
<1>. HIDE DEF Sf, Sg
<1>3. ASSUME NEW s \in SUBSET S, \A y \in s : s \ {y} \in T PROVE s \in T
  <2>1. CASE s = {}
    BY <1>2, <2>1
  <2>2. CASE s # {}
    <3>1. Chosen(s) \in s /\ s \ {Chosen(s)} \in T
      BY <1>3, <2>2, ChosenIsOne
    <3>2. Sg(s \ {Chosen(s)}) = Sf(s \ {Chosen(s)}) /\ g[Chosen(s)] = f[Chosen(s)]
      BY <3>1
    <3>. QED
      BY <1>2, <2>2, <3>2
  <2>. QED
    BY <2>1, <2>2
<1>4. IsFiniteSet(S)
  BY DEF Numbers
<1>. HIDE DEF T
<1>5. SUBSET S \subseteq T
  BY <1>3, <1>4, Subsets
<1>6. S \in T
  BY <1>5
<1>. QED
  BY <1>6 DEF T, Sf, Sg

(* Two sets that have nothing in common.                                   *)
LEMMA SumOfBoth ==
  ASSUME NEW f, NEW A, Numbers(f, A), NEW B, Numbers(f, B), A \cap B = {}
  PROVE  /\ SumFunctionOnSet(f, A \cup B) = SumFunctionOnSet(f, A) + SumFunctionOnSet(f, B)
         /\ Numbers(f, A \cup B)
<1>. DEFINE Sum(s) == SumFunctionOnSet(f, s)
            T == {s \in SUBSET B : Sum(A \cup s) = Sum(A) + Sum(s)}
<1>1. Numbers(f, A \cup B)
  BY FS_Union DEF Numbers
<1>2. \A s \in SUBSET (A \cup B) : Numbers(f, s) /\ Sum(s) \in Int
  BY <1>1, FS_Subset, SumOfChosen DEF Numbers
<1>3. \A s \in SUBSET (A \cup B) : \A x \in s : Sum(s) = f[x] + Sum(s \ {x})
  BY <1>2, SumOfOne
<1>4. Sum({}) = 0
  BY <1>1, SumOfChosen
<1>. HIDE DEF Sum
<1>5. ASSUME NEW s \in SUBSET B, \A y \in s : s \ {y} \in T PROVE s \in T
  <2>1. CASE s = {}
    <3>1. A \cup s = A /\ Sum(A) \in Int
      BY <1>2, <2>1
    <3>. QED
      BY <1>4, <2>1, <3>1
  <2>2. ASSUME NEW x \in s PROVE s \in T
    <3>. DEFINE r == s \ {x}
    <3>1. Sum(A \cup r) = Sum(A) + Sum(r)
      BY <1>5
    <3>2. Sum(s) = f[x] + Sum(r)
      BY <1>3
    <3>3. (A \cup s) \ {x} = A \cup r /\ x \in A \cup s
      OBVIOUS
    <3>4. Sum(A \cup s) = f[x] + Sum(A \cup r)
      BY <1>3, <3>3
    <3>5. f[x] \in Int /\ Sum(A) \in Int /\ Sum(r) \in Int
      BY <1>2 DEF Numbers
    <3>. HIDE DEF r
    <3>. QED
      BY <3>1, <3>2, <3>4, <3>5
  <2>. QED
    BY <2>1, <2>2
<1>6. IsFiniteSet(B)
  BY DEF Numbers
<1>. HIDE DEF T
<1>7. SUBSET B \subseteq T
  BY <1>5, <1>6, Subsets
<1>8. B \in T
  BY <1>7
<1>. QED
  BY <1>1, <1>8 DEF T, Sum

(* Elements sorted into groups: the sums of the groups add up to the sum.  *)
LEMMA SumOfGroups ==
  ASSUME NEW f, NEW S, Numbers(f, S), NEW P, IsFiniteSet(P), NEW k, \A x \in S : k[x] \in P,
         NEW sums, \A p \in P : sums[p] = SumFunctionOnSet(f, {x \in S : k[x] = p})
  PROVE  SumFunctionOnSet(sums, P) = SumFunctionOnSet(f, S)
<1>. DEFINE Sum(s) == SumFunctionOnSet(f, s)
            Up(r) == SumFunctionOnSet(sums, r)
            In(r) == {x \in S : k[x] \in r}
            T == {r \in SUBSET P : Up(r) = Sum(In(r))}
<1>1. \A s \in SUBSET S : Numbers(f, s) /\ Sum(s) \in Int
  BY FS_Subset, SumOfChosen DEF Numbers
<1>2. ASSUME NEW p \in P PROVE sums[p] = Sum(In({p})) /\ sums[p] \in Int
  <2>1. In({p}) = {x \in S : k[x] = p}
    OBVIOUS
  <2>. QED
    BY <1>1, <2>1
<1>3. \A r \in SUBSET P : Numbers(sums, r)
  BY <1>2, FS_Subset DEF Numbers
<1>4. \A r \in SUBSET P : \A p \in r : Up(r) = sums[p] + Up(r \ {p})
  BY <1>3, SumOfOne
<1>5. Up({}) = 0 /\ Sum({}) = 0
  BY <1>1, <1>3, SumOfChosen
<1>6. ASSUME NEW r \in SUBSET P, NEW p \in r
      PROVE  Sum(In(r)) = Sum(In({p})) + Sum(In(r \ {p}))
  <2>1. In(r) = In({p}) \cup In(r \ {p}) /\ In({p}) \cap In(r \ {p}) = {}
    OBVIOUS
  <2>2. Numbers(f, In({p})) /\ Numbers(f, In(r \ {p}))
    BY <1>1
  <2>. DEFINE A == In({p})
              B == In(r \ {p})
  <2>3. Sum(A \cup B) = Sum(A) + Sum(B)
    <3>. HIDE DEF In, A, B
    <3>1. Numbers(f, A) /\ Numbers(f, B) /\ A \cap B = {}
      BY <2>1, <2>2 DEF A, B
    <3>. QED
      BY <3>1, SumOfBoth
  <2>. HIDE DEF In
  <2>. QED
    BY <2>1, <2>3
<1>7. In({}) = {} /\ In(P) = S
  OBVIOUS
<1>. HIDE DEF Sum, Up, In
<1>8. ASSUME NEW r \in SUBSET P, \A p \in r : r \ {p} \in T PROVE r \in T
  <2>1. CASE r = {}
    BY <1>5, <1>7, <2>1
  <2>2. ASSUME NEW p \in r PROVE r \in T
    <3>1. Up(r \ {p}) = Sum(In(r \ {p}))
      BY <1>8
    <3>. QED
      BY <1>2, <1>4, <1>6, <3>1
  <2>. QED
    BY <2>1, <2>2
<1>. HIDE DEF T
<1>9. SUBSET P \subseteq T
  BY <1>8, Subsets
<1>10. P \in T
  BY <1>9
<1>. QED
  BY <1>7, <1>10 DEF T, Up, Sum

(* Counting is adding up ones.                                             *)
LEMMA SumOfOnes ==
  ASSUME NEW S, IsFiniteSet(S), NEW ones, \A x \in S : ones[x] = 1
  PROVE  SumFunctionOnSet(ones, S) = Cardinality(S) /\ Numbers(ones, S)
<1>. DEFINE Sum(s) == SumFunctionOnSet(ones, s)
            T == {s \in SUBSET S : Sum(s) = Cardinality(s)}
<1>1. \A s \in SUBSET S : Numbers(ones, s) /\ IsFiniteSet(s) /\ Cardinality(s) \in Nat
  BY FS_Subset, FS_CardinalityType DEF Numbers
<1>2. \A s \in SUBSET S : \A x \in s : Sum(s) = 1 + Sum(s \ {x})
  <2>1. \A s \in SUBSET S : \A x \in s : Sum(s) = ones[x] + Sum(s \ {x})
    BY <1>1, SumOfOne
  <2>. HIDE DEF Sum
  <2>. QED
    BY <2>1
<1>3. Sum({}) = 0 /\ Cardinality({}) = 0
  BY <1>1, SumOfChosen, FS_EmptySet
<1>. HIDE DEF Sum
<1>4. ASSUME NEW s \in SUBSET S, \A y \in s : s \ {y} \in T PROVE s \in T
  <2>1. CASE s = {}
    BY <1>3, <2>1
  <2>2. ASSUME NEW x \in s PROVE s \in T
    <3>1. Sum(s \ {x}) = Cardinality(s \ {x})
      BY <1>4
    <3>2. Cardinality(s \ {x}) = Cardinality(s) - 1
      BY <1>1, FS_RemoveElement
    <3>. QED
      BY <1>1, <1>2, <3>1, <3>2
  <2>. QED
    BY <2>1, <2>2
<1>. HIDE DEF T
<1>5. SUBSET S \subseteq T
  BY <1>4, Subsets
<1>6. S \in T
  BY <1>5
<1>. QED
  BY <1>1, <1>6 DEF T, Sum

-----------------------------------------------------------------------------
(***************************************************************************)
(* Requests: what starting one does to those that are under way, for any   *)
(* handlers H.                                                             *)
(***************************************************************************)
Rq(H) == INSTANCE Requests WITH Handlers <- H

\* Handler h, idle in q, starts on r, which gives after.
Begins(H, idle, q, h, r, after) ==
    /\ h \in H /\ q[h] = idle /\ idle = Rq(H)!Idle
    /\ after = Rq(H)!Begun(q, h, r)

\* after: the requests, q before, once handler h has started on r.  Apart from
\* alone, those under way stay as they are, and the new one is r.
Started(H, idle, q, h, r, after) ==
    /\ DOMAIN after = H
    /\ \E b : after[h] = [r EXCEPT !.alone = b]
    /\ \A g \in H \ {h} :
          \/ after[g] = q[g]
          \/ q[g] # idle /\ after[g] = [q[g] EXCEPT !.alone = FALSE]

\* This is what Begun does.
LEMMA BegunIs ==
  ASSUME NEW H, NEW idle, NEW q, NEW h, NEW r, NEW after, Begins(H, idle, q, h, r, after)
  PROVE  Started(H, idle, q, h, r, after)
<1>. DEFINE others == {g \in Rq(H)!Busy(q) : q[g].user = r.user}
            mine == [r EXCEPT !.alone = (others = {})]
            met(g) == [q[g] EXCEPT !.alone = FALSE]
<1>1. after = [g \in H |-> CASE g = h -> mine
                             [] g \in others -> met(g)
                             [] OTHER -> q[g]]
  BY DEF Rq!Begun, Begins
<1>2. h \notin others /\ \A g \in others : q[g] # idle
  BY DEF Rq!Busy, Begins
<1>0. h \in H
  BY DEF Begins
<1>. HIDE DEF others, mine, met
<1>3. /\ DOMAIN after = H
      /\ after[h] = mine
      /\ \A g \in H \ {h} :
            after[g] = q[g] \/ (q[g] # idle /\ after[g] = met(g))
  BY <1>0, <1>1, <1>2
<1>. QED
  BY <1>0, <1>3 DEF mine, met, Started

-----------------------------------------------------------------------------
\* Of two requests of one user that are under way neither counts as alone.
Apart(H, idle, q) ==
    \A g, h \in H :
        g # h /\ q[g] # idle /\ q[h] # idle /\ q[g].user = q[h].user => ~q[g].alone

\* The fields that Begun looks at.
Marked(H, idle, q) == \A g \in H : q[g] # idle => {"user", "alone"} \subseteq DOMAIN q[g]

\* Requests that go on, or end, and stay those of their users.
Continued(H, idle, q, after) ==
    \A g \in H :
        after[g] # idle =>
            q[g] # idle /\ after[g].user = q[g].user /\ (after[g].alone => q[g].alone)

\* A request that starts marks those it overlaps, and itself.
LEMMA BegunApart ==
  ASSUME NEW H, NEW idle, NEW q, Apart(H, idle, q), Marked(H, idle, q),
         NEW r, {"user", "alone"} \subseteq DOMAIN r,
         NEW h, NEW after, Begins(H, idle, q, h, r, after)
  PROVE  Apart(H, idle, after)
<1>. DEFINE others == {g \in Rq(H)!Busy(q) : q[g].user = r.user}
            b == (others = {})
            mine == [r EXCEPT !.alone = b]
            met(g) == [q[g] EXCEPT !.alone = FALSE]
<1>1. after = [g \in H |-> CASE g = h -> mine
                             [] g \in others -> met(g)
                             [] OTHER -> q[g]]
  BY DEF Rq!Begun, Begins
<1>2. h \notin others /\ q[h] = idle
  BY DEF Rq!Busy, Begins
<1>3. \A g \in others : met(g).user = q[g].user /\ ~met(g).alone
  BY DEF Marked, Rq!Busy
<1>4. mine.user = r.user /\ (others # {} => ~mine.alone)
  <2>1. mine.user = r.user /\ (mine.alone <=> b)
    <3>. HIDE DEF b
    <3>. QED
      OBVIOUS
  <2>. QED
    BY <2>1
<1>5. \A g \in H : q[g] # idle /\ q[g].user = r.user => g \in others
  BY DEF Rq!Busy, Begins
<1>0. h \in H
  BY DEF Begins
<1>. HIDE DEF others, mine, met
<1>6. /\ after[h] = mine
      /\ \A g \in H \ {h} :
            /\ g \in others => after[g] = met(g)
            /\ g \notin others => after[g] = q[g]
  BY <1>0, <1>1, <1>2
<1>7. \A g \in others : g \in H /\ q[g] # idle /\ q[g].user = r.user
  BY DEF others, Rq!Busy, Begins
<1>. SUFFICES ASSUME NEW g \in H, NEW k \in H, g # k,
                     after[g] # idle, after[k] # idle, after[g].user = after[k].user
              PROVE  ~after[g].alone
  BY DEF Apart
<1>8. CASE g = h
  <2>1. k \in others
    BY <1>3, <1>4, <1>5, <1>6, <1>7, <1>8
  <2>. QED
    BY <1>4, <1>6, <1>8, <2>1
<1>9. CASE k = h
  <2>1. g \in others
    BY <1>3, <1>4, <1>5, <1>6, <1>7, <1>9
  <2>. QED
    BY <1>3, <1>6, <1>9, <2>1
<1>10. CASE g # h /\ k # h
  BY <1>3, <1>6, <1>7, <1>10 DEF Apart
<1>. QED
  BY <1>8, <1>9, <1>10

LEMMA ContinuedApart ==
  ASSUME NEW H, NEW idle, NEW q, Apart(H, idle, q), NEW after, Continued(H, idle, q, after)
  PROVE  Apart(H, idle, after)
BY DEF Apart, Continued

\* Starting ends nobody else's.
LEMMA BegunGoesOn ==
  ASSUME NEW H, NEW idle, NEW q, Marked(H, idle, q),
         NEW r, {"user", "alone"} \subseteq DOMAIN r,
         NEW h, NEW after, Begins(H, idle, q, h, r, after)
  PROVE  /\ Marked(H, idle, after) /\ DOMAIN after = H
         /\ \A g \in H : after[g] = idle <=> g # h /\ q[g] = idle
<1>1. Started(H, idle, q, h, r, after)
  BY BegunIs
<1>2. ASSUME NEW s, {"user", "alone"} \subseteq DOMAIN s, NEW b
      PROVE  {"user", "alone"} \subseteq DOMAIN [s EXCEPT !.alone = b]
  BY <1>2
<1>3. \A s : {"user", "alone"} \subseteq DOMAIN s => s # idle
  BY DEF Rq!Idle, Begins
<1>4. after[h] # idle /\ {"user", "alone"} \subseteq DOMAIN after[h]
  BY <1>1, <1>2, <1>3 DEF Started, Begins
<1>5. ASSUME NEW g \in H \ {h}
      PROVE  /\ after[g] = idle <=> q[g] = idle
             /\ after[g] # idle => {"user", "alone"} \subseteq DOMAIN after[g]
  BY <1>1, <1>2, <1>3 DEF Started, Marked
<1>. QED
  BY <1>1, <1>4, <1>5 DEF Marked, Started, Begins
=============================================================================
