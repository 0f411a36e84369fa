---------------------------- MODULE RulesProofs ----------------------------
(***************************************************************************)
(* The two rule systems of the handler, for every configuration and every  *)
(* response: which label a path requires and what a configuration that     *)
(* serves is known to satisfy (Configuration, Authz), and what becomes of  *)
(* the cookies of an exchange (CookieRules).                               *)
(*                                                                         *)
(* Both are defined with folds over sequences and one sort, so the module  *)
(* starts with induction: a set of numbers has a least member, hence       *)
(* whatever holds of 0 and passes from each number to the next holds up to *)
(* any n.  A fold is the end of a run, the function from the number of     *)
(* elements consumed to the result so far; every fact about Replay,        *)
(* Deciding, Value, Clean and PathLen is an induction along its run.       *)
(***************************************************************************)
EXTENDS Configuration, CookieRules, FiniteSetTheorems, WellFoundedInduction, TLAPS

\* Every leaf is tried with Zenon first, then with the SMT solver, then again.
USE ZenonT(4), SMTT(20), Z3T(20), ZenonT(20)

-----------------------------------------------------------------------------
(* Induction.                                                              *)

\* A set of natural numbers that is not empty has a least member.
LEMMA LeastNatural ==
    ASSUME NEW T, T \subseteq Nat, T # {}
    PROVE  \E n \in T : \A m \in T : n <= m
<1>1. PICK b \in T : TRUE
  OBVIOUS
<1> DEFINE S == 1 .. b
           I == {1 .. k : k \in {m \in T : m <= b}}
<1>2. b \in Nat /\ IsFiniteSet(S)
  BY <1>1, FS_Interval
<1>3. I \subseteq SUBSET S /\ I # {}
  <2>1. \A m \in T : m <= b => 1 .. m \subseteq S
    BY <1>2
  <2> QED BY <1>1, <1>2, <2>1
<1>4. PICK x \in I : \A y \in I : ~(y \subseteq x /\ y # x)
  <2> HIDE DEF I, S
  <2>1. IsWellFoundedOn(StrictSubsetOrdering(S), SUBSET S)
    BY <1>2, FS_FiniteSubsetsOfFinite, FS_StrictSubsetOrderingWellFounded
  <2>2. PICK x \in I : \A y \in I : ~(<<y, x>> \in StrictSubsetOrdering(S))
    BY <1>3, <2>1, WFMin
  <2> QED BY <1>3, <2>2 DEF StrictSubsetOrdering
<1>5. PICK n \in T : n <= b /\ x = 1 .. n
  OBVIOUS
<1>6. ASSUME NEW m \in T, m < n PROVE FALSE
  <2>1. m \in Nat /\ n \in Nat
    OBVIOUS
  <2>2. m <= b /\ 1 .. m \subseteq 1 .. n /\ n \in 1 .. n /\ n \notin 1 .. m
    BY <1>2, <1>5, <1>6, <2>1
  <2>3. 1 .. m \in I
    BY <2>2
  <2> QED BY <1>4, <1>5, <2>2, <2>3
<1> QED BY <1>6

\* Induction on the numbers up to n: the set of those a claim holds for has all
\* of them if it has 0 and each successor.
LEMMA UpTo ==
    ASSUME NEW n \in Nat, NEW T, 0 \in T, \A k \in 0 .. n : k \in T /\ k < n => k + 1 \in T
    PROVE  0 .. n \subseteq T
<1> DEFINE C == {k \in 0 .. n : k \notin T}
<1> SUFFICES ASSUME C # {} PROVE FALSE
  OBVIOUS
<1>1. PICK k \in C : \A m \in C : k <= m
  <2>1. C \subseteq Nat
    OBVIOUS
  <2> HIDE DEF C
  <2> QED BY <2>1, LeastNatural
<1>2. k # 0
  BY <1>1
<1>3. k - 1 \in 0 .. n /\ k - 1 < n /\ (k - 1) + 1 = k /\ ~(k <= k - 1)
  BY <1>2
<1>4. k - 1 \in T
  BY <1>1, <1>3
<1> QED BY <1>1, <1>3, <1>4

\* The last of finitely many positions.
LEMMA LastPosition ==
    ASSUME NEW n \in Nat, NEW s \in SUBSET (1 .. n), s # {}
    PROVE  Max(s) \in s /\ \A i \in s : i <= Max(s)
<1> DEFINE T == {n - i : i \in s}
<1>1. PICK m \in T : \A k \in T : m <= k
  <2>1. \A i \in s : n - i \in Nat
    OBVIOUS
  <2>2. T \subseteq Nat /\ T # {}
    BY <2>1
  <2> HIDE DEF T
  <2> QED BY <2>2, LeastNatural
<1>2. PICK i \in s : m = n - i
  OBVIOUS
<1>3. \A j \in s : n - i <= n - j
  BY <1>1, <1>2
<1>4. \A j \in s : i >= j
  BY <1>3
<1>5. \E x \in s : \A y \in s : x >= y
  BY <1>4
<1>6. Max(s) \in s /\ \A y \in s : Max(s) >= y
  BY <1>5 DEF Max
<1> QED BY <1>6

-----------------------------------------------------------------------------
(* Folds over sequences.  FoldLeft is defined by recursion on the subsets  *)
(* of the positions.                                                       *)

Shorter(s) == s \ {Max(s)}

\* f folds the positions in each subset, last one first, from base by the step G.
Folding(n, T, base, G, f) ==
    /\ f \in [SUBSET (1 .. n) -> T]
    /\ \A s \in SUBSET (1 .. n) : f[s] = IF s = {} THEN base ELSE G[<<f[Shorter(s)], Max(s)>>]

LEMMA ShorterFits ==
    ASSUME NEW k \in Nat, NEW s \in SUBSET (1 .. (k + 1)), s # {}
    PROVE  /\ Shorter(s) \in SUBSET (1 .. k)
           /\ k + 1 \in s => Max(s) = k + 1
           /\ k + 1 \notin s => s \in SUBSET (1 .. k)
<1>1. Max(s) \in s /\ \A i \in s : i <= Max(s)
  BY LastPosition
<1>2. \A i \in s : i \in Nat /\ i <= k + 1 /\ i >= 1
  OBVIOUS
<1>3. ASSUME NEW i \in Shorter(s) PROVE i \in 1 .. k
  <2>1. i \in s /\ i # Max(s)
    BY DEF Shorter
  <2>2. i <= Max(s) /\ Max(s) <= k + 1 /\ i \in Nat /\ Max(s) \in Nat /\ i >= 1
    BY <1>1, <1>2, <2>1
  <2> HIDE DEF Shorter
  <2> QED BY <2>1, <2>2
<1>4. ASSUME k + 1 \in s PROVE Max(s) = k + 1
  <2>1. k + 1 <= Max(s) /\ Max(s) <= k + 1 /\ Max(s) \in Nat
    BY <1>1, <1>2, <1>4
  <2> QED BY <2>1
<1> QED BY <1>2, <1>3, <1>4

LEMMA FoldingExists ==
    ASSUME NEW n \in Nat, NEW T, NEW base \in T, NEW G \in [T \X (1 .. n) -> T]
    PROVE  \E f : Folding(n, T, base, G, f)
<1> DEFINE A == {k \in 0 .. n : \E f : Folding(k, T, base, G, f)}
<1>1. 0 \in A
  <2> DEFINE f == [s \in SUBSET (1 .. 0) |-> base]
  <2>1. \A s \in SUBSET (1 .. 0) : s = {}
    OBVIOUS
  <2>2. Folding(0, T, base, G, f)
    BY <2>1 DEF Folding
  <2> QED BY <2>2
<1>2. ASSUME NEW k \in 0 .. n, k \in A, k < n PROVE k + 1 \in A
  <2>1. PICK g : Folding(k, T, base, G, g)
    BY <1>2
  <2> DEFINE f == [s \in SUBSET (1 .. (k + 1)) |->
                      IF k + 1 \in s THEN G[<<g[Shorter(s)], k + 1>>] ELSE g[s]]
  <2>2. k \in Nat /\ k + 1 \in 0 .. n /\ k + 1 \in 1 .. n
    BY <1>2
  <2>3. ASSUME NEW s \in SUBSET (1 .. (k + 1))
        PROVE  f[s] \in T /\ f[s] = IF s = {} THEN base ELSE G[<<f[Shorter(s)], Max(s)>>]
    <3>1. CASE s = {}
      <4>1. f[s] = g[s] /\ s \in SUBSET (1 .. k)
        BY <3>1
      <4> QED BY <2>1, <3>1, <4>1 DEF Folding
    <3>2. CASE s # {} /\ k + 1 \in s
      <4>1. Shorter(s) \in SUBSET (1 .. k) /\ Max(s) = k + 1 /\ k + 1 \notin Shorter(s)
        BY <2>2, <3>2, ShorterFits DEF Shorter
      <4>2. g[Shorter(s)] \in T /\ f[s] = G[<<g[Shorter(s)], k + 1>>]
        BY <2>1, <3>2, <4>1 DEF Folding
      <4>3. Shorter(s) \in SUBSET (1 .. (k + 1))
        BY DEF Shorter
      <4>4. f[Shorter(s)] = g[Shorter(s)]
        BY <4>1, <4>3
      <4> HIDE DEF f
      <4> QED BY <2>2, <3>2, <4>1, <4>2, <4>4
    <3>3. CASE s # {} /\ k + 1 \notin s
      <4>1. s \in SUBSET (1 .. k)
        BY <2>2, <3>3, ShorterFits
      <4>2. f[s] = g[s] /\ g[s] = G[<<g[Shorter(s)], Max(s)>>] /\ g[s] \in T
        BY <2>1, <3>3, <4>1 DEF Folding
      <4>3. Shorter(s) \in SUBSET (1 .. (k + 1)) /\ k + 1 \notin Shorter(s)
        BY <3>3 DEF Shorter
      <4>4. f[Shorter(s)] = g[Shorter(s)]
        BY <4>3
      <4> HIDE DEF f
      <4> QED BY <3>3, <4>2, <4>4
    <3> QED BY <3>1, <3>2, <3>3
  <2>4. Folding(k + 1, T, base, G, f)
    <3>1. f \in [SUBSET (1 .. (k + 1)) -> T]
      BY <2>3
    <3> HIDE DEF f
    <3> QED BY <2>3, <3>1 DEF Folding
  <2> QED BY <2>2, <2>4
<1>3. 0 .. n \subseteq A
  <2> HIDE DEF A
  <2> QED BY <1>1, <1>2, UpTo
<1> QED BY <1>3

\* Whatever follows a folding step by step is equal to it.
LEMMA FoldingFollowed ==
    ASSUME NEW n \in Nat, NEW f, NEW h, h[{}] = f[{}],
           \A s \in SUBSET (1 .. n) : s # {} /\ h[Shorter(s)] = f[Shorter(s)] => h[s] = f[s]
    PROVE  h[1 .. n] = f[1 .. n]
<1> DEFINE A == {k \in 0 .. n : \A s \in SUBSET (1 .. k) : h[s] = f[s]}
<1>1. 0 \in A
  <2>1. 1 .. 0 = {} /\ 0 \in 0 .. n
    OBVIOUS
  <2>2. \A s \in SUBSET (1 .. 0) : h[s] = f[s]
    <3>1. \A s \in SUBSET (1 .. 0) : s = {}
      BY <2>1
    <3> QED BY <3>1
  <2> QED BY <2>1, <2>2
<1>2. ASSUME NEW k \in 0 .. n, k \in A, k < n PROVE k + 1 \in A
  <2>1. k \in Nat /\ k + 1 \in 0 .. n /\ SUBSET (1 .. (k + 1)) \subseteq SUBSET (1 .. n)
    BY <1>2
  <2>2. ASSUME NEW s \in SUBSET (1 .. (k + 1)), s # {} PROVE h[s] = f[s]
    <3>1. Shorter(s) \in SUBSET (1 .. k)
      BY <2>1, <2>2, ShorterFits
    <3>2. h[Shorter(s)] = f[Shorter(s)]
      BY <1>2, <3>1
    <3> QED BY <2>1, <2>2, <3>2
  <2> QED BY <2>1, <2>2
<1>3. 0 .. n \subseteq A
  <2> HIDE DEF A
  <2> QED BY <1>1, <1>2, UpTo
<1>4. n \in A /\ 1 .. n \in SUBSET (1 .. n)
  BY <1>3
<1> QED BY <1>4

\* The intermediate results of a fold over n elements.
Run(n, T, base, G, e) ==
    /\ e \in [0 .. n -> T]
    /\ e[0] = base
    /\ \A k \in 1 .. n : e[k] = G[<<e[k - 1], k>>]

LEMMA FoldingRuns ==
    ASSUME NEW n \in Nat, NEW T, NEW base, NEW G, NEW f, Folding(n, T, base, G, f)
    PROVE  Run(n, T, base, G, [k \in 0 .. n |-> f[1 .. k]])
<1> DEFINE e == [k \in 0 .. n |-> f[1 .. k]]
<1>1. \A k \in 0 .. n : 1 .. k \in SUBSET (1 .. n)
  OBVIOUS
<1>2. e \in [0 .. n -> T]
  BY <1>1 DEF Folding
<1>3. e[0] = base
  <2>1. 1 .. 0 = {} /\ {} \in SUBSET (1 .. n) /\ 0 \in 0 .. n
    OBVIOUS
  <2> QED BY <2>1 DEF Folding
<1>4. ASSUME NEW k \in 1 .. n PROVE e[k] = G[<<e[k - 1], k>>]
  <2>1. k \in 0 .. n /\ k - 1 \in 0 .. n /\ k - 1 \in Nat /\ (k - 1) + 1 = k /\ k \in 1 .. k
    OBVIOUS
  <2>2. 1 .. k \in SUBSET (1 .. n) /\ 1 .. k # {}
    BY <1>1, <2>1
  <2>3. Max(1 .. k) = k
    <3>1. k - 1 \in Nat /\ 1 .. k \in SUBSET (1 .. ((k - 1) + 1)) /\ (k - 1) + 1 \in 1 .. k
      BY <2>1
    <3>2. Max(1 .. k) = (k - 1) + 1
      BY <2>2, <3>1, ShorterFits
    <3> QED BY <2>1, <3>2
  <2>4. Shorter(1 .. k) = 1 .. (k - 1)
    BY <2>1, <2>3 DEF Shorter
  <2> QED BY <2>1, <2>2, <2>3, <2>4 DEF Folding
<1> QED BY <1>2, <1>3, <1>4 DEF Run

\* The path Clean has built after each segment.
LEMMA CleanRuns ==
    ASSUME NEW path \in Seq(SEG)
    PROVE  \E e \in [0 .. Len(path) -> Seq(SEG)] :
               /\ e[0] = <<>> /\ Clean(path) = e[Len(path)]
               /\ \A k \in 1 .. Len(path) : e[k] = Walk(e[k - 1], path[k])
<1> DEFINE n == Len(path)
           G == [p \in Seq(SEG) \X (1 .. n) |-> Walk(p[1], path[p[2]])]
           P(h) == h = [s \in SUBSET (1 .. n) |->
                           IF s = {} THEN <<>> ELSE Walk(h[s \ {Max(s)}], path[Max(s)])]
<1>1. n \in Nat /\ DOMAIN path = 1 .. n /\ \A i \in 1 .. n : path[i] \in SEG
  OBVIOUS
<1>2. \A t \in Seq(SEG), x \in SEG : Walk(t, x) \in Seq(SEG)
  <2> SUFFICES ASSUME NEW t \in Seq(SEG), NEW x \in SEG PROVE Walk(t, x) \in Seq(SEG)
    OBVIOUS
  <2>1. t # <<>> => Front(t) \in Seq(SEG)
    <3> SUFFICES ASSUME t # <<>> PROVE Front(t) \in Seq(SEG)
      OBVIOUS
    <3>1. Len(t) \in Nat /\ Len(t) >= 1 /\ \A i \in 1 .. Len(t) : t[i] \in SEG
      OBVIOUS
    <3>2. Front(t) = SubSeq(t, 1, Len(t) - 1)
      BY DEF Front
    <3> QED BY <3>1, <3>2
  <2>2. Append(t, x) \in Seq(SEG)
    OBVIOUS
  <2> QED BY <2>1, <2>2 DEF Walk, Popped
<1>3. /\ G \in [Seq(SEG) \X (1 .. n) -> Seq(SEG)]
      /\ \A t \in Seq(SEG), i \in 1 .. n : G[<<t, i>>] = Walk(t, path[i])
  BY <1>1, <1>2
<1> HIDE DEF n, G
<1>4. PICK f : Folding(n, Seq(SEG), <<>>, G, f)
  <2> DEFINE T == Seq(SEG)
             b == <<>>
  <2>1. b \in T /\ G \in [T \X (1 .. n) -> T]
    BY <1>3
  <2> HIDE DEF T, b
  <2>2. \E f : Folding(n, T, b, G, f)
    BY <1>1, <2>1, FoldingExists
  <2> QED BY <2>2 DEF T, b
<1>5. ASSUME NEW s \in SUBSET (1 .. n), s # {}
      PROVE  f[s] = Walk(f[Shorter(s)], path[Max(s)])
  <2>1. Max(s) \in 1 .. n /\ Shorter(s) \in SUBSET (1 .. n)
    BY <1>1, <1>5, LastPosition DEF Shorter
  <2> QED BY <1>3, <1>4, <1>5, <2>1 DEF Folding
<1>6. P(f)
  <2>1. f = [s \in SUBSET (1 .. n) |-> f[s]] /\ f[{}] = <<>>
    BY <1>4 DEF Folding
  <2> QED BY <1>5, <2>1 DEF Shorter
<1>7. ASSUME NEW h, P(h) PROVE h[1 .. n] = f[1 .. n]
  <2>1. h[{}] = <<>> /\ f[{}] = <<>>
    BY <1>4, <1>7 DEF Folding
  <2>2. \A s \in SUBSET (1 .. n) : s # {} => h[s] = Walk(h[Shorter(s)], path[Max(s)])
    BY <1>7 DEF Shorter
  <2>3. h[{}] = f[{}]
    BY <2>1
  <2>4. \A s \in SUBSET (1 .. n) : s # {} /\ h[Shorter(s)] = f[Shorter(s)] => h[s] = f[s]
    BY <1>5, <2>2
  <2> HIDE DEF P
  <2> QED BY <1>1, <2>3, <2>4, FoldingFollowed
<1>8. Clean(path) = (CHOOSE h : P(h))[1 .. n]
  BY <1>1 DEF Clean, FoldLeft, MapThenFoldSet
<1>9. Clean(path) = f[1 .. n]
  <2> HIDE DEF P
  <2> QED BY <1>6, <1>7, <1>8
<1> DEFINE e == [k \in 0 .. n |-> f[1 .. k]]
<1>10. Run(n, Seq(SEG), <<>>, G, e) /\ e[n] = f[1 .. n]
  BY <1>1, <1>4, FoldingRuns
<1> HIDE DEF e
<1>11. \A k \in 1 .. n : e[k] = Walk(e[k - 1], path[k])
  <2>1. \A k \in 1 .. n : k - 1 \in 0 .. n /\ e[k - 1] \in Seq(SEG)
    BY <1>1, <1>10 DEF Run
  <2> QED BY <1>3, <1>10, <2>1 DEF Run
<1> QED BY <1>9, <1>10, <1>11 DEF Run, n

\* The length up to each segment.
LEMMA PathLenRuns ==
    ASSUME NEW path \in Seq(SEG)
    PROVE  \E e \in [0 .. Len(path) -> Nat] :
               /\ e[0] = 0 /\ PathLen(path) = e[Len(path)]
               /\ \A k \in 1 .. Len(path) : e[k] = AddSegment(e[k - 1], path[k])
<1> DEFINE n == Len(path)
           G == [p \in Nat \X (1 .. n) |-> AddSegment(p[1], path[p[2]])]
           P(h) == h = [s \in SUBSET (1 .. n) |->
                           IF s = {} THEN 0 ELSE AddSegment(h[s \ {Max(s)}], path[Max(s)])]
<1>1. n \in Nat /\ DOMAIN path = 1 .. n /\ \A i \in 1 .. n : path[i] \in SEG
  OBVIOUS
<1>2. \A t \in Nat, x \in SEG : AddSegment(t, x) \in Nat
  BY SegmentAssumption DEF AddSegment
<1>3. /\ G \in [Nat \X (1 .. n) -> Nat]
      /\ \A t \in Nat, i \in 1 .. n : G[<<t, i>>] = AddSegment(t, path[i])
  BY <1>1, <1>2
<1> HIDE DEF n, G
<1>4. PICK f : Folding(n, Nat, 0, G, f)
  <2> DEFINE T == Nat
             b == 0
  <2>1. b \in T /\ G \in [T \X (1 .. n) -> T]
    BY <1>3
  <2> HIDE DEF T, b
  <2>2. \E f : Folding(n, T, b, G, f)
    BY <1>1, <2>1, FoldingExists
  <2> QED BY <2>2 DEF T, b
<1>5. ASSUME NEW s \in SUBSET (1 .. n), s # {}
      PROVE  f[s] = AddSegment(f[Shorter(s)], path[Max(s)])
  <2>1. Max(s) \in 1 .. n /\ Shorter(s) \in SUBSET (1 .. n)
    BY <1>1, <1>5, LastPosition DEF Shorter
  <2> QED BY <1>3, <1>4, <1>5, <2>1 DEF Folding
<1>6. P(f)
  <2>1. f = [s \in SUBSET (1 .. n) |-> f[s]] /\ f[{}] = 0
    BY <1>4 DEF Folding
  <2> QED BY <1>5, <2>1 DEF Shorter
<1>7. ASSUME NEW h, P(h) PROVE h[1 .. n] = f[1 .. n]
  <2>1. h[{}] = 0 /\ f[{}] = 0
    BY <1>4, <1>7 DEF Folding
  <2>2. \A s \in SUBSET (1 .. n) : s # {} => h[s] = AddSegment(h[Shorter(s)], path[Max(s)])
    BY <1>7 DEF Shorter
  <2>3. h[{}] = f[{}]
    BY <2>1
  <2>4. \A s \in SUBSET (1 .. n) : s # {} /\ h[Shorter(s)] = f[Shorter(s)] => h[s] = f[s]
    BY <1>5, <2>2
  <2> HIDE DEF P
  <2> QED BY <1>1, <2>3, <2>4, FoldingFollowed
<1>8. PathLen(path) = (CHOOSE h : P(h))[1 .. n]
  BY <1>1 DEF PathLen, FoldLeft, MapThenFoldSet
<1>9. PathLen(path) = f[1 .. n]
  <2> HIDE DEF P
  <2> QED BY <1>6, <1>7, <1>8
<1> DEFINE e == [k \in 0 .. n |-> f[1 .. k]]
<1>10. Run(n, Nat, 0, G, e) /\ e[n] = f[1 .. n]
  BY <1>1, <1>4, FoldingRuns
<1> HIDE DEF e
<1>11. \A k \in 1 .. n : e[k] = AddSegment(e[k - 1], path[k])
  <2>1. \A k \in 1 .. n : k - 1 \in 0 .. n /\ e[k - 1] \in Nat
    BY <1>1, <1>10 DEF Run
  <2> QED BY <1>3, <1>10, <2>1 DEF Run
<1> QED BY <1>9, <1>10, <1>11 DEF Run, n

-----------------------------------------------------------------------------
(* The compiled policy.                                                    *)

\* Some order of n numbers has none before a smaller one.
LEMMA SortingExists ==
    ASSUME NEW n \in Nat, NEW K \in [1 .. n -> Nat]
    PROVE  \E p \in Bijection(1 .. n, 1 .. n) : \A i, j \in 1 .. n : i < j => K[p[i]] >= K[p[j]]
<1> DEFINE sorts(p, k, L) == /\ p \in [1 .. k -> 1 .. k]
                             /\ \A i, j \in 1 .. k : p[i] = p[j] => i = j
                             /\ \A j \in 1 .. k : \E i \in 1 .. k : p[i] = j
                             /\ \A i, j \in 1 .. k : i < j => L[p[i]] >= L[p[j]]
           A == {k \in 0 .. n : \A L \in [1 .. k -> Nat] : \E p : sorts(p, k, L)}
<1>1. 0 \in A
  <2>1. 1 .. 0 = {} /\ 0 \in 0 .. n
    OBVIOUS
  <2>2. ASSUME NEW L PROVE sorts([i \in 1 .. 0 |-> i], 0, L)
    BY <2>1
  <2> HIDE DEF sorts
  <2> QED BY <2>1, <2>2
<1>2. ASSUME NEW k \in 0 .. n, k \in A, k < n PROVE k + 1 \in A
  <2> DEFINE l == k + 1
  <2>1. k \in Nat /\ l \in 0 .. n /\ l \in Nat /\ l \in 1 .. l
    BY <1>2
  <2>2. \A i : i \in 1 .. l <=> i \in 1 .. k \/ i = l
    BY <2>1
  <2>3. l \notin 1 .. k /\ \A i \in 1 .. k : i < l /\ ~(l < i)
    BY <2>1
  <2>4. ASSUME NEW L \in [1 .. l -> Nat] PROVE \E p : sorts(p, l, L)
    <3>1. PICK m \in 1 .. l : \A i \in 1 .. l : L[m] <= L[i]
      <4> DEFINE T == {L[i] : i \in 1 .. l}
      <4>1. T \subseteq Nat /\ T # {}
        BY <2>1
      <4>2. PICK x \in T : \A y \in T : x <= y
        <5> HIDE DEF T
        <5> QED BY <4>1, LeastNatural
      <4> HIDE DEF l
      <4> QED BY <4>2
    <3> HIDE DEF l
    <3> DEFINE sw(i) == IF i = m THEN l ELSE i
               M == [i \in 1 .. k |-> L[sw(i)]]
    <3>2. \A i \in 1 .. k : sw(i) \in 1 .. l /\ sw(i) # m
      BY <2>2, <2>3
    <3>3. \A i, j \in 1 .. k : sw(i) = sw(j) => i = j
      BY <2>3
    <3>4. \A j \in 1 .. l : j # m => \E i \in 1 .. k : sw(i) = j
      BY <2>2, <2>3, <3>1
    <3>5. M \in [1 .. k -> Nat] /\ \A i \in 1 .. k : M[i] = L[sw(i)]
      BY <3>2
    <3> HIDE DEF M, sw
    <3>6. PICK q : sorts(q, k, M)
      BY <1>2, <3>5
    <3> DEFINE p == [i \in 1 .. l |-> IF i = l THEN m ELSE sw(q[i])]
    <3>7. p[l] = m /\ \A i \in 1 .. k : p[i] = sw(q[i]) /\ q[i] \in 1 .. k
      BY <2>1, <2>2, <2>3, <3>6
    <3>8. p \in [1 .. l -> 1 .. l]
      <4>1. \A i \in 1 .. l : p[i] \in 1 .. l
        BY <2>2, <3>1, <3>2, <3>7
      <4> QED BY <4>1
    <3> HIDE DEF p
    <3>9. ASSUME NEW i \in 1 .. l, NEW j \in 1 .. l, p[i] = p[j] PROVE i = j
      <4>1. CASE i \in 1 .. k /\ j \in 1 .. k
        <5>1. q[i] = q[j]
          BY <3>3, <3>7, <3>9, <4>1
        <5> QED BY <3>6, <4>1, <5>1
      <4>2. CASE i = l /\ j \in 1 .. k
        BY <3>2, <3>7, <3>9, <4>2
      <4>3. CASE i \in 1 .. k /\ j = l
        BY <3>2, <3>7, <3>9, <4>3
      <4> QED BY <2>2, <4>1, <4>2, <4>3
    <3>10. ASSUME NEW j \in 1 .. l PROVE \E i \in 1 .. l : p[i] = j
      <4>1. CASE j = m
        BY <2>1, <3>7, <4>1
      <4>2. CASE j # m
        <5>1. PICK x \in 1 .. k : sw(x) = j
          BY <3>4, <4>2
        <5>2. PICK i \in 1 .. k : q[i] = x
          BY <3>6
        <5> QED BY <2>2, <3>7, <5>1, <5>2
      <4> QED BY <4>1, <4>2
    <3>11. ASSUME NEW i \in 1 .. l, NEW j \in 1 .. l, i < j PROVE L[p[i]] >= L[p[j]]
      <4>1. i \in 1 .. k
        <5>1. ~(l < l)
          BY <2>1
        <5>2. i # l
          BY <2>2, <2>3, <3>11, <5>1
        <5> QED BY <2>2, <5>2
      <4>2. CASE j = l
        <5>1. L[m] <= L[p[i]] /\ L[m] \in Nat /\ L[p[i]] \in Nat
          BY <3>1, <3>8
        <5> QED BY <3>7, <4>2, <5>1
      <4>3. CASE j \in 1 .. k
        <5>1. M[q[i]] >= M[q[j]]
          BY <3>6, <3>11, <4>1, <4>3
        <5>2. M[q[i]] = L[p[i]] /\ M[q[j]] = L[p[j]]
          BY <3>5, <3>7, <4>1, <4>3
        <5> QED BY <5>1, <5>2
      <4> QED BY <2>2, <4>2, <4>3
    <3>12. sorts(p, l, L)
      BY <3>8, <3>9, <3>10, <3>11
    <3> HIDE DEF sorts
    <3> QED BY <3>12
  <2> HIDE DEF sorts
  <2> QED BY <2>1, <2>4
<1>3. PICK p : sorts(p, n, K)
  <2>1. 0 .. n \subseteq A
    <3> HIDE DEF A
    <3> QED BY <1>1, <1>2, UpTo
  <2> HIDE DEF sorts
  <2> QED BY <2>1
<1>4. p \in Bijection(1 .. n, 1 .. n)
  BY <1>3 DEF Bijection, Injection, Surjection, IsInjective
<1> QED BY <1>3, <1>4

RulesTyped(a) ==
    /\ a.rules \in Seq(Range(a.rules))
    /\ \A r \in Range(a.rules) : r.path.segs \in Seq(SEG)

RulePath(a, i) == Clean(a.rules[i].path.segs)

LEMMA CleanTyped == ASSUME NEW path \in Seq(SEG) PROVE Clean(path) \in Seq(SEG)
<1>1. PICK e \in [0 .. Len(path) -> Seq(SEG)] : Clean(path) = e[Len(path)]
  BY CleanRuns
<1>2. Len(path) \in 0 .. Len(path)
  OBVIOUS
<1> QED BY <1>1, <1>2

LEMMA PathLenTyped == ASSUME NEW path \in Seq(SEG) PROVE PathLen(path) \in Nat
<1>1. PICK e \in [0 .. Len(path) -> Nat] : PathLen(path) = e[Len(path)]
  BY PathLenRuns
<1>2. Len(path) \in 0 .. Len(path)
  OBVIOUS
<1> QED BY <1>1, <1>2

\* What New compiles: the configured rules, each once, longest path first.
LEMMA CompiledIsSorted ==
    ASSUME NEW a, RulesTyped(a)
    PROVE  \E n \in Nat : \E p \in [1 .. n -> 1 .. n] :
               /\ DOMAIN a.rules = 1 .. n /\ DOMAIN Compiled(a) = 1 .. n
               /\ \A i \in 1 .. n : RulePath(a, i) \in Seq(SEG)
               /\ \A i \in 1 .. n : /\ Compiled(a)[i].path = RulePath(a, p[i])
                                    /\ Compiled(a)[i].label = a.rules[p[i]].label
               /\ \A j \in 1 .. n : \E i \in 1 .. n : p[i] = j
               /\ \A i, j \in 1 .. n :
                      i < j => PathLen(RulePath(a, p[i])) >= PathLen(RulePath(a, p[j]))
<1> DEFINE n == Len(a.rules)
           rules == CleanRules(a)
           K == [i \in 1 .. n |-> PathLen(RulePath(a, i))]
<1>1. n \in Nat /\ DOMAIN a.rules = 1 .. n
  BY DEF RulesTyped
<1>2. \A i \in 1 .. n : RulePath(a, i) \in Seq(SEG)
  <2>1. \A i \in 1 .. n : a.rules[i] \in Range(a.rules)
    BY <1>1 DEF Range
  <2> QED BY <2>1, CleanTyped DEF RulesTyped, RulePath
<1>3. K \in [1 .. n -> Nat] /\ \A i \in 1 .. n : K[i] = PathLen(RulePath(a, i))
  BY <1>2, PathLenTyped
<1>4. /\ DOMAIN rules = 1 .. n
      /\ \A i \in 1 .. n : rules[i].path = RulePath(a, i) /\ rules[i].label = a.rules[i].label
  BY <1>1 DEF CleanRules, RulePath
<1> HIDE DEF n, K
<1>5. PICK b \in Bijection(1 .. n, 1 .. n) : \A i, j \in 1 .. n : i < j => K[b[i]] >= K[b[j]]
  BY <1>1, <1>3, SortingExists
<1>6. \A p \in Bijection(1 .. n, 1 .. n) :
        /\ p \in [1 .. n -> 1 .. n]
        /\ \A j \in 1 .. n : \E i \in 1 .. n : p[i] = j
  BY DEF Bijection, Injection, Surjection
<1>7. \A p \in Bijection(1 .. n, 1 .. n) :
        LongestFirst(p, rules) <=>
            \A i, j \in 1 .. n : i < j => PathLen(RulePath(a, p[i])) >= PathLen(RulePath(a, p[j]))
  <2> SUFFICES ASSUME NEW p \in Bijection(1 .. n, 1 .. n)
               PROVE  LongestFirst(p, rules) <=>
                        \A i, j \in 1 .. n :
                            i < j => PathLen(RulePath(a, p[i])) >= PathLen(RulePath(a, p[j]))
    OBVIOUS
  <2>1. \A i \in 1 .. n : rules[p[i]].path = RulePath(a, p[i])
    BY <1>4, <1>6
  <2> HIDE DEF rules
  <2> QED BY <1>4, <2>1 DEF LongestFirst
<1>8. LongestFirst(b, rules)
  <2>1. \A i \in 1 .. n : K[b[i]] = PathLen(RulePath(a, b[i]))
    BY <1>3, <1>6
  <2> HIDE DEF rules
  <2> QED BY <1>5, <1>7, <2>1
<1> DEFINE p == CHOOSE q \in Bijection(1 .. n, 1 .. n) : LongestFirst(q, rules)
<1>9. p \in Bijection(1 .. n, 1 .. n) /\ LongestFirst(p, rules)
  <2> HIDE DEF rules
  <2> QED BY <1>8
<1>10. Compiled(a) = [i \in 1 .. n |-> rules[p[i]]]
  BY <1>4 DEF Compiled
<1> HIDE DEF p, rules
<1>11. p \in [1 .. n -> 1 .. n] /\ \A i \in 1 .. n : p[i] \in 1 .. n
  BY <1>6, <1>9
<1>12. \A i \in 1 .. n : /\ Compiled(a)[i].path = RulePath(a, p[i])
                         /\ Compiled(a)[i].label = a.rules[p[i]].label
  BY <1>4, <1>10, <1>11
<1>13. DOMAIN Compiled(a) = 1 .. n
  BY <1>10
<1>14. \A j \in 1 .. n : \E i \in 1 .. n : p[i] = j
  BY <1>6, <1>9
<1>15. \A i, j \in 1 .. n : i < j => PathLen(RulePath(a, p[i])) >= PathLen(RulePath(a, p[j]))
  BY <1>7, <1>9
<1> QED BY <1>1, <1>2, <1>11, <1>12, <1>13, <1>14, <1>15

\* A longer prefix of a path is longer as a string.
LEMMA LongerPrefix ==
    ASSUME NEW c \in Seq(SEG), NEW s \in Seq(SEG), NEW t \in Seq(SEG),
           IsPrefix(s, c), IsPrefix(t, c), Len(s) < Len(t)
    PROVE  PathLen(s) < PathLen(t)
<1> DEFINE k == Len(s)
           n == Len(t)
<1>1. k \in Nat /\ n \in Nat /\ k < n
  OBVIOUS
<1>2. \A i \in 1 .. k : s[i] = t[i] /\ t[i] \in SEG
  <2>1. s = SubSeq(s, 1, k) /\ t = SubSeq(t, 1, n)
    OBVIOUS
  <2>2. s = SubSeq(c, 1, k) /\ t = SubSeq(c, 1, n) /\ k <= Len(c) /\ n <= Len(c)
    BY <2>1 DEF IsPrefix
  <2>3. \A i \in 1 .. k : SubSeq(c, 1, k)[i] = c[i]
    BY <1>1, <2>2
  <2>4. \A i \in 1 .. n : SubSeq(c, 1, n)[i] = c[i] /\ c[i] \in SEG
    BY <1>1, <2>2
  <2>5. \A i \in 1 .. k : i \in 1 .. n
    BY <1>1
  <2> QED BY <2>2, <2>3, <2>4, <2>5
<1>3. PICK e \in [0 .. k -> Nat] :
          /\ e[0] = 0 /\ PathLen(s) = e[k]
          /\ \A i \in 1 .. k : e[i] = AddSegment(e[i - 1], s[i])
  BY PathLenRuns
<1>4. PICK g \in [0 .. n -> Nat] :
          /\ g[0] = 0 /\ PathLen(t) = g[n]
          /\ \A i \in 1 .. n : g[i] = AddSegment(g[i - 1], t[i])
  BY PathLenRuns
<1>5. \A i \in 1 .. n : t[i] \in SEG
  OBVIOUS
<1> HIDE DEF k, n
<1> DEFINE A == {i \in 0 .. n : i <= k => e[i] = g[i]}
           B == {i \in 0 .. n : k < i => g[k] < g[i]}
<1>6. 0 \in A /\ 0 \in B
  BY <1>1, <1>3, <1>4
<1>7. ASSUME NEW i \in 0 .. n, i < n
      PROVE  /\ i + 1 \in 1 .. n /\ i + 1 \in 0 .. n /\ (i + 1) - 1 = i /\ t[i + 1] \in SEG
             /\ g[i + 1] = AddSegment(g[i], t[i + 1])
  <2>1. i + 1 \in 1 .. n /\ i + 1 \in 0 .. n /\ (i + 1) - 1 = i
    BY <1>1, <1>7
  <2> QED BY <1>4, <1>5, <2>1
<1>8. ASSUME NEW i \in 0 .. n, i \in A, i < n PROVE i + 1 \in A
  <2>1. CASE i + 1 <= k
    <3>1. i + 1 \in 1 .. k /\ i <= k /\ (i + 1) - 1 = i
      BY <1>1, <2>1
    <3>2. e[i + 1] = AddSegment(e[i], s[i + 1]) /\ s[i + 1] = t[i + 1]
      BY <1>2, <1>3, <3>1
    <3> QED BY <1>7, <1>8, <3>1, <3>2
  <2>2. CASE ~(i + 1 <= k)
    BY <1>7, <1>8, <2>2
  <2> QED BY <2>1, <2>2
<1>9. ASSUME NEW i \in 0 .. n, i \in B, i < n PROVE i + 1 \in B
  <2>1. g[i] \in Nat /\ g[i + 1] = g[i] + 1 + Len(t[i + 1]) /\ Len(t[i + 1]) \in Nat
    BY <1>7, <1>9, SegmentAssumption DEF AddSegment
  <2>2. g[i] < g[i + 1] /\ g[i + 1] \in Nat
    BY <2>1
  <2>3. CASE k < i
    <3>1. g[k] < g[i] /\ g[k] \in Nat
      <4>1. k \in 0 .. n
        BY <1>1
      <4> QED BY <1>4, <1>9, <2>3, <4>1
    <3>2. g[k] < g[i + 1]
      BY <2>1, <2>2, <3>1
    <3> QED BY <1>7, <1>9, <3>2
  <2>4. CASE k = i
    BY <1>7, <1>9, <2>2, <2>4
  <2>5. CASE i < k
    <3>1. ~(k < i + 1)
      BY <1>1, <2>5
    <3> QED BY <1>7, <1>9, <3>1
  <2> QED BY <1>1, <2>3, <2>4, <2>5
<1>10. 0 .. n \subseteq A /\ 0 .. n \subseteq B
  <2> HIDE DEF A, B
  <2> QED BY <1>1, <1>6, <1>8, <1>9, UpTo
<1>11. e[k] = g[k] /\ g[k] < g[n]
  <2>1. k \in 0 .. n /\ n \in 0 .. n /\ k <= k
    BY <1>1
  <2>2. k \in A /\ n \in B
    BY <1>10, <2>1
  <2> QED BY <1>1, <2>1, <2>2
<1> QED BY <1>3, <1>4, <1>11

\* The first of finitely many positions.
LEMMA FirstPosition ==
    ASSUME NEW n \in Nat, NEW s \in SUBSET (1 .. n), s # {}
    PROVE  Min(s) \in s /\ \A i \in s : Min(s) <= i
<1>1. s \subseteq Nat
  OBVIOUS
<1>2. \E x \in s : \A y \in s : x <= y
  BY <1>1, LeastNatural
<1> QED BY <1>2 DEF Min

\* A path requires the label of a rule or the default.
LEMMA RequiredIsUsed ==
    ASSUME NEW a, RulesTyped(a), NEW path
    PROVE  Required(a, path) \in UsedLabels(a)
<1>1. PICK n \in Nat : \E p \in [1 .. n -> 1 .. n] :
        /\ DOMAIN a.rules = 1 .. n /\ DOMAIN Compiled(a) = 1 .. n
        /\ \A i \in 1 .. n : Compiled(a)[i].label = a.rules[p[i]].label
  BY CompiledIsSorted
<1>2. PICK p \in [1 .. n -> 1 .. n] :
        /\ DOMAIN a.rules = 1 .. n /\ DOMAIN Compiled(a) = 1 .. n
        /\ \A i \in 1 .. n : Compiled(a)[i].label = a.rules[p[i]].label
  BY <1>1
<1> DEFINE matching == {i \in DOMAIN Compiled(a) : IsPrefix(Compiled(a)[i].path, Clean(path))}
<1>3. Required(a, path) = IF matching = {} THEN DefaultLabel(a)
                                           ELSE Compiled(a)[Min(matching)].label
  BY DEF Required
<1>4. CASE matching = {}
  BY <1>3, <1>4 DEF UsedLabels
<1>5. CASE matching # {}
  <2>1. matching \in SUBSET (1 .. n)
    BY <1>2
  <2> HIDE DEF matching
  <2>2. Min(matching) \in 1 .. n
    BY <1>5, <2>1, FirstPosition
  <2>3. p[Min(matching)] \in DOMAIN a.rules
    BY <1>2, <2>2
  <2> QED BY <1>2, <1>3, <1>5, <2>2, <2>3 DEF UsedLabels
<1> QED BY <1>4, <1>5

\* The first compiled rule that covers a path is the one with the most segments.
LEMMA FirstIsMostSpecific ==
    ASSUME NEW a, RulesTyped(a), RulesWellFormed(a), NEW path \in Seq(SEG)
    PROVE  Required(a, path) = MostSpecific(a, path)
<1> DEFINE c == Clean(path)
           R == Compiled(a)
           seg(i) == Len(RulePath(a, i))
<1>1. PICK n \in Nat : \E p \in [1 .. n -> 1 .. n] :
        /\ DOMAIN a.rules = 1 .. n /\ DOMAIN R = 1 .. n
        /\ \A i \in 1 .. n : RulePath(a, i) \in Seq(SEG)
        /\ \A i \in 1 .. n : R[i].path = RulePath(a, p[i]) /\ R[i].label = a.rules[p[i]].label
        /\ \A j \in 1 .. n : \E i \in 1 .. n : p[i] = j
        /\ \A i, j \in 1 .. n : i < j => PathLen(RulePath(a, p[i])) >= PathLen(RulePath(a, p[j]))
  BY CompiledIsSorted
<1>2. PICK p \in [1 .. n -> 1 .. n] :
        /\ DOMAIN a.rules = 1 .. n /\ DOMAIN R = 1 .. n
        /\ \A i \in 1 .. n : RulePath(a, i) \in Seq(SEG)
        /\ \A i \in 1 .. n : R[i].path = RulePath(a, p[i]) /\ R[i].label = a.rules[p[i]].label
        /\ \A j \in 1 .. n : \E i \in 1 .. n : p[i] = j
        /\ \A i, j \in 1 .. n : i < j => PathLen(RulePath(a, p[i])) >= PathLen(RulePath(a, p[j]))
  BY <1>1
<1>3. c \in Seq(SEG)
  BY CleanTyped
<1>4. \A i, j \in 1 .. n : RulePath(a, i) = RulePath(a, j) => i = j
  BY <1>2 DEF RulesWellFormed, RulePath
<1> DEFINE matching == {i \in DOMAIN R : IsPrefix(R[i].path, c)}
           covering == {i \in DOMAIN a.rules : IsPrefix(RulePath(a, i), c)}
           top == CHOOSE i \in covering : \A j \in covering : seg(i) >= seg(j)
<1>5. Required(a, path) = IF matching = {} THEN DefaultLabel(a) ELSE R[Min(matching)].label
  BY DEF Required
<1>6. MostSpecific(a, path) = IF covering = {} THEN DefaultLabel(a) ELSE a.rules[top].label
  BY DEF MostSpecific, RulePath
<1>7. /\ matching \in SUBSET (1 .. n) /\ covering \in SUBSET (1 .. n)
      /\ \A i \in 1 .. n : i \in matching <=> p[i] \in covering
      /\ \A i \in covering : IsPrefix(RulePath(a, i), c) /\ RulePath(a, i) \in Seq(SEG)
  BY <1>2
<1> HIDE DEF c, R, matching, covering
<1>8. CASE covering = {}
  <2>1. matching = {}
    BY <1>7, <1>8
  <2> QED BY <1>5, <1>6, <1>8, <2>1
<1>9. CASE covering # {}
  <2>1. matching # {}
    BY <1>2, <1>7, <1>9
  <2> DEFINE first == Min(matching)
             best == p[first]
  <2>2. first \in matching /\ \A i \in matching : first <= i
    BY <1>7, <2>1, FirstPosition
  <2>3. first \in 1 .. n /\ best \in covering /\ best \in 1 .. n
    BY <1>7, <2>2
  <2> HIDE DEF first, best
  <2>4. ASSUME NEW j \in covering PROVE seg(best) >= seg(j)
    <3>1. PICK i \in 1 .. n : p[i] = j /\ i \in matching
      BY <1>2, <1>7
    <3>2. PathLen(RulePath(a, best)) >= PathLen(RulePath(a, j))
      <4>1. CASE first = i
        <5>1. best = j
          BY <3>1, <4>1 DEF best
        <5>2. PathLen(RulePath(a, j)) \in Nat
          BY <1>7, PathLenTyped
        <5> QED BY <5>1, <5>2
      <4>2. CASE first < i
        BY <1>2, <2>3, <3>1, <4>2 DEF best
      <4> QED BY <2>2, <2>3, <3>1, <4>1, <4>2
    <3>3. ~(seg(best) < seg(j))
      <4> SUFFICES ASSUME seg(best) < seg(j) PROVE FALSE
        OBVIOUS
      <4>1. PathLen(RulePath(a, best)) < PathLen(RulePath(a, j))
        BY <1>3, <1>7, <2>3, LongerPrefix
      <4>2. PathLen(RulePath(a, best)) \in Nat /\ PathLen(RulePath(a, j)) \in Nat
        BY <1>7, <2>3, PathLenTyped
      <4> QED BY <3>2, <4>1, <4>2
    <3>4. seg(best) \in Nat /\ seg(j) \in Nat
      BY <1>7, <2>3
    <3> QED BY <3>3, <3>4
  <2>5. top \in covering /\ \A j \in covering : seg(top) >= seg(j)
    <3> HIDE DEF seg
    <3> QED BY <2>3, <2>4
  <2> HIDE DEF top
  <2>6. top = best
    <3>1. seg(top) = seg(best)
      <4>1. seg(best) \in Nat /\ seg(top) \in Nat
        BY <1>7, <2>3, <2>5
      <4> QED BY <2>3, <2>4, <2>5, <4>1
    <3>2. ASSUME NEW i \in covering
          PROVE  RulePath(a, i) = SubSeq(c, 1, seg(i))
      <4>1. RulePath(a, i) \in Seq(SEG)
        BY <1>7
      <4>2. RulePath(a, i) = SubSeq(RulePath(a, i), 1, seg(i))
        BY <4>1
      <4> QED BY <1>7, <4>2 DEF IsPrefix
    <3>3. RulePath(a, top) = RulePath(a, best)
      <4> HIDE DEF seg
      <4> QED BY <2>3, <2>5, <3>1, <3>2
    <3> QED BY <1>4, <1>7, <2>3, <2>5, <3>3
  <2> QED BY <1>2, <1>5, <1>6, <1>9, <2>1, <2>3, <2>6 DEF best, first
<1> QED BY <1>8, <1>9

-----------------------------------------------------------------------------
(* Configurations.                                                         *)

Rule == {d.arg : d \in {x \in Directives : x.opt = "require" /\ x.arg # Bad}}

Fields == {"inactive_timeout", "final_timeout", "rotate_interval", "rotate_on_login", "authz"}

PolicyTyped(a) == DOMAIN a = {"rules", "default", "endpoints"} /\ a.rules \in Seq(Rule)

\* What the directives read so far can have made of the configuration.
ConfTyped(c) ==
    /\ Fields \subseteq DOMAIN c
    /\ c.inactive_timeout \in Int /\ c.final_timeout \in Int /\ c.rotate_interval \in Int
    /\ c.rotate_on_login \in {None, "true", "false"}
    /\ c.authz # None => PolicyTyped(c.authz)

LEMMA ConfInitTyped == ConfigInit => ConfTyped(conf)
<1>1. ConfTyped(ZeroHandler)
  BY DEF ConfTyped, Fields, ZeroHandler
<1>2. ConfTyped(CaddyfileDefaults)
  BY DEF ConfTyped, Fields, ZeroHandler, CaddyfileDefaults
<1> QED BY <1>1, <1>2 DEF ConfigInit

LEMMA PolicyRulesTyped == ASSUME NEW a, PolicyTyped(a) PROVE RulesTyped(a)
<1>1. a.rules \in Seq(Rule) /\ DOMAIN a.rules = 1 .. Len(a.rules) /\ Len(a.rules) \in Nat
  BY DEF PolicyTyped
<1>2. \A i \in DOMAIN a.rules : a.rules[i] \in Range(a.rules)
  BY DEF Range
<1>3. a.rules \in Seq(Range(a.rules))
  BY <1>1, <1>2
<1>4. \A r \in Rule : r.path.segs \in Seq(SEG)
  BY ConfigAssumption DEF Rule
<1>5. Range(a.rules) \subseteq Rule
  BY <1>1 DEF Range
<1> QED BY <1>3, <1>4, <1>5 DEF RulesTyped

\* The authorization block, with or without rules so far.
LEMMA BlockTyped == ASSUME ConfTyped(conf) PROVE PolicyTyped(Block)
<1>1. PolicyTyped(NoRules)
  BY DEF PolicyTyped, NoRules
<1> QED BY <1>1 DEF Block, ConfTyped

\* A new block touches no other option.
LEMMA NewPolicy ==
    ASSUME NEW a, ConfTyped(conf), PolicyTyped(a)
    PROVE  ConfTyped([conf EXCEPT !.authz = a])
<1> DEFINE c == [conf EXCEPT !.authz = a]
<1>1. /\ DOMAIN c = DOMAIN conf /\ c.authz = a
      /\ c.inactive_timeout = conf.inactive_timeout /\ c.final_timeout = conf.final_timeout
      /\ c.rotate_interval = conf.rotate_interval /\ c.rotate_on_login = conf.rotate_on_login
  BY DEF ConfTyped, Fields
<1> HIDE DEF c
<1>2. ConfTyped(c)
  BY <1>1 DEF ConfTyped
<1> QED BY <1>2 DEF c

LEMMA ApplyTyped ==
    ASSUME ConfTyped(conf), NEW d \in Directives, d.arg # Bad
    PROVE  ConfTyped(Apply(d))
<1>1. CASE d.opt \in {"forward", "store"}
  <2> DEFINE x == conf[d.opt] \union d.arg
             c == [conf EXCEPT ![d.opt] = x]
  <2>1. Apply(d) = c
    BY <1>1 DEF Apply
  <2>2. d.opt \notin Fields
    BY <1>1 DEF Fields
  <2> HIDE DEF x
  <2>3. DOMAIN c = DOMAIN conf /\ \A f \in Fields : c[f] = conf[f]
    BY <2>2 DEF ConfTyped
  <2> HIDE DEF c
  <2> QED BY <2>1, <2>3 DEF ConfTyped, Fields
<1>2. CASE d.opt = "authz"
  <2>1. Apply(d) = [conf EXCEPT !.authz = Block]
    BY <1>2 DEF Apply
  <2> QED BY <2>1, BlockTyped, NewPolicy
<1>3. CASE d.opt = "require"
  <2> DEFINE r == Append(Block.rules, d.arg)
             a == [Block EXCEPT !.rules = r]
  <2>1. Apply(d) = [conf EXCEPT !.authz = a]
    BY <1>3 DEF Apply
  <2>2. d.arg \in Rule
    BY <1>3 DEF Rule
  <2>3. r \in Seq(Rule)
    BY <2>2, BlockTyped DEF PolicyTyped
  <2> HIDE DEF r
  <2>4. PolicyTyped(a)
    BY <2>3, BlockTyped DEF PolicyTyped
  <2> QED BY <2>1, <2>4, NewPolicy
<1>4. CASE d.opt = "require_default"
  <2> DEFINE a == [Block EXCEPT !.default = d.arg]
  <2>1. Apply(d) = [conf EXCEPT !.authz = a]
    BY <1>4 DEF Apply
  <2>2. PolicyTyped(a)
    BY BlockTyped DEF PolicyTyped
  <2> QED BY <2>1, <2>2, NewPolicy
<1>5. CASE d.opt = "auth_endpoint"
  <2> DEFINE x == (d.arg.label :> d.arg.path) @@ Block.endpoints
             a == [Block EXCEPT !.endpoints = x]
  <2>1. Apply(d) = [conf EXCEPT !.authz = a]
    BY <1>5 DEF Apply
  <2> HIDE DEF x
  <2>2. PolicyTyped(a)
    BY BlockTyped DEF PolicyTyped
  <2> QED BY <2>1, <2>2, NewPolicy
<1>6. CASE d.opt \notin {"forward", "store", "authz", "require", "require_default", "auth_endpoint"}
  <2> DEFINE c == [conf EXCEPT ![d.opt] = d.arg]
  <2>1. Apply(d) = c
    BY <1>6 DEF Apply
  <2>2. DOMAIN c = DOMAIN conf /\ \A f \in Fields : c[f] = IF f = d.opt THEN d.arg ELSE conf[f]
    BY DEF ConfTyped
  <2>3. /\ d.opt \in Durations => d.arg \in Int
        /\ d.opt = "rotate_on_login" => d.arg \in {"true", "false"}
    BY ConfigAssumption
  <2> HIDE DEF c
  <2>4. c.inactive_timeout \in Int /\ c.final_timeout \in Int /\ c.rotate_interval \in Int
    BY <2>2, <2>3 DEF Durations, Fields, ConfTyped
  <2>5. c.rotate_on_login \in {None, "true", "false"} /\ c.authz = conf.authz
    BY <1>6, <2>2, <2>3 DEF Fields, ConfTyped
  <2> QED BY <2>1, <2>2, <2>4, <2>5 DEF ConfTyped
<1> QED BY <1>1, <1>2, <1>3, <1>4, <1>5, <1>6

\* The checks that Provision and Validate made still hold of what is served.
Checked ==
    /\ stage \in {"provisioned", "serving"} => eff = Effective
    /\ stage = "serving" => HeadersOK /\ SameSiteOK /\ DurationsOK /\ PolicyBuilds

\* A client that was sent elsewhere was sent once, for want of a label that the
\* policy in force can require.
ClientInv ==
    \/ client = NoClient
    \/ /\ stage = "serving" /\ conf.authz # None
       /\ client.hops = 1
       /\ client.lacks \in UsedLabels(conf.authz) \ {Anonymous}

ConfigInv == ConfTyped(conf) /\ Checked /\ ClientInv

LEMMA ConfigInitInv == ConfigInit => ConfigInv
<1> SUFFICES ASSUME ConfigInit PROVE ConfigInv
  OBVIOUS
<1>1. Checked
  BY DEF ConfigInit, Checked
<1>2. ClientInv
  BY DEF ConfigInit, ClientInv
<1> QED BY <1>1, <1>2, ConfInitTyped DEF ConfigInv

\* What Provision and Validate derive depends on the configuration alone.
LEMMA SameConfiguration ==
    conf' = conf => /\ Effective' = Effective
                    /\ HeadersOK => HeadersOK'
                    /\ SameSiteOK => SameSiteOK'
                    /\ PolicyBuilds => PolicyBuilds'
                    /\ eff' = eff => (DurationsOK => DurationsOK')
<1> SUFFICES ASSUME conf' = conf
             PROVE  /\ Effective' = Effective
                    /\ HeadersOK => HeadersOK'
                    /\ SameSiteOK => SameSiteOK'
                    /\ PolicyBuilds => PolicyBuilds'
                    /\ eff' = eff => (DurationsOK => DurationsOK')
  OBVIOUS
<1>1. Effective' = Effective
  BY DEF Effective
<1>2. HeadersOK => HeadersOK'
  <2> DEFINE names == <<conf.identity_header,
                        Validated(conf.rotate_header, defaultRotateHeader),
                        Validated(conf.revoke_header, defaultRevokeHeader),
                        OrDefault(conf.labels_header, Word(""), defaultLabelsHeader)>>
             distinct(n) == \A i, j \in DOMAIN n : i < j => ~EqualFold(n[i], n[j])
  <2>1. names' = names
    OBVIOUS
  <2>2. (HeadersOK <=> distinct(names)) /\ (HeadersOK' <=> distinct(names'))
    BY DEF HeadersOK
  <2> HIDE DEF distinct, names
  <2> QED BY <2>1, <2>2
<1>3. SameSiteOK => SameSiteOK'
  BY DEF SameSiteOK
<1>4. PolicyBuilds => PolicyBuilds'
  BY DEF PolicyBuilds
<1>5. eff' = eff => (DurationsOK => DurationsOK')
  BY DEF DurationsOK
<1> QED BY <1>1, <1>2, <1>3, <1>4, <1>5

\* No step once the configuration is read changes it or undoes a check.
LEMMA CheckedStep == ASSUME Checked, [ConfigNext]_configVars PROVE Checked'
<1> USE DEF Checked
<1>1. ASSUME NEW d \in Directives, ReadDirective(d) PROVE Checked'
  <2>1. stage' \in {"refused", "reading"}
    BY <1>1 DEF ReadDirective
  <2> QED BY <2>1
<1>2. CASE EndOfConfig
  BY <1>2 DEF EndOfConfig
<1>3. CASE Provision
  <2>1. conf' = conf /\ stage' \in {"provisioned", "refused"}
        /\ (stage' = "provisioned" => eff' = Effective)
    BY <1>3 DEF Provision
  <2> QED BY <2>1, SameConfiguration
<1>4. CASE Validate
  <2>1. /\ conf' = conf /\ eff' = eff /\ stage = "provisioned" /\ stage' \in {"serving", "refused"}
        /\ stage' = "serving" => HeadersOK /\ SameSiteOK /\ DurationsOK /\ PolicyBuilds
    BY <1>4 DEF Validate
  <2> QED BY <2>1, SameConfiguration
<1>5. CASE Visit \/ FollowRedirect \/ UNCHANGED configVars
  <2>1. conf' = conf /\ eff' = eff /\ stage' = stage
    BY <1>5 DEF Visit, FollowRedirect, configVars
  <2> QED BY <2>1, SameConfiguration
<1> QED BY <1>1, <1>2, <1>3, <1>4, <1>5 DEF ConfigNext

\* Every directive keeps the options typed, and nothing else writes them.
LEMMA TypedStep == ASSUME ConfTyped(conf), [ConfigNext]_configVars PROVE ConfTyped(conf')
<1>1. ASSUME NEW d \in Directives, ReadDirective(d) PROVE ConfTyped(conf')
  <2>1. CASE d.arg = Bad
    BY <1>1, <2>1 DEF ReadDirective
  <2>2. CASE d.arg # Bad
    <3>1. conf' = Apply(d)
      BY <1>1, <2>2 DEF ReadDirective
    <3> QED BY <2>2, <3>1, ApplyTyped
  <2> QED BY <2>1, <2>2
<1>2. CASE EndOfConfig \/ Provision \/ Validate \/ Visit \/ FollowRedirect \/ UNCHANGED configVars
  <2>1. conf' = conf
    BY <1>2 DEF EndOfConfig, Provision, Validate, Visit, FollowRedirect, configVars
  <2> QED BY <2>1
<1> QED BY <1>1, <1>2 DEF ConfigNext

\* The label a served policy requires has an endpoint, unless it is anonymous.
LEMMA RequiredHasEndpoint ==
    ASSUME ConfTyped(conf), Checked, stage = "serving", conf.authz # None
    PROVE  /\ \A path : Required(conf.authz, path) \in UsedLabels(conf.authz)
           /\ UsedLabels(conf.authz) \ {Anonymous} \subseteq DOMAIN conf.authz.endpoints
           /\ \A label \in DOMAIN conf.authz.endpoints :
                  Required(conf.authz, conf.authz.endpoints[label].segs) = Anonymous
<1>1. RulesTyped(conf.authz)
  BY PolicyRulesTyped DEF ConfTyped
<1>2. \A path : Required(conf.authz, path) \in UsedLabels(conf.authz)
  BY <1>1, RequiredIsUsed
<1>3. Accepts(conf.authz)
  BY DEF Checked, PolicyBuilds
<1> QED BY <1>2, <1>3 DEF Accepts

\* A redirected client is served at its next request; a first one is sent away
\* with a label of the policy.
LEMMA ClientStep == ASSUME ConfigInv, [ConfigNext]_configVars PROVE ClientInv'
<1> USE DEF ConfigInv
<1>1. CASE (\E d \in Directives : ReadDirective(d)) \/ EndOfConfig \/ Provision \/ Validate
  <2>1. client' = client /\ stage # "serving"
    BY <1>1 DEF ReadDirective, EndOfConfig, Provision, Validate
  <2>2. client = NoClient
    BY <2>1 DEF ClientInv
  <2> QED BY <2>1, <2>2 DEF ClientInv, NoClient
<1>2. CASE Visit
  <2>1. /\ stage = "serving" /\ conf.authz # None /\ client = NoClient
        /\ stage' = stage /\ conf' = conf
    BY <1>2 DEF Visit
  <2>2. PICK path \in PATHS, granted \in Grants : Authorize(path, granted)
    BY <1>2 DEF Visit
  <2> DEFINE required == Required(conf.authz, path)
  <2>3. \/ client' = NoClient
        \/ required # Anonymous /\ client' = [hops |-> 0 + 1, lacks |-> required]
    BY <2>1, <2>2 DEF Authorize, NoClient
  <2>4. required \in UsedLabels(conf.authz)
    BY <2>1, RequiredHasEndpoint
  <2> HIDE DEF required
  <2> QED BY <2>1, <2>3, <2>4 DEF ClientInv, NoClient
<1>3. CASE FollowRedirect
  <2>1. client.lacks # None
    BY <1>3 DEF FollowRedirect
  <2>2. /\ stage = "serving" /\ conf.authz # None
        /\ client.lacks \in UsedLabels(conf.authz) \ {Anonymous}
    BY <2>1 DEF ClientInv, NoClient
  <2> DEFINE path == conf.authz.endpoints[client.lacks].segs
  <2>3. Required(conf.authz, path) = Anonymous
    BY <2>2, RequiredHasEndpoint
  <2>4. PICK granted \in Grants : Authorize(path, granted)
    BY <1>3 DEF FollowRedirect
  <2> HIDE DEF path
  <2>5. client' = NoClient
    BY <2>3, <2>4 DEF Authorize
  <2> QED BY <2>5 DEF ClientInv, NoClient
<1>4. CASE UNCHANGED configVars
  BY <1>4 DEF configVars, ClientInv, NoClient
<1> QED BY <1>1, <1>2, <1>3, <1>4 DEF ConfigNext

LEMMA ConfigInvariant == ConfigSpec => []ConfigInv
<1>1. ConfigInv /\ [ConfigNext]_configVars => ConfigInv'
  BY CheckedStep, TypedStep, ClientStep DEF ConfigInv
<1> QED BY <1>1, ConfigInitInv, PTL DEF ConfigSpec

-----------------------------------------------------------------------------
\* The name Provision resolves is the name Validate compared.
LEMMA ResolvedIsValidated ==
    ASSUME NEW h, NEW default
    PROVE  Resolved(h, default).name = Validated(h, default)
BY DEF Resolved, Validated

\* In a configuration that serves no two of the four control headers have the
\* same name, however they are spelled and whichever triggers are off.
THEOREM ConfigControlHeadersDistinct == ConfigSpec => []ControlHeadersDistinct
<1>1. ConfigInv => ControlHeadersDistinct
  <2> SUFFICES ASSUME Checked, stage = "serving" PROVE ControlHeadersDistinct
    BY DEF ControlHeadersDistinct, Serving, ConfigInv
  <2>1. /\ eff.rotate.name = Validated(conf.rotate_header, defaultRotateHeader)
        /\ eff.revoke.name = Validated(conf.revoke_header, defaultRevokeHeader)
        /\ eff.labels = OrDefault(conf.labels_header, Word(""), defaultLabelsHeader)
    <3>1. eff = Effective
      BY DEF Checked
    <3>2. /\ Effective.rotate = Resolved(conf.rotate_header, defaultRotateHeader)
          /\ Effective.revoke = Resolved(conf.revoke_header, defaultRevokeHeader)
          /\ Effective.labels = OrDefault(conf.labels_header, Word(""), defaultLabelsHeader)
      BY DEF Effective
    <3> QED BY <3>1, <3>2, ResolvedIsValidated
  <2>2. HeadersOK
    BY DEF Checked
  <2> DEFINE names == <<conf.identity_header,
                        Validated(conf.rotate_header, defaultRotateHeader),
                        Validated(conf.revoke_header, defaultRevokeHeader),
                        OrDefault(conf.labels_header, Word(""), defaultLabelsHeader)>>
  <2>3. \A i, j \in DOMAIN names : i < j => ~EqualFold(names[i], names[j])
    BY <2>2 DEF HeadersOK
  <2>4. DOMAIN names = 1 .. 4
    OBVIOUS
  <2> HIDE DEF names
  <2>5. \A i, j \in DOMAIN names : i # j => ~EqualFold(names[i], names[j])
    BY <2>3, <2>4 DEF EqualFold
  <2> QED BY <2>1, <2>5 DEF ControlHeadersDistinct, names
<1> QED BY <1>1, ConfigInvariant, PTL

\* A configuration that serves never sends a SameSite=None cookie without
\* Secure, however the mode is spelled.
THEOREM ConfigProxyCookieAccepted == ConfigSpec => []ProxyCookieAccepted
<1>1. ConfigInv => ProxyCookieAccepted
  BY DEF ConfigInv, Checked, ProxyCookieAccepted, Serving, ProxySameSite, SameSiteOK
<1> QED BY <1>1, ConfigInvariant, PTL

\* No sequence of directives yields a served configuration with a timeout that
\* is not positive, or with a protection off that no directive turned off.
THEOREM ConfigNothingOffByAccident == ConfigSpec => []NothingOffByAccident
<1>1. ConfigInv => NothingOffByAccident
  <2> SUFFICES ASSUME ConfTyped(conf), Checked, stage = "serving" PROVE NothingOffByAccident
    BY DEF NothingOffByAccident, Serving, ConfigInv
  <2> DEFINE kept == conf.rotate_on_login = None \/ conf.rotate_on_login = "true"
  <2>1. eff = Effective
    BY DEF Checked
  <2>2. /\ eff.inactive = OrDefault(conf.inactive_timeout, 0, 1800)
        /\ eff.final = OrDefault(conf.final_timeout, 0, 28800)
        /\ eff.rotate = Resolved(conf.rotate_header, defaultRotateHeader)
        /\ eff.revoke = Resolved(conf.revoke_header, defaultRevokeHeader)
    <3>1. /\ Effective.inactive = OrDefault(conf.inactive_timeout, 0, 1800)
          /\ Effective.final = OrDefault(conf.final_timeout, 0, 28800)
          /\ Effective.rotate = Resolved(conf.rotate_header, defaultRotateHeader)
          /\ Effective.revoke = Resolved(conf.revoke_header, defaultRevokeHeader)
      BY DEF Effective
    <3> QED BY <2>1, <3>1
  <2>3. eff.rotateOnLogin = kept
    <3>1. Effective.rotateOnLogin = kept
      BY DEF Effective
    <3> QED BY <2>1, <3>1
  <2>4. eff.inactive > 0 /\ eff.final > 0 /\ conf.rotate_interval >= 0
    BY <2>2 DEF Checked, DurationsOK, OrDefault, ConfTyped
  <2>5. eff.rotateOnLogin \/ conf.rotate_on_login = "false"
    <3>1. kept \/ conf.rotate_on_login = "false"
      BY DEF ConfTyped
    <3> HIDE DEF kept
    <3> QED BY <2>3, <3>1
  <2>6. ASSUME NEW h, NEW default PROVE Resolved(h, default).enabled \/ h.word = "off"
    BY DEF Resolved, EqualFold, Word
  <2> QED BY <2>2, <2>4, <2>5, <2>6 DEF NothingOffByAccident
<1> QED BY <1>1, ConfigInvariant, PTL

\* The label a request must carry is that of the most specific rule that covers
\* its path, for every number and order of rules and every way of writing them.
THEOREM ConfigMostSpecificRuleWins == ConfigSpec => []MostSpecificRuleWins
<1>1. ConfigInv => MostSpecificRuleWins
  <2> SUFFICES ASSUME ConfTyped(conf), Checked, stage = "serving", conf.authz # None,
                      NEW path \in PATHS
               PROVE  Required(conf.authz, path) = MostSpecific(conf.authz, path)
    BY DEF MostSpecificRuleWins, Serving, ConfigInv
  <2>1. RulesTyped(conf.authz)
    BY PolicyRulesTyped DEF ConfTyped
  <2>2. RulesWellFormed(conf.authz)
    BY DEF Checked, PolicyBuilds, Accepts
  <2>3. path \in Seq(SEG)
    BY ConfigAssumption
  <2> QED BY <2>1, <2>2, <2>3, FirstIsMostSpecific
<1> QED BY <1>1, ConfigInvariant, PTL

\* A client denied for want of a label is sent to an endpoint that exists and
\* serves it, for every accepted policy.
THEOREM ConfigRedirectedAtMostOnce == ConfigSpec => []RedirectedAtMostOnce
<1>1. ConfigInv => RedirectedAtMostOnce
  <2> SUFFICES ASSUME ConfigInv PROVE RedirectedAtMostOnce
    OBVIOUS
  <2>1. CASE client = NoClient
    BY <2>1 DEF NoClient, RedirectedAtMostOnce
  <2>2. CASE client # NoClient
    <3>1. /\ stage = "serving" /\ conf.authz # None /\ client.hops = 1
          /\ client.lacks \in UsedLabels(conf.authz) \ {Anonymous}
      BY <2>2 DEF ConfigInv, ClientInv
    <3>2. client.lacks \in DOMAIN conf.authz.endpoints
      BY <3>1, RequiredHasEndpoint DEF ConfigInv
    <3> QED BY <3>1, <3>2 DEF RedirectedAtMostOnce
  <2> QED BY <2>1, <2>2
<1> QED BY <1>1, ConfigInvariant, PTL

-----------------------------------------------------------------------------
(* Cookies.                                                                *)

Jars == [NAME -> VAL \union {Absent}]
Mutation == [name : NAME, value : VAL \union {Absent}]

\* The jars a replay of mutations goes through.
LEMMA ReplayRuns ==
    ASSUME NEW jar \in Jars, NEW ms \in Seq(Mutation)
    PROVE  \E e \in [0 .. Len(ms) -> Jars] :
               /\ e[0] = jar /\ Replay(jar, ms) = e[Len(ms)]
               /\ \A k \in 1 .. Len(ms) : e[k] = SetIn(e[k - 1], ms[k])
<1> DEFINE n == Len(ms)
           G == [p \in Jars \X (1 .. n) |-> SetIn(p[1], ms[p[2]])]
           P(h) == h = [s \in SUBSET (1 .. n) |->
                           IF s = {} THEN jar ELSE SetIn(h[s \ {Max(s)}], ms[Max(s)])]
<1>1. n \in Nat /\ DOMAIN ms = 1 .. n /\ \A i \in 1 .. n : ms[i] \in Mutation
  OBVIOUS
<1>2. \A t \in Jars, x \in Mutation : SetIn(t, x) \in Jars
  BY DEF SetIn, Jars, Mutation
<1>3. /\ G \in [Jars \X (1 .. n) -> Jars]
      /\ \A t \in Jars, i \in 1 .. n : G[<<t, i>>] = SetIn(t, ms[i])
  BY <1>1, <1>2
<1> HIDE DEF n, G
<1>4. PICK f : Folding(n, Jars, jar, G, f)
  <2> DEFINE T == Jars
             b == jar
  <2>1. b \in T /\ G \in [T \X (1 .. n) -> T]
    BY <1>3
  <2> HIDE DEF T, b
  <2>2. \E f : Folding(n, T, b, G, f)
    BY <1>1, <2>1, FoldingExists
  <2> QED BY <2>2 DEF T, b
<1>5. ASSUME NEW s \in SUBSET (1 .. n), s # {}
      PROVE  f[s] = SetIn(f[Shorter(s)], ms[Max(s)])
  <2>1. Max(s) \in 1 .. n /\ Shorter(s) \in SUBSET (1 .. n)
    BY <1>1, <1>5, LastPosition DEF Shorter
  <2> QED BY <1>3, <1>4, <1>5, <2>1 DEF Folding
<1>6. P(f)
  <2>1. f = [s \in SUBSET (1 .. n) |-> f[s]] /\ f[{}] = jar
    BY <1>4 DEF Folding
  <2> QED BY <1>5, <2>1 DEF Shorter
<1>7. ASSUME NEW h, P(h) PROVE h[1 .. n] = f[1 .. n]
  <2>1. h[{}] = jar /\ f[{}] = jar
    BY <1>4, <1>7 DEF Folding
  <2>2. \A s \in SUBSET (1 .. n) : s # {} => h[s] = SetIn(h[Shorter(s)], ms[Max(s)])
    BY <1>7 DEF Shorter
  <2>3. h[{}] = f[{}]
    BY <2>1
  <2>4. \A s \in SUBSET (1 .. n) : s # {} /\ h[Shorter(s)] = f[Shorter(s)] => h[s] = f[s]
    BY <1>5, <2>2
  <2> HIDE DEF P
  <2> QED BY <1>1, <2>3, <2>4, FoldingFollowed
<1>8. Replay(jar, ms) = (CHOOSE h : P(h))[1 .. n]
  BY <1>1 DEF Replay, FoldLeft, MapThenFoldSet
<1>9. Replay(jar, ms) = f[1 .. n]
  <2> HIDE DEF P
  <2> QED BY <1>6, <1>7, <1>8
<1> DEFINE e == [k \in 0 .. n |-> f[1 .. k]]
<1>10. Run(n, Jars, jar, G, e) /\ e[n] = f[1 .. n]
  BY <1>1, <1>4, FoldingRuns
<1> HIDE DEF e
<1>11. \A k \in 1 .. n : e[k] = SetIn(e[k - 1], ms[k])
  <2>1. \A k \in 1 .. n : k - 1 \in 0 .. n /\ e[k - 1] \in Jars
    BY <1>1, <1>10 DEF Run
  <2> QED BY <1>3, <1>10, <2>1 DEF Run
<1> QED BY <1>9, <1>10, <1>11 DEF Run, n

\* The attribute that decides after each round of the loop of maxAgeDeletes.
LEMMA DecidingRuns ==
    ASSUME NEW ages \in Seq(Seq(STRING))
    PROVE  \E e \in [0 .. Len(ages) -> Seq(STRING)] :
               /\ e[0] = <<>> /\ Deciding(ages) = e[Len(ages)]
               /\ \A k \in 1 .. Len(ages) : e[k] = LastValid(e[k - 1], ages[k])
<1> DEFINE n == Len(ages)
           G == [p \in Seq(STRING) \X (1 .. n) |-> LastValid(p[1], ages[p[2]])]
           P(h) == h = [s \in SUBSET (1 .. n) |->
                           IF s = {} THEN <<>> ELSE LastValid(h[s \ {Max(s)}], ages[Max(s)])]
<1>1. n \in Nat /\ DOMAIN ages = 1 .. n /\ \A i \in 1 .. n : ages[i] \in Seq(STRING)
  OBVIOUS
<1>2. \A t \in Seq(STRING), x \in Seq(STRING) : LastValid(t, x) \in Seq(STRING)
  BY DEF LastValid
<1>3. /\ G \in [Seq(STRING) \X (1 .. n) -> Seq(STRING)]
      /\ \A t \in Seq(STRING), i \in 1 .. n : G[<<t, i>>] = LastValid(t, ages[i])
  BY <1>1, <1>2
<1> HIDE DEF n, G
<1>4. PICK f : Folding(n, Seq(STRING), <<>>, G, f)
  <2> DEFINE T == Seq(STRING)
             b == <<>>
  <2>1. b \in T /\ G \in [T \X (1 .. n) -> T]
    BY <1>3
  <2> HIDE DEF T, b
  <2>2. \E f : Folding(n, T, b, G, f)
    BY <1>1, <2>1, FoldingExists
  <2> QED BY <2>2 DEF T, b
<1>5. ASSUME NEW s \in SUBSET (1 .. n), s # {}
      PROVE  f[s] = LastValid(f[Shorter(s)], ages[Max(s)])
  <2>1. Max(s) \in 1 .. n /\ Shorter(s) \in SUBSET (1 .. n)
    BY <1>1, <1>5, LastPosition DEF Shorter
  <2> QED BY <1>3, <1>4, <1>5, <2>1 DEF Folding
<1>6. P(f)
  <2>1. f = [s \in SUBSET (1 .. n) |-> f[s]] /\ f[{}] = <<>>
    BY <1>4 DEF Folding
  <2> QED BY <1>5, <2>1 DEF Shorter
<1>7. ASSUME NEW h, P(h) PROVE h[1 .. n] = f[1 .. n]
  <2>1. h[{}] = <<>> /\ f[{}] = <<>>
    BY <1>4, <1>7 DEF Folding
  <2>2. \A s \in SUBSET (1 .. n) : s # {} => h[s] = LastValid(h[Shorter(s)], ages[Max(s)])
    BY <1>7 DEF Shorter
  <2>3. h[{}] = f[{}]
    BY <2>1
  <2>4. \A s \in SUBSET (1 .. n) : s # {} /\ h[Shorter(s)] = f[Shorter(s)] => h[s] = f[s]
    BY <1>5, <2>2
  <2> HIDE DEF P
  <2> QED BY <1>1, <2>3, <2>4, FoldingFollowed
<1>8. Deciding(ages) = (CHOOSE h : P(h))[1 .. n]
  BY <1>1 DEF Deciding, FoldLeft, MapThenFoldSet
<1>9. Deciding(ages) = f[1 .. n]
  <2> HIDE DEF P
  <2> QED BY <1>6, <1>7, <1>8
<1> DEFINE e == [k \in 0 .. n |-> f[1 .. k]]
<1>10. Run(n, Seq(STRING), <<>>, G, e) /\ e[n] = f[1 .. n]
  BY <1>1, <1>4, FoldingRuns
<1> HIDE DEF e
<1>11. \A k \in 1 .. n : e[k] = LastValid(e[k - 1], ages[k])
  <2>1. \A k \in 1 .. n : k - 1 \in 0 .. n /\ e[k - 1] \in Seq(STRING)
    BY <1>1, <1>10 DEF Run
  <2> QED BY <1>3, <1>10, <2>1 DEF Run
<1> QED BY <1>9, <1>10, <1>11 DEF Run, n

\* The number read after each digit.
LEMMA ValueRuns ==
    ASSUME NEW ds \in Seq(STRING)
    PROVE  \E e \in [0 .. Len(ds) -> Nat] :
               /\ e[0] = 0 /\ Value(ds) = e[Len(ds)]
               /\ \A k \in 1 .. Len(ds) : e[k] = AppendDigit(e[k - 1], ds[k])
<1> DEFINE n == Len(ds)
           G == [p \in Nat \X (1 .. n) |-> AppendDigit(p[1], ds[p[2]])]
           P(h) == h = [s \in SUBSET (1 .. n) |->
                           IF s = {} THEN 0 ELSE AppendDigit(h[s \ {Max(s)}], ds[Max(s)])]
<1>1. n \in Nat /\ DOMAIN ds = 1 .. n /\ \A i \in 1 .. n : ds[i] \in STRING
  OBVIOUS
<1>2. \A t \in Nat, x \in STRING : AppendDigit(t, x) \in Nat
  BY DEF AppendDigit
<1>3. /\ G \in [Nat \X (1 .. n) -> Nat]
      /\ \A t \in Nat, i \in 1 .. n : G[<<t, i>>] = AppendDigit(t, ds[i])
  BY <1>1, <1>2
<1> HIDE DEF n, G
<1>4. PICK f : Folding(n, Nat, 0, G, f)
  <2> DEFINE T == Nat
             b == 0
  <2>1. b \in T /\ G \in [T \X (1 .. n) -> T]
    BY <1>3
  <2> HIDE DEF T, b
  <2>2. \E f : Folding(n, T, b, G, f)
    BY <1>1, <2>1, FoldingExists
  <2> QED BY <2>2 DEF T, b
<1>5. ASSUME NEW s \in SUBSET (1 .. n), s # {}
      PROVE  f[s] = AppendDigit(f[Shorter(s)], ds[Max(s)])
  <2>1. Max(s) \in 1 .. n /\ Shorter(s) \in SUBSET (1 .. n)
    BY <1>1, <1>5, LastPosition DEF Shorter
  <2> QED BY <1>3, <1>4, <1>5, <2>1 DEF Folding
<1>6. P(f)
  <2>1. f = [s \in SUBSET (1 .. n) |-> f[s]] /\ f[{}] = 0
    BY <1>4 DEF Folding
  <2> QED BY <1>5, <2>1 DEF Shorter
<1>7. ASSUME NEW h, P(h) PROVE h[1 .. n] = f[1 .. n]
  <2>1. h[{}] = 0 /\ f[{}] = 0
    BY <1>4, <1>7 DEF Folding
  <2>2. \A s \in SUBSET (1 .. n) : s # {} => h[s] = AppendDigit(h[Shorter(s)], ds[Max(s)])
    BY <1>7 DEF Shorter
  <2>3. h[{}] = f[{}]
    BY <2>1
  <2>4. \A s \in SUBSET (1 .. n) : s # {} /\ h[Shorter(s)] = f[Shorter(s)] => h[s] = f[s]
    BY <1>5, <2>2
  <2> HIDE DEF P
  <2> QED BY <1>1, <2>3, <2>4, FoldingFollowed
<1>8. Value(ds) = (CHOOSE h : P(h))[1 .. n]
  BY <1>1 DEF Value, FoldLeft, MapThenFoldSet
<1>9. Value(ds) = f[1 .. n]
  <2> HIDE DEF P
  <2> QED BY <1>6, <1>7, <1>8
<1> DEFINE e == [k \in 0 .. n |-> f[1 .. k]]
<1>10. Run(n, Nat, 0, G, e) /\ e[n] = f[1 .. n]
  BY <1>1, <1>4, FoldingRuns
<1> HIDE DEF e
<1>11. \A k \in 1 .. n : e[k] = AppendDigit(e[k - 1], ds[k])
  <2>1. \A k \in 1 .. n : k - 1 \in 0 .. n /\ e[k - 1] \in Nat
    BY <1>1, <1>10 DEF Run
  <2> QED BY <1>3, <1>10, <2>1 DEF Run
<1> QED BY <1>9, <1>10, <1>11 DEF Run, n

\* Replaying no mutation changes nothing, replaying one more sets one name.
LEMMA ReplayAppend ==
    ASSUME NEW jar \in Jars, NEW ms \in Seq(Mutation), NEW m \in Mutation
    PROVE  Replay(jar, ms) \in Jars /\ Replay(jar, Append(ms, m)) = SetIn(Replay(jar, ms), m)
<1> DEFINE n == Len(ms)
           r == Append(ms, m)
<1>1. /\ r \in Seq(Mutation) /\ Len(r) = n + 1 /\ n \in Nat
      /\ r[n + 1] = m /\ \A i \in 1 .. n : r[i] = ms[i]
  OBVIOUS
<1> HIDE DEF r
<1>2. PICK e \in [0 .. n -> Jars] :
          /\ e[0] = jar /\ Replay(jar, ms) = e[n]
          /\ \A k \in 1 .. n : e[k] = SetIn(e[k - 1], ms[k])
  BY ReplayRuns
<1>3. PICK g \in [0 .. (n + 1) -> Jars] :
          /\ g[0] = jar /\ Replay(jar, r) = g[n + 1]
          /\ \A k \in 1 .. (n + 1) : g[k] = SetIn(g[k - 1], r[k])
  <2> DEFINE l == Len(r)
  <2>1. \E g \in [0 .. l -> Jars] :
            /\ g[0] = jar /\ Replay(jar, r) = g[l]
            /\ \A k \in 1 .. l : g[k] = SetIn(g[k - 1], r[k])
    BY <1>1, ReplayRuns
  <2>2. l = n + 1
    BY <1>1
  <2> HIDE DEF l
  <2> QED BY <2>1, <2>2
<1> HIDE DEF n
<1> DEFINE A == {k \in 0 .. n : e[k] = g[k]}
<1>4. 0 \in A
  BY <1>1, <1>2, <1>3
<1>5. ASSUME NEW k \in 0 .. n, k \in A, k < n PROVE k + 1 \in A
  <2>1. k + 1 \in 1 .. n /\ k + 1 \in 1 .. (n + 1) /\ (k + 1) - 1 = k /\ k + 1 \in 0 .. n
    BY <1>1, <1>5
  <2>2. e[k + 1] = SetIn(e[k], ms[k + 1]) /\ g[k + 1] = SetIn(g[k], r[k + 1])
    BY <1>2, <1>3, <2>1
  <2> QED BY <1>1, <1>5, <2>1, <2>2
<1>6. 0 .. n \subseteq A
  <2> HIDE DEF A
  <2> QED BY <1>1, <1>4, <1>5, UpTo
<1>7. e[n] = g[n] /\ n + 1 \in 1 .. (n + 1) /\ (n + 1) - 1 = n /\ n \in 0 .. n
  BY <1>1, <1>6
<1>8. g[n + 1] = SetIn(g[n], m) /\ e[n] \in Jars
  BY <1>1, <1>2, <1>3, <1>7
<1> QED BY <1>2, <1>3, <1>7, <1>8 DEF r

LEMMA NoMutation == ASSUME NEW jar \in Jars PROVE Replay(jar, <<>>) = jar
<1> DEFINE ms == <<>>
<1>1. ms \in Seq(Mutation)
  OBVIOUS
<1>2. Len(ms) = 0
  OBVIOUS
<1> HIDE DEF ms
<1>3. PICK e \in [0 .. Len(ms) -> Jars] :
          /\ e[0] = jar /\ Replay(jar, ms) = e[Len(ms)]
          /\ \A k \in 1 .. Len(ms) : e[k] = SetIn(e[k - 1], ms[k])
  BY <1>1, ReplayRuns
<1>4. Replay(jar, ms) = jar
  BY <1>2, <1>3
<1> QED BY <1>4 DEF ms

\* The loop of maxAgeDeletes ends with the last valid attribute.
LEMMA DecidingIsLastValid ==
    ASSUME NEW ages \in Seq(Seq(STRING))
    PROVE  \/ Deciding(ages) = <<>> /\ \A i \in DOMAIN ages : ~Valid(ages[i])
           \/ \E i \in DOMAIN ages : /\ Deciding(ages) = ages[i] /\ Valid(ages[i])
                                     /\ \A j \in DOMAIN ages : Valid(ages[j]) => j <= i
<1> DEFINE n == Len(ages)
<1>1. n \in Nat /\ DOMAIN ages = 1 .. n
  OBVIOUS
<1>2. PICK d \in [0 .. n -> Seq(STRING)] :
          /\ d[0] = <<>> /\ Deciding(ages) = d[n]
          /\ \A k \in 1 .. n : d[k] = LastValid(d[k - 1], ages[k])
  BY DecidingRuns
<1> DEFINE is(k) == \/ d[k] = <<>> /\ \A i \in 1 .. k : ~Valid(ages[i])
                    \/ \E i \in 1 .. k : /\ d[k] = ages[i] /\ Valid(ages[i])
                                         /\ \A j \in 1 .. k : Valid(ages[j]) => j <= i
           A == {k \in 0 .. n : is(k)}
<1> HIDE DEF n
<1>3. 0 \in A
  BY <1>1, <1>2
<1>4. ASSUME NEW m \in 0 .. n, m \in A, m < n PROVE m + 1 \in A
  <2> DEFINE k == m + 1
  <2>1. k \in 1 .. n /\ k - 1 = m /\ k \in 0 .. n /\ m \in Nat
    BY <1>1, <1>4
  <2>2. d[k] = IF Valid(ages[k]) THEN ages[k] ELSE d[m]
    BY <1>2, <2>1 DEF LastValid
  <2>3. \A i \in 1 .. k : i \in 1 .. m \/ i = k
    BY <2>1
  <2>4. \A i \in 1 .. m : i \in 1 .. k /\ i <= k
    BY <2>1
  <2>5. k \in 1 .. k /\ k <= k
    BY <2>1
  <2> HIDE DEF k
  <2>6. is(m)
    BY <1>4
  <2>7. is(k)
    <3>1. CASE Valid(ages[k])
      BY <2>2, <2>3, <2>4, <2>5, <3>1
    <3>2. CASE ~Valid(ages[k])
      BY <2>2, <2>3, <2>4, <2>6, <3>2
    <3> QED BY <3>1, <3>2
  <2> HIDE DEF is
  <2> QED BY <2>1, <2>7 DEF k
<1>5. is(n)
  <2>1. 0 .. n \subseteq A
    <3> HIDE DEF A
    <3> QED BY <1>1, <1>3, <1>4, UpTo
  <2> HIDE DEF is
  <2> QED BY <1>1, <2>1
<1> QED BY <1>1, <1>2, <1>5

\* A string of digits is a natural number, and zero if every digit is.
LEMMA ValueOfDigits ==
    ASSUME NEW ds \in Seq(STRING), Range(ds) \subseteq Digit
    PROVE  Value(ds) \in Nat /\ (Value(ds) = 0 <=> Range(ds) \subseteq {"0"})
<1> DEFINE n == Len(ds)
<1>1. n \in Nat /\ DOMAIN ds = 1 .. n
  OBVIOUS
<1>2. PICK v \in [0 .. n -> Nat] :
          /\ v[0] = 0 /\ Value(ds) = v[n]
          /\ \A k \in 1 .. n : v[k] = AppendDigit(v[k - 1], ds[k])
  BY ValueRuns
<1> DEFINE A == {k \in 0 .. n : v[k] = 0 <=> \A i \in 1 .. k : ds[i] = "0"}
<1>3. \A i \in 1 .. n : ds[i] \in {"0", "1"}
  BY <1>1 DEF Range, Digit
<1>4. Range(ds) \subseteq {"0"} <=> \A i \in 1 .. n : ds[i] = "0"
  BY <1>1 DEF Range
<1> HIDE DEF n
<1>5. 0 \in A
  BY <1>1, <1>2
<1>6. ASSUME NEW m \in 0 .. n, m \in A, m < n PROVE m + 1 \in A
  <2> DEFINE k == m + 1
  <2>1. k \in 1 .. n /\ k - 1 = m /\ k \in 0 .. n
    BY <1>1, <1>6
  <2>2. v[k] = 10 * v[m] + (IF ds[k] = "1" THEN 1 ELSE 0) /\ v[m] \in Nat
    BY <1>2, <2>1 DEF AppendDigit
  <2>3. \A i : i \in 1 .. k <=> i \in 1 .. m \/ i = k
    BY <1>1, <2>1
  <2>4. ds[k] \in {"0", "1"}
    BY <1>3, <2>1
  <2> HIDE DEF k
  <2>5. v[k] = 0 <=> v[m] = 0 /\ ds[k] = "0"
    <3>1. CASE ds[k] = "0"
      <4>1. v[k] = 10 * v[m]
        BY <2>2, <3>1
      <4> QED BY <2>2, <3>1, <4>1
    <3>2. CASE ds[k] = "1"
      <4>1. v[k] = 10 * v[m] + 1
        BY <2>2, <3>2
      <4>2. v[k] # 0
        BY <2>2, <4>1
      <4> QED BY <3>2, <4>2
    <3> QED BY <2>4, <3>1, <3>2
  <2>6. (\A i \in 1 .. k : ds[i] = "0") <=> (\A i \in 1 .. m : ds[i] = "0") /\ ds[k] = "0"
    BY <2>3
  <2>7. k \in A
    BY <1>6, <2>1, <2>5, <2>6
  <2> QED BY <2>7 DEF k
<1>7. 0 .. n \subseteq A
  <2> HIDE DEF A
  <2> QED BY <1>1, <1>5, <1>6, UpTo
<1>8. n \in A /\ v[n] \in Nat
  BY <1>1, <1>2, <1>7
<1> QED BY <1>2, <1>4, <1>8

\* A valid attribute deletes exactly when the number it denotes is not positive.
LEMMA AttributeAgrees ==
    ASSUME NEW a \in Seq(STRING), Valid(a)
    PROVE  a # <<>> /\ (maxAgeDeletes(a) <=> Number(a) <= 0)
<1> DEFINE ds == Digits(a)
<1>1. a # <<>> /\ ds # <<>> /\ ds \in Seq(STRING) /\ Range(ds) \subseteq Digit
  <2>1. a # <<>>
    BY DEF Valid, Digits, Negative
  <2>2. ds \in Seq(STRING)
    <3>1. Tail(a) \in Seq(STRING)
      BY <2>1
    <3> QED BY <3>1 DEF Digits
  <2> QED BY <2>1, <2>2 DEF Valid
<1> HIDE DEF ds
<1>2. Value(ds) \in Nat /\ (Value(ds) = 0 <=> Range(ds) \subseteq {"0"})
  BY <1>1, ValueOfDigits
<1>3. Range(ds) # {}
  <2>1. 1 \in DOMAIN ds
    BY <1>1
  <2> QED BY <2>1 DEF Range
<1>4. Range(ds) = {"0"} <=> Range(ds) \subseteq {"0"}
  BY <1>3
<1>5. maxAgeDeletes(a) <=> Negative(a) \/ Range(ds) = {"0"}
  BY DEF maxAgeDeletes, ds
<1>6. Number(a) = IF Negative(a) THEN 0 - Value(ds) ELSE Value(ds)
  BY DEF Number, ds
<1> QED BY <1>1, <1>2, <1>4, <1>5, <1>6

\* cookieDeletesNow decides as a browser would.
LEMMA DeletesAgree ==
    ASSUME NEW sc, sc.maxAge \in Seq(Seq(STRING))
    PROVE  cookieDeletesNow(sc) <=> UserAgentDeletes(sc)
<1> DEFINE ages == sc.maxAge
           numbers == {i \in DOMAIN ages : Valid(ages[i])}
           last == CHOOSE i \in numbers : \A j \in numbers : j <= i
<1>1. UserAgentDeletes(sc) <=>
        IF numbers # {} THEN Number(ages[last]) <= 0 ELSE sc.expires # 0 /\ sc.expires <= Now
  BY DEF UserAgentDeletes
<1>2. cookieDeletesNow(sc) <=>
        IF Deciding(ages) # <<>> THEN maxAgeDeletes(Deciding(ages))
        ELSE sc.expires # 0 /\ sc.expires <= Now
  BY DEF cookieDeletesNow
<1>3. CASE numbers = {}
  <2>1. Deciding(ages) = <<>>
    BY <1>3, DecidingIsLastValid
  <2> QED BY <1>1, <1>2, <1>3, <2>1
<1>4. CASE numbers # {}
  <2>1. PICK i \in DOMAIN ages : /\ Deciding(ages) = ages[i] /\ Valid(ages[i])
                                 /\ \A j \in DOMAIN ages : Valid(ages[j]) => j <= i
    BY <1>4, DecidingIsLastValid
  <2>2. i \in numbers /\ \A j \in numbers : j <= i
    BY <2>1
  <2>3. last \in numbers /\ \A j \in numbers : j <= last
    <3> HIDE DEF numbers
    <3> QED BY <2>2
  <2>4. last = i
    <3>1. numbers \subseteq Nat
      OBVIOUS
    <3> HIDE DEF numbers, last
    <3> QED BY <2>2, <2>3, <3>1
  <2>5. ages[i] \in Seq(STRING)
    OBVIOUS
  <2>6. ages[i] # <<>> /\ (maxAgeDeletes(ages[i]) <=> Number(ages[i]) <= 0)
    BY <2>1, <2>5, AttributeAgrees
  <2> HIDE DEF last, numbers
  <2> QED BY <1>1, <1>2, <1>4, <2>1, <2>4, <2>6
<1> QED BY <1>3, <1>4

-----------------------------------------------------------------------------
\* What the cache will hold once the mutations so far are applied is what the
\* browser's jar would hold by now; without a session there is nothing to delete.
CookieInv ==
    /\ forward \subseteq NAME /\ store \subseteq NAME
    /\ held \in Jars /\ ua \in Jars /\ mutations \in Seq(Mutation)
    /\ step = "request" => held = ua
    /\ step = "response" =>
          /\ Replay(held, mutations) \in Jars
          /\ \A n \in store : Replay(held, mutations)[n] = ua[n]
          /\ ~live => held = Nothing /\ mutations = <<>>
    /\ step = "done" => \A n \in store : held[n] = ua[n]

LEMMA CookieInitInv == CookieInit => CookieInv
<1> SUFFICES ASSUME CookieInit PROVE CookieInv
  OBVIOUS
<1>1. held \in Jars /\ mutations = <<>> /\ ua = held /\ (~live => held = Nothing)
  BY DEF CookieInit, Jars, Nothing
<1>2. Replay(held, mutations) = held /\ mutations \in Seq(Mutation)
  BY <1>1, NoMutation
<1> QED BY <1>1, <1>2 DEF CookieInit, CookieInv

\* The jar after one well-formed header.
LEMMA JarAfter ==
    ASSUME NEW sc \in SetCookie, sc.wellFormed, ua \in Jars
    PROVE  LET v == IF cookieDeletesNow(sc) THEN Absent ELSE sc.value
           IN  /\ sc.name \in NAME /\ sc.value \in VAL
               /\ UserAgent(sc) \in Jars
               /\ UserAgent(sc)[sc.name] = v
               /\ \A n \in NAME \ {sc.name} : UserAgent(sc)[n] = ua[n]
<1>1. sc \in [wellFormed : {TRUE}, name : NAME, value : VAL, maxAge : MAXAGES, expires : EXPIRES]
  <2>1. CASE sc = Malformed
    BY <2>1 DEF Malformed
  <2> QED BY <2>1 DEF SetCookie
<1>2. sc.name \in NAME /\ sc.value \in VAL /\ sc.maxAge \in MAXAGES
  BY <1>1
<1>3. sc.maxAge \in Seq(Seq(STRING))
  BY <1>2, CookieAssumption
<1>4. cookieDeletesNow(sc) <=> UserAgentDeletes(sc)
  BY <1>3, DeletesAgree
<1> DEFINE v == IF cookieDeletesNow(sc) THEN Absent ELSE sc.value
<1>5. UserAgent(sc) = [ua EXCEPT ![sc.name] = v] /\ v \in VAL \union {Absent}
  BY <1>2, <1>4 DEF UserAgent
<1> HIDE DEF v
<1>6. /\ UserAgent(sc) \in Jars
      /\ UserAgent(sc)[sc.name] = v
      /\ \A n \in NAME \ {sc.name} : UserAgent(sc)[n] = ua[n]
  BY <1>2, <1>5 DEF Jars
<1> QED BY <1>2, <1>6 DEF v

LEMMA DecideFacts ==
    ASSUME NEW n
    PROVE  Decide(n) \in {"store", "forward", "drop"} /\ (Decide(n) = "store" <=> n \in store)
BY DEF Decide

LEMMA HeaderInv ==
    ASSUME CookieInv, step = "response", NEW sc \in SetCookie,
           Reject(sc) \/ Drop(sc) \/ Pass(sc) \/ DeleteStored(sc) \/ PutStored(sc)
    PROVE  CookieInv'
<1> DEFINE R == Replay(held, mutations)
<1>1. /\ forward' = forward /\ store' = store /\ step' = step /\ held' = held
      /\ ua' = UserAgent(sc)
  BY DEF Reject, Drop, Pass, DeleteStored, PutStored, Header
<1>2. /\ forward \subseteq NAME /\ store \subseteq NAME /\ held \in Jars /\ ua \in Jars
      /\ mutations \in Seq(Mutation) /\ R \in Jars
      /\ \A n \in store : R[n] = ua[n]
      /\ ~live => held = Nothing /\ mutations = <<>>
  BY DEF CookieInv
<1>3. CASE ~sc.wellFormed
  <2>1. ua' = ua /\ mutations' = mutations /\ live' = live
    BY <1>1, <1>3 DEF UserAgent, Reject, Drop, Pass, DeleteStored, PutStored
  <2> QED BY <1>1, <1>2, <2>1 DEF CookieInv
<1>4. CASE sc.wellFormed
  <2> DEFINE v == IF cookieDeletesNow(sc) THEN Absent ELSE sc.value
             m == [name |-> sc.name, value |-> v]
  <2>1. /\ sc.name \in NAME /\ sc.value \in VAL /\ ua' \in Jars
        /\ ua'[sc.name] = v /\ \A n \in NAME \ {sc.name} : ua'[n] = ua[n]
    BY <1>1, <1>2, <1>4, JarAfter
  <2>2. CASE sc.name \notin store
    <3>1. mutations' = mutations /\ live' = live
      BY <2>2, DecideFacts DEF Reject, Drop, Pass, DeleteStored, PutStored
    <3>2. \A n \in store : ua'[n] = ua[n]
      BY <1>2, <2>1, <2>2
    <3> QED BY <1>1, <1>2, <2>1, <3>1, <3>2 DEF CookieInv
  <2>3. CASE sc.name \in store /\ cookieDeletesNow(sc) /\ ~live
    <3>1. mutations' = mutations /\ live' = live
      BY <1>4, <2>3, DecideFacts DEF Reject, Drop, Pass, DeleteStored, PutStored
    <3>2. R = Nothing
      BY <1>2, <2>3, NoMutation
    <3>3. R[sc.name] = Absent /\ v = Absent
      BY <2>1, <2>3, <3>2 DEF Nothing
    <3>4. \A n \in store : R[n] = ua'[n]
      BY <1>2, <2>1, <3>3
    <3> QED BY <1>1, <1>2, <2>1, <3>1, <3>4 DEF CookieInv
  <2>4. CASE sc.name \in store /\ (live \/ ~cookieDeletesNow(sc))
    <3>1. mutations' = Append(mutations, m) /\ live'
      BY <1>4, <2>4, DecideFacts DEF Reject, Drop, Pass, DeleteStored, PutStored
    <3>2. m \in Mutation /\ m.name = sc.name /\ m.value = v /\ v \in VAL \union {Absent}
      BY <2>1 DEF Mutation
    <3> HIDE DEF m, v, R
    <3>3. Replay(held', mutations') = SetIn(R, m)
      BY <1>1, <1>2, <3>1, <3>2, ReplayAppend DEF R
    <3>4. mutations' \in Seq(Mutation)
      BY <1>2, <3>1, <3>2
    <3>5. /\ SetIn(R, m) \in Jars /\ SetIn(R, m)[sc.name] = v
          /\ \A n \in NAME \ {sc.name} : SetIn(R, m)[n] = R[n]
      BY <1>2, <2>1, <3>2 DEF SetIn, Jars
    <3>6. \A n \in store : SetIn(R, m)[n] = ua'[n]
      BY <1>2, <2>1, <3>5
    <3> QED BY <1>1, <1>2, <2>1, <3>1, <3>3, <3>4, <3>5, <3>6 DEF CookieInv
  <2> QED BY <2>2, <2>3, <2>4
<1> QED BY <1>3, <1>4

LEMMA CookieNextInv == CookieInv /\ [CookieNext]_cookieVars => CookieInv'
<1> SUFFICES ASSUME CookieInv, [CookieNext]_cookieVars PROVE CookieInv'
  OBVIOUS
<1>1. CASE prepareUpstreamCookies
  BY <1>1 DEF prepareUpstreamCookies, CookieInv
<1>2. ASSUME step = "response", NEW sc \in SetCookie,
             Reject(sc) \/ Drop(sc) \/ Pass(sc) \/ DeleteStored(sc) \/ PutStored(sc)
      PROVE  CookieInv'
  BY <1>2, HeaderInv
<1>3. CASE ApplyMutations
  <2> DEFINE R == Replay(held, mutations)
  <2>1. /\ forward' = forward /\ store' = store /\ step' = "done" /\ held' = R
        /\ ua' = ua /\ mutations' = mutations /\ step = "response"
    BY <1>3 DEF ApplyMutations
  <2> QED BY <2>1 DEF CookieInv
<1>4. CASE UNCHANGED cookieVars
  BY <1>4 DEF cookieVars, CookieInv
<1> QED BY <1>1, <1>2, <1>3, <1>4 DEF CookieNext

LEMMA CookieInvariant == CookieSpec => []CookieInv
BY CookieInitInv, CookieNextInv, PTL DEF CookieSpec

\* The cache ends up with what a browser would hold, for every response: any
\* number of Set-Cookie headers with any Max-Age and Expires attributes, well
\* formed or not, and any names, repeated or not (processLocked,
\* cookieDeletesNow, ApplyResponse).
THEOREM CookiesActAsBrowser == CookieSpec => []CacheActsAsBrowser
<1>1. CookieInv => CacheActsAsBrowser
  BY DEF CookieInv, CacheActsAsBrowser
<1> QED BY <1>1, CookieInvariant, PTL

\* A stored name never reaches the browser and never comes back from it, and
\* the proxy cookie is not forwarded, for every pair of name lists.
THEOREM CookiesStayServerSide == CookieSpec => []StoredStaysServerSide
<1>1. CookieInit => StoredStaysServerSide
  BY DEF CookieInit, StoredStaysServerSide
<1>2. StoredStaysServerSide /\ [CookieNext]_cookieVars => StoredStaysServerSide'
  <2> SUFFICES ASSUME StoredStaysServerSide, [CookieNext]_cookieVars PROVE StoredStaysServerSide'
    OBVIOUS
  <2>1. CASE prepareUpstreamCookies
    <3>1. \A c \in Kept : c[1] \notin store \union {PROXY}
      BY DecideFacts DEF Kept
    <3>2. \A c \in upstream' : c[1] = "client" => c[2] \notin store \union {PROXY}
      BY <2>1, <3>1 DEF prepareUpstreamCookies
    <3> QED BY <2>1, <3>2 DEF prepareUpstreamCookies, StoredStaysServerSide
  <2>2. ASSUME NEW sc \in SetCookie,
               Reject(sc) \/ Drop(sc) \/ Pass(sc) \/ DeleteStored(sc) \/ PutStored(sc)
        PROVE  StoredStaysServerSide'
    <3>1. store' = store /\ upstream' = upstream
      BY <2>2 DEF Reject, Drop, Pass, DeleteStored, PutStored, Header
    <3>2. \/ passed' = passed
          \/ passed' = passed \union {sc.name} /\ sc.name \notin store
      BY <2>2, DecideFacts DEF Reject, Drop, Pass, DeleteStored, PutStored
    <3> QED BY <3>1, <3>2 DEF StoredStaysServerSide
  <2>3. CASE ApplyMutations \/ UNCHANGED cookieVars
    BY <2>3 DEF ApplyMutations, cookieVars, StoredStaysServerSide
  <2> QED BY <2>1, <2>2, <2>3 DEF CookieNext
<1> QED BY <1>1, <1>2, PTL DEF CookieSpec
============================================================================
