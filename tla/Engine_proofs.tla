---------------------------- MODULE Engine_proofs ----------------------------
(* Proofs about the harness: what a patch and its reverse do to any harness, *)
(* the loop that applies and undoes a patch, and the engine that commits     *)
(* patches, round by round, and writes them to the lineage.                  *)
EXTENDS AuditVerify, HarnessPatch, FiniteSetTheorems, TLAPS

-----------------------------------------------------------------------------
(* What the proofs need to know of natural numbers and of orders on finite   *)
(* sets: every set of naturals has a least element, and there is a sequence  *)
(* of all elements of a finite set in a given order.  An order is given as   *)
(* the set of elements below each element.                                   *)
TotalOrder(S, below) ==
    /\ below \in [S -> SUBSET S]
    /\ \A x \in S : x \notin below[x]
    /\ \A x, y \in S : x = y \/ x \in below[y] \/ y \in below[x]
    /\ \A x, y, z \in S : x \in below[y] /\ y \in below[z] => x \in below[z]

\* All elements of S, each after those below it.
InOrder(S, below, s) ==
    /\ s \in [1..Cardinality(S) -> S]
    /\ \A i, j \in 1..Cardinality(S) : i < j => s[i] \in below[s[j]]

(* There is no infinite descent in the naturals: it would shrink the set of  *)
(* the naturals below for ever.                                              *)
LEMMA NatWellFounded ==
    IsWellFoundedOn({p \in Nat \X Nat : p[1] < p[2]}, Nat)
  <1> DEFINE R == {p \in Nat \X Nat : p[1] < p[2]}
  <1> SUFFICES ASSUME NEW f \in [Nat -> Nat], \A n \in Nat : <<f[n+1], f[n]>> \in R
               PROVE FALSE
    BY Zenon DEF IsWellFoundedOn
  <1>1. \A n \in Nat : f[n+1] \in Nat /\ f[n] \in Nat /\ f[n+1] < f[n]
    OBVIOUS
  <1> DEFINE F == [n \in Nat |-> 1..f[n]]
  <1>2. \A n \in Nat : F[n] \in FiniteSubsetsOf(Nat)
    BY <1>1, FS_Interval DEF FiniteSubsetsOf
  <1>3. \A n \in Nat : <<F[n+1], F[n]>> \in StrictSubsetOrdering(Nat)
    <2> SUFFICES ASSUME NEW n \in Nat
                 PROVE  <<F[n+1], F[n]>> \in StrictSubsetOrdering(Nat)
      OBVIOUS
    <2>1. F[n] = 1..f[n] /\ F[n+1] = 1..f[n+1]
      OBVIOUS
    <2>2. f[n] \in 1..f[n] /\ f[n] \notin 1..f[n+1] /\ 1..f[n+1] \subseteq 1..f[n]
      BY <1>1
    <2>3. 1..f[n] \in SUBSET Nat /\ 1..f[n+1] \in SUBSET Nat
      BY <1>1
    <2> DEFINE A == 1..f[n+1]
               B == 1..f[n]
    <2>4. A \in SUBSET Nat /\ B \in SUBSET Nat /\ A \subseteq B /\ A # B
      BY <2>2, <2>3
    <2> HIDE DEF A, B
    <2>5. <<A, B>> \in StrictSubsetOrdering(Nat)
      BY <2>4 DEF StrictSubsetOrdering
    <2> QED
      BY <2>1, <2>5 DEF A, B
  <1>4. F \in [Nat -> FiniteSubsetsOf(Nat)]
    BY <1>2
  <1> QED
    BY <1>3, <1>4, FS_StrictSubsetOrderingWellFounded DEF IsWellFoundedOn

(* Induction by least counterexample: a set of naturals that is not empty    *)
(* has a least element.                                                      *)
LEMMA LeastNatural ==
    ASSUME NEW T, T \subseteq Nat, T # {}
    PROVE  \E m \in T : \A k \in T : m <= k
  <1> DEFINE R == {p \in Nat \X Nat : p[1] < p[2]}
  <1>1. IsWellFoundedOn(R, Nat)
    BY NatWellFounded
  <1>2. \A k, m \in Nat : k < m => <<k, m>> \in R
    OBVIOUS
  <1> HIDE DEF R
  <1>3. PICK m \in T : \A k \in T : ~(<<k, m>> \in R)
    BY <1>1, WFMin
  <1>4. \A k \in T : ~(k < m)
    BY <1>2, <1>3, Zenon
  <1> QED
    BY <1>4

(* A finite set of naturals that is not empty has a greatest element.        *)
LEMMA GreatestNatural ==
    ASSUME NEW T, T \subseteq Nat, T # {}, NEW n \in Nat, \A k \in T : k <= n
    PROVE  \E m \in T : \A k \in T : k <= m
  <1> DEFINE D == {d \in Nat : \E k \in T : d = n - k}
  <1>1. \A k \in T : n - k \in D
    OBVIOUS
  <1>2. PICK d \in D : \A e \in D : d <= e
    <2>1. D # {} /\ D \subseteq Nat
      BY <1>1
    <2> HIDE DEF D
    <2> QED
      BY <2>1, LeastNatural
  <1>3. PICK m \in T : d = n - m
    OBVIOUS
  <1>4. \A k \in T : n - m <= n - k
    BY <1>1, <1>2, <1>3
  <1> QED
    BY <1>4

(* A finite set can be put in order: the place of an element is the number   *)
(* of those that are not above it.                                           *)
LEMMA OrderExists ==
    ASSUME NEW S, IsFiniteSet(S), NEW below, TotalOrder(S, below)
    PROVE  \E s : InOrder(S, below, s)
  <1> DEFINE n == Cardinality(S)
             B(x) == below[x] \cup {x}
             rank == [x \in S |-> Cardinality(B(x))]
  <1>1. n \in Nat /\ IsFiniteSet(1..n) /\ Cardinality(1..n) = n
    BY FS_CardinalityType, FS_Interval
  <1>2. ASSUME NEW x \in S
        PROVE  /\ IsFiniteSet(B(x)) /\ Cardinality(B(x)) \in 1..n
               /\ rank[x] = Cardinality(B(x))
    <2>1. B(x) \subseteq S /\ B(x) # {} /\ x \in S
      BY DEF TotalOrder
    <2> HIDE DEF B
    <2>2. IsFiniteSet(B(x)) /\ Cardinality(B(x)) <= n
      BY <2>1, FS_Subset
    <2>3. Cardinality(B(x)) \in Nat /\ Cardinality(B(x)) # 0
      BY <2>1, <2>2, FS_CardinalityType, FS_EmptySet
    <2> QED
      BY <1>1, <2>2, <2>3
  <1>3. ASSUME NEW x \in S, NEW y \in S, x \in below[y]
        PROVE  rank[x] < rank[y]
    <2>1. B(x) \subseteq B(y) /\ y \in B(y) /\ y \notin B(x)
      BY <1>3 DEF TotalOrder
    <2> HIDE DEF B
    <2>2. /\ Cardinality(B(x)) <= Cardinality(B(y))
          /\ Cardinality(B(x)) = Cardinality(B(y)) => B(x) = B(y)
      BY <1>2, <2>1, FS_Subset
    <2> QED
      BY <1>1, <1>2, <2>1, <2>2
  <1> HIDE DEF B
  <1>4. \A x \in S : rank[x] \in 1..n
    BY <1>2
  <1>5. rank \in Surjection(S, 1..n)
    <2>1. rank \in [S -> 1..n]
      BY <1>4
    <2> HIDE DEF rank
    <2>2. \A x, y \in S : rank[x] = rank[y] => x = y
      BY <1>1, <1>3, <1>4 DEF TotalOrder
    <2>3. rank \in Injection(S, 1..n)
      BY <2>1, <2>2 DEF Injection, IsInjective
    <2> HIDE DEF n
    <2> QED
      BY <1>1, <2>3, FS_Injection DEF n
  <1> DEFINE s == [i \in 1..n |-> CHOOSE x \in S : rank[x] = i]
  <1> HIDE DEF rank
  <1>6. \A i \in 1..n : s[i] \in S /\ rank[s[i]] = i
    BY <1>5 DEF Surjection
  <1>7. s \in [1..n -> S]
    BY <1>6
  <1> HIDE DEF s
  <1>8. ASSUME NEW i \in 1..n, NEW j \in 1..n, i < j PROVE s[i] \in below[s[j]]
    <2>1. s[i] # s[j] /\ ~(s[j] \in below[s[i]])
      BY <1>1, <1>3, <1>6, <1>8
    <2> QED
      BY <1>6, <2>1 DEF TotalOrder
  <1> QED
    BY <1>7, <1>8 DEF InOrder

(* A sequence in order has every element once.                               *)
LEMMA OrderIsOnto ==
    ASSUME NEW S, IsFiniteSet(S), NEW below, TotalOrder(S, below),
           NEW s, InOrder(S, below, s)
    PROVE  /\ \A i, j \in 1..Cardinality(S) : i # j => s[i] # s[j]
           /\ \A x \in S : \E i \in 1..Cardinality(S) : s[i] = x
  <1> DEFINE n == Cardinality(S)
  <1>1. n \in Nat
    BY FS_CardinalityType
  <1>2. \A i, j \in 1..n : i # j => s[i] # s[j]
    <2>1. \A i, j \in 1..n : i < j => s[i] # s[j]
      BY DEF InOrder, TotalOrder
    <2> HIDE DEF n
    <2> QED
      BY <1>1, <2>1
  <1>3. s \in Injection(1..n, S)
    BY <1>2 DEF InOrder, Injection, IsInjective
  <1>4. IsFiniteSet(1..n) /\ Cardinality(1..n) = n
    BY <1>1, FS_Interval
  <1>5. s \in Surjection(1..n, S)
    BY <1>3, <1>4, FS_Injection
  <1> QED
    BY <1>2, <1>5 DEF Surjection

-----------------------------------------------------------------------------
(* apply_patch and the reverse patch.                                        *)

\* A turn of the loops of this project that go through a sequence: apply_patch
\* over operations, _build_merge_group over the ranked rows, migrate_audit_tree
\* over the schemas on the way.
Turn(loop, x, e) ==
    CASE loop = "operations" -> ApplyOp(x, e)
      [] loop = "rows" -> IF Joins(e, x) THEN Append(x, e) ELSE x
      [] loop = "schemas" -> MigrateMetadata(x, e)

\* h[i] is what the loop has after i turns.
Turns(loop, h, from, p, n) ==
    /\ h[0] = from
    /\ \A i \in 1..n : h[i] = Turn(loop, h[i - 1], p[i])

Applies(h, from, p, n) ==
    /\ h[0] = from
    /\ \A i \in 1..n : h[i] = ApplyOp(h[i - 1], p[i])

LEMMA MaxOfRange ==
    ASSUME NEW n \in Nat, NEW s \in SUBSET (1..n), s # {}
    PROVE  Max(s) \in s /\ \A i \in s : i <= Max(s)
  <1> s \subseteq Nat /\ \A k \in s : k <= n
    OBVIOUS
  <1>1. \E m \in s : \A k \in s : k <= m
    BY GreatestNatural
  <1> QED
    BY <1>1 DEF Max

\* The function by which the folds of the library are defined.
Folding(loop, f, from, p, n) ==
    f = [s \in SUBSET (1..n) |->
            IF s = {} THEN from ELSE Turn(loop, f[s \ {Max(s)}], p[Max(s)])]

LEMMA FoldingNext ==
    ASSUME NEW loop, NEW from, NEW p, NEW n \in Nat, NEW f, Folding(loop, f, from, p, n)
    PROVE  \E g : Folding(loop, g, from, p, n + 1)
  <1> DEFINE g == [s \in SUBSET (1..n+1) |->
                     IF n + 1 \in s THEN Turn(loop, f[s \ {n + 1}], p[n + 1]) ELSE f[s]]
  <1> SUFFICES Folding(loop, g, from, p, n + 1)
    OBVIOUS
  <1> SUFFICES ASSUME NEW s \in SUBSET (1..n+1)
               PROVE  g[s] = IF s = {} THEN from ELSE Turn(loop, g[s \ {Max(s)}], p[Max(s)])
    BY DEF Folding
  <1>1. CASE n + 1 \in s
    <2>1. n + 1 \in Nat /\ s # {}
      BY <1>1
    <2>2. Max(s) = n + 1
      <3>1. Max(s) \in s /\ n + 1 <= Max(s)
        BY <1>1, <2>1, MaxOfRange
      <3>2. Max(s) \in 1..n+1
        BY <3>1
      <3> QED
        BY <3>1, <3>2
    <2>3. s \ {n + 1} \in SUBSET (1..n) /\ s \ {n + 1} \in SUBSET (1..n+1)
      OBVIOUS
    <2> QED
      BY <1>1, <2>2, <2>3
  <1>2. CASE n + 1 \notin s
    <2>1. s \in SUBSET (1..n)
      BY <1>2
    <2>3. ASSUME NEW m
          PROVE  s \ {m} \in SUBSET (1..n) /\ s \ {m} \in SUBSET (1..n+1)
                 /\ n + 1 \notin s \ {m}
      BY <1>2, <2>1
    <2>4. f[s] = IF s = {} THEN from ELSE Turn(loop, f[s \ {Max(s)}], p[Max(s)])
      BY <2>1 DEF Folding
    <2> QED
      BY <1>2, <2>3, <2>4
  <1> QED
    BY <1>1, <1>2

LEMMA FoldingExists ==
    ASSUME NEW loop, NEW from, NEW p, NEW n \in Nat
    PROVE  \E f : Folding(loop, f, from, p, n)
  <1> DEFINE T == {k \in Nat : ~\E f : Folding(loop, f, from, p, k)}
  <1> SUFFICES ASSUME T # {} PROVE FALSE
    OBVIOUS
  <1>1. PICK k \in T : \A j \in T : k <= j
    <2> T \subseteq Nat
      OBVIOUS
    <2> HIDE DEF T
    <2> QED
      BY LeastNatural
  <1>2. CASE k = 0
    <2> DEFINE f == [s \in SUBSET (1..0) |-> from]
    <2>1. Folding(loop, f, from, p, 0)
      <3> SUFFICES ASSUME NEW s \in SUBSET (1..0) PROVE s = {}
        BY DEF Folding
      <3> QED
        OBVIOUS
    <2> QED
      BY <1>2, <2>1
  <1>3. CASE k # 0
    <2>1. k - 1 \in Nat /\ k - 1 \notin T /\ (k - 1) + 1 = k
      BY <1>1, <1>3
    <2>2. PICK f : Folding(loop, f, from, p, k - 1)
      BY <2>1
    <2> QED
      BY <2>1, <2>2, FoldingNext
  <1> QED
    BY <1>2, <1>3

(* A fold goes turn by turn.                                                 *)
LEMMA FoldingGoes ==
    ASSUME NEW loop, NEW from, NEW p, NEW n \in Nat, NEW f,
           Folding(loop, f, from, p, n)
    PROVE  \E h : Turns(loop, h, from, p, n) /\ f[1..n] = h[n]
  <1>1. Folding(loop, f, from, p, n)
    OBVIOUS
  <1> DEFINE h == [i \in 0..n |-> f[1..i]]
  <1>2. h[0] = from
    <2>1. 1..0 = {} /\ {} \in SUBSET (1..n)
      OBVIOUS
    <2>2. f[{}] = from
      BY <1>1, <2>1 DEF Folding
    <2> QED
      BY <2>1, <2>2
  <1>3. ASSUME NEW i \in 1..n PROVE h[i] = Turn(loop, h[i - 1], p[i])
    <2>1. 1..i \in SUBSET (1..n) /\ 1..i # {}
      <3>1. i \in 1..i /\ \A k \in 1..i : k \in 1..n
        OBVIOUS
      <3> QED
        BY <3>1
    <2>4. (1..i) \ {i} = 1..(i - 1)
      <3>1. \A k : k \in (1..i) \ {i} <=> k \in 1..(i - 1)
        OBVIOUS
      <3> QED
        BY <3>1
    <2>2. Max(1..i) = i
      <3>1. Max(1..i) \in 1..i /\ \A k \in 1..i : k <= Max(1..i)
        BY <2>1, MaxOfRange
      <3> QED
        BY <3>1
    <2>3. f[1..i] = Turn(loop, f[(1..i) \ {i}], p[i])
      BY <1>1, <2>1, <2>2 DEF Folding
    <2>5. i \in 0..n /\ i - 1 \in 0..n
      OBVIOUS
    <2> QED
      BY <2>3, <2>4, <2>5
  <1>4. h[n] = f[1..n]
    OBVIOUS
  <1> HIDE DEF h
  <1> QED
    BY <1>1, <1>2, <1>3, <1>4 DEF Turns

(* apply_patch goes through a harness per operation.                         *)
LEMMA ApplyPatchGoes ==
    ASSUME NEW from, NEW p, NEW n \in Nat, DOMAIN p = 1..n
    PROVE  \E h : Applies(h, from, p, n) /\ ApplyPatch(from, p) = h[n]
  <1> DEFINE f == CHOOSE f : Folding("operations", f, from, p, n)
  <1>1. Folding("operations", f, from, p, n)
    BY FoldingExists
  <1>2. ApplyPatch(from, p) = f[1..n]
    BY DEF ApplyPatch, FoldLeft, MapThenFoldSet, Folding, Turn
  <1> HIDE DEF f
  <1>3. PICK h : Turns("operations", h, from, p, n) /\ f[1..n] = h[n]
    BY <1>1, FoldingGoes
  <1> QED
    BY <1>2, <1>3 DEF Turns, Turn, Applies

(* _build_merge_group goes through the ranked rows.                          *)
Grown(rows) == FoldLeft(LAMBDA g, r : IF Joins(r, g) THEN Append(g, r) ELSE g, <<>>, rows)

LEMMA GrownGoes ==
    ASSUME NEW rows, NEW n \in Nat, DOMAIN rows = 1..n
    PROVE  \E h : Turns("rows", h, <<>>, rows, n) /\ Grown(rows) = h[n]
  <1> DEFINE f == CHOOSE f : Folding("rows", f, <<>>, rows, n)
  <1>1. Folding("rows", f, <<>>, rows, n)
    BY FoldingExists
  <1>2. Grown(rows) = f[1..n]
    BY DEF Grown, FoldLeft, MapThenFoldSet, Folding, Turn
  <1> HIDE DEF f
  <1> QED
    BY <1>1, <1>2, FoldingGoes

(* ... and there is only one way to go.                                      *)
LEMMA OneWay ==
    ASSUME NEW from, NEW p, NEW n \in Nat, NEW g, Applies(g, from, p, n),
           NEW h, Applies(h, from, p, n)
    PROVE  \A i \in 0..n : g[i] = h[i]
  <1> DEFINE T == {i \in 0..n : g[i] # h[i]}
  <1> SUFFICES ASSUME T # {} PROVE FALSE
    OBVIOUS
  <1>1. PICK k \in T : \A j \in T : k <= j
    <2> T \subseteq Nat
      OBVIOUS
    <2> HIDE DEF T
    <2> QED
      BY LeastNatural
  <1>2. k # 0
    BY DEF Applies
  <1>3. k \in 1..n /\ g[k - 1] = h[k - 1]
    BY <1>1, <1>2
  <1> QED
    BY <1>3 DEF Applies

LEMMA ApplyPatchIs ==
    ASSUME NEW from, NEW p, NEW n \in Nat, DOMAIN p = 1..n,
           NEW h, Applies(h, from, p, n)
    PROVE  ApplyPatch(from, p) = h[n]
  <1>1. PICK g : Applies(g, from, p, n) /\ ApplyPatch(from, p) = g[n]
    BY ApplyPatchGoes
  <1>2. n \in 0..n
    OBVIOUS
  <1> QED
    BY <1>1, <1>2, OneWay

\* A sequence of anything.
IsSeq(s) == \E S : s \in Seq(S)

LEMMA SeqDomain ==
    ASSUME NEW p, IsSeq(p)
    PROVE  Len(p) \in Nat /\ DOMAIN p = 1..Len(p)
  BY DEF IsSeq

\* A harness that gives the surfaces in D a value.
Gives(h, D) == h = [s \in D |-> h[s]]

(* A patch leaves a harness with the same surfaces.                          *)
LEMMA WayGives ==
    ASSUME NEW from, NEW D, Gives(from, D), NEW p, NEW n \in Nat,
           NEW h, Applies(h, from, p, n)
    PROVE  \A i \in 0..n : Gives(h[i], D)
  <1> DEFINE T == {i \in 0..n : ~Gives(h[i], D)}
  <1> SUFFICES ASSUME T # {} PROVE FALSE
    OBVIOUS
  <1>1. PICK k \in T : \A j \in T : k <= j
    <2> T \subseteq Nat
      OBVIOUS
    <2> HIDE DEF T
    <2> QED
      BY LeastNatural
  <1>2. k # 0
    BY DEF Applies
  <1>3. k \in 1..n /\ Gives(h[k - 1], D)
    BY <1>1, <1>2
  <1>4. h[k] = ApplyOp(h[k - 1], p[k])
    BY <1>3 DEF Applies
  <1>5. Gives(h[k], D)
    BY <1>3, <1>4 DEF Gives, ApplyOp
  <1> QED
    BY <1>5

LEMMA ApplyPatchGives ==
    ASSUME NEW from, NEW D, Gives(from, D), NEW p, IsSeq(p)
    PROVE  Gives(ApplyPatch(from, p), D)
  <1>1. PICK h : Applies(h, from, p, Len(p)) /\ ApplyPatch(from, p) = h[Len(p)]
    BY ApplyPatchGoes, SeqDomain
  <1> QED
    BY <1>1, WayGives, SeqDomain

(* No operations change nothing.                                             *)
LEMMA ApplyPatchEmpty ==
    ASSUME NEW from
    PROVE  ApplyPatch(from, <<>>) = from
  <1>1. DOMAIN <<>> = 1..0 /\ 0 \in Nat
    OBVIOUS
  <1>2. PICK h : Applies(h, from, <<>>, 0) /\ ApplyPatch(from, <<>>) = h[0]
    BY <1>1, ApplyPatchGoes
  <1> QED
    BY <1>2 DEF Applies

(* Two patches one after the other are the patch of their operations.        *)
LEMMA ApplyPatchConcat ==
    ASSUME NEW from, NEW p, IsSeq(p), NEW q, IsSeq(q)
    PROVE  /\ IsSeq(p \o q)
           /\ ApplyPatch(from, p \o q) = ApplyPatch(ApplyPatch(from, p), q)
  <1> DEFINE n == Len(p)
             m == Len(q)
  <1>1. /\ n \in Nat /\ DOMAIN p = 1..n /\ m \in Nat /\ DOMAIN q = 1..m
    BY SeqDomain
  <1>2. IsSeq(p \o q) /\ Len(p \o q) = n + m
        /\ \A i \in 1..n+m : (p \o q)[i] = IF i <= n THEN p[i] ELSE q[i - n]
    <2>1. PICK S, R : p \in Seq(S) /\ q \in Seq(R)
      BY DEF IsSeq
    <2>2. p \in Seq(S \cup R) /\ q \in Seq(S \cup R)
      BY <2>1
    <2>3. p \o q \in Seq(S \cup R)
      BY <2>2
    <2> QED
      BY <2>2, <2>3 DEF IsSeq
  <1>3. PICK h : Applies(h, from, p, n) /\ ApplyPatch(from, p) = h[n]
    BY <1>1, ApplyPatchGoes
  <1>4. PICK g : Applies(g, h[n], q, m) /\ ApplyPatch(h[n], q) = g[m]
    BY <1>1, ApplyPatchGoes
  <1> DEFINE r == [i \in 0..n+m |-> IF i <= n THEN h[i] ELSE g[i - n]]
  <1> HIDE DEF n, m
  <1>5. r[0] = from
    BY <1>1, <1>3 DEF Applies
  <1>6. ASSUME NEW i \in 1..n+m PROVE r[i] = ApplyOp(r[i - 1], (p \o q)[i])
    <2>1. i \in 0..n+m /\ i - 1 \in 0..n+m
      BY <1>1
    <2>2. CASE i <= n
      <3>1. i \in 1..n /\ i - 1 <= n
        BY <1>1, <2>2
      <3> QED
        BY <1>2, <1>3, <2>1, <2>2, <3>1 DEF Applies
    <2>3. CASE i = n + 1
      <3>1. 1 \in 1..m /\ i - n = 1 /\ ~(i <= n) /\ i - 1 = n /\ n <= n
        BY <1>1, <2>3
      <3>2. g[1] = ApplyOp(g[1 - 1], q[1]) /\ g[0] = h[n]
        BY <1>4, <3>1 DEF Applies
      <3> QED
        BY <1>2, <2>1, <3>1, <3>2
    <2>4. CASE i > n + 1
      <3>1. i - n \in 1..m /\ ~(i <= n) /\ ~(i - 1 <= n) /\ (i - 1) - n = (i - n) - 1
        BY <1>1, <2>4
      <3>2. g[i - n] = ApplyOp(g[(i - n) - 1], q[i - n])
        BY <1>4, <3>1 DEF Applies
      <3> QED
        BY <1>2, <2>1, <3>1, <3>2
    <2> QED
      BY <1>1, <2>2, <2>3, <2>4
  <1>7. r[n + m] = g[m]
    <2>1. CASE m = 0
      <3>1. r[n + m] = h[n]
        BY <1>1, <2>1
      <3> QED
        BY <1>4, <2>1, <3>1 DEF Applies
    <2>2. CASE m # 0
      BY <1>1, <2>2
    <2> QED
      BY <2>1, <2>2
  <1> HIDE DEF r
  <1>8. Applies(r, from, p \o q, n + m)
    BY <1>5, <1>6 DEF Applies
  <1>9. n + m \in Nat /\ DOMAIN (p \o q) = 1..n+m
    BY <1>1, <1>2, SeqDomain
  <1>10. ApplyPatch(from, p \o q) = r[n + m]
    BY <1>8, <1>9, ApplyPatchIs
  <1> QED
    BY <1>2, <1>3, <1>4, <1>7, <1>10

(* The reverse of an operation undoes it, on whatever surface.               *)
LEMMA ReverseOpUndoes ==
    ASSUME NEW h, NEW D, Gives(h, D), NEW o
    PROVE  ApplyOp(ApplyOp(h, o), ReverseOp(h, o)) = h
  <1> DEFINE g == ApplyOp(h, o)
             r == ReverseOp(h, o)
  <1>1. r.op = "ReplaceSurface" /\ r.surface = o.surface
        /\ r.payload = h[o.surface]
    BY DEF ReverseOp
  <1>2. NewValue(g[r.surface], r) = h[o.surface]
    BY <1>1 DEF NewValue
  <1>3. g = [s \in D |-> IF s = o.surface THEN NewValue(h[o.surface], o) ELSE h[s]]
    BY DEF ApplyOp, Gives
  <1> HIDE DEF g, r
  <1>4. [g EXCEPT ![r.surface] = h[o.surface]] = h
    BY <1>1, <1>3 DEF Gives
  <1> QED
    BY <1>2, <1>4 DEF ApplyOp, g, r

(* A patch cut short leads to the harness on the way.                        *)
LEMMA ApplyPatchPrefix ==
    ASSUME NEW from, NEW p, IsSeq(p), NEW h, Applies(h, from, p, Len(p)),
           NEW k \in 0..Len(p)
    PROVE  ApplyPatch(from, SubSeq(p, 1, k)) = h[k]
  <1>1. Len(p) \in Nat /\ DOMAIN p = 1..Len(p)
    BY SeqDomain
  <1>2. /\ DOMAIN SubSeq(p, 1, k) = 1..k
        /\ \A i \in 1..k : SubSeq(p, 1, k)[i] = p[i]
    BY <1>1 DEF IsSeq
  <1>3. Applies(h, from, SubSeq(p, 1, k), k)
    BY <1>1, <1>2 DEF Applies
  <1>4. k \in Nat
    BY <1>1
  <1> QED
    BY <1>2, <1>3, <1>4, ApplyPatchIs

(* The reverse patch takes the patched harness back.                         *)
LEMMA ReversePatchUndoes ==
    ASSUME NEW from, NEW D, Gives(from, D), NEW p, IsSeq(p)
    PROVE  /\ DOMAIN ReversePatch(from, p) = 1..Len(p)
           /\ ApplyPatch(ApplyPatch(from, p), ReversePatch(from, p)) = from
  <1> DEFINE n == Len(p)
             R == ReversePatch(from, p)
  <1>1. n \in Nat /\ DOMAIN p = 1..n
    BY SeqDomain
  <1>2. DOMAIN R = 1..n
    BY <1>1 DEF ReversePatch
  <1>3. PICK h : Applies(h, from, p, n) /\ ApplyPatch(from, p) = h[n]
    BY <1>1, ApplyPatchGoes
  <1> DEFINE g == [j \in 0..n |-> h[n - j]]
  <1>4. ASSUME NEW j \in 1..n PROVE g[j] = ApplyOp(g[j - 1], R[j])
    <2> DEFINE k == n + 1 - j
    <2>1. k \in 1..n /\ k - 1 \in 0..n /\ k \in 0..n /\ k - 1 = n - j /\ k = n - (j - 1)
          /\ j \in 0..n /\ j - 1 \in 0..n
      BY <1>1
    <2>2. R[j] = ReverseOp(ApplyPatch(from, SubSeq(p, 1, k - 1)), p[k])
      BY <1>1 DEF ReversePatch
    <2>3. g[j] = h[k - 1] /\ g[j - 1] = h[k]
      BY <2>1
    <2> HIDE DEF k, n, R
    <2>4. ApplyPatch(from, SubSeq(p, 1, k - 1)) = h[k - 1]
      BY <1>3, <2>1, ApplyPatchPrefix DEF n
    <2>5. h[k] = ApplyOp(h[k - 1], p[k])
      BY <1>3, <2>1 DEF Applies
    <2>6. Gives(h[k - 1], D)
      BY <1>1, <1>3, <2>1, WayGives
    <2> HIDE DEF g
    <2> QED
      BY <2>2, <2>3, <2>4, <2>5, <2>6, ReverseOpUndoes
  <1>5. g[0] = h[n] /\ g[n] = from
    BY <1>1, <1>3 DEF Applies
  <1> HIDE DEF g, R, n
  <1>6. Applies(g, h[n], R, n)
    BY <1>4, <1>5 DEF Applies
  <1>7. ApplyPatch(h[n], R) = g[n]
    BY <1>1, <1>2, <1>6, ApplyPatchIs
  <1> QED
    BY <1>2, <1>3, <1>5, <1>7 DEF n, R

-----------------------------------------------------------------------------
(* The loop of apply_patch and the way back.                                 *)

\* What is still to be merged or applied comes from the patches of the group;
\* reverse_ops holds valid replacements of the harness's own surfaces.
Queues ==
    /\ pending \in Seq(Patches)
    /\ phase \in {"merge", "apply", "applied"} => todo \in Seq(PatchOps)
    /\ IsSeq(past) /\ IsSeq(reverse) /\ IsSeq(todo)
    /\ \A i \in 1..Len(Stack) :
          /\ ValidOp(Stack[i])
          /\ Stack[i].surface \in Surfaces

PatchInv == TypeOK /\ Queues /\ UndoStepExact

-----------------------------------------------------------------------------
(* Putting an element in front of a sequence of anything.                    *)
LEMMA PrependSeq ==
    ASSUME NEW s, IsSeq(s), NEW e
    PROVE  /\ IsSeq(<<e>> \o s)
           /\ Len(s) \in Nat
           /\ Len(<<e>> \o s) = Len(s) + 1
           /\ (<<e>> \o s)[1] = e
           /\ \A i \in 1..Len(s) : (<<e>> \o s)[i + 1] = s[i]
  <1>1. PICK S : s \in Seq(S)
    BY DEF IsSeq
  <1>2. s \in Seq(S \cup {e}) /\ <<e>> \in Seq(S \cup {e})
    BY <1>1
  <1>3. <<e>> \o s \in Seq(S \cup {e})
    BY <1>2
  <1>4. IsSeq(<<e>> \o s)
    BY <1>3 DEF IsSeq
  <1> QED
    BY <1>2, <1>4

(* Taking the first element off a sequence of anything.                      *)
LEMMA TailSeq ==
    ASSUME NEW s, IsSeq(s), s # <<>>
    PROVE  /\ IsSeq(Tail(s))
           /\ Len(s) \in Nat \ {0}
           /\ Len(Tail(s)) = Len(s) - 1
           /\ Head(s) = s[1]
           /\ \A i \in 1..Len(s) - 1 : Tail(s)[i] = s[i + 1]
  <1>1. PICK S : s \in Seq(S)
    BY DEF IsSeq
  <1>2. Tail(s) \in Seq(S)
    BY <1>1
  <1>3. IsSeq(Tail(s))
    BY <1>2 DEF IsSeq
  <1> QED
    BY <1>1, <1>3

(* The reverse of an operation is a valid replacement of the same surface.   *)
LEMMA ReverseOpValid ==
    ASSUME NEW h, NEW o, o.surface \in Surfaces
    PROVE  /\ ValidOp(ReverseOp(h, o))
           /\ ReverseOp(h, o).surface = o.surface
  BY SurfacesEditable
  DEF ReverseOp, ValidOp, OpWhitelist, EditableSurfaces

(* Applying the reverse of an operation to what the operation made of a      *)
(* harness gives the harness back.                                           *)
LEMMA ReverseOpExact ==
    ASSUME NEW h, h = [s \in Surfaces |-> h[s]], NEW o
    PROVE  ApplyOp(ApplyOp(h, o), ReverseOp(h, o)) = h
  BY ReverseOpUndoes DEF Gives

(* An operation leaves a harness with the same surfaces.                     *)
LEMMA ApplyOpSurfaces ==
    ASSUME NEW h, h = [s \in Surfaces |-> h[s]], NEW o
    PROVE  ApplyOp(h, o) = [s \in Surfaces |-> ApplyOp(h, o)[s]]
  BY DEF ApplyOp

-----------------------------------------------------------------------------
(* The invariant holds at the start.                                         *)
LEMMA InitInv == PatchInit => PatchInv
  <1> SUFFICES ASSUME PatchInit PROVE PatchInv
    OBVIOUS
  <1>1. group \in Seq(Patches) /\ pending \in Seq(Patches)
        /\ todo \in Seq(PatchOps)
    <2>1. CASE \E p \in Patches : /\ group = <<p>> /\ pending = <<>>
                                 /\ todo = p
      BY <2>1, PatchesAreSequences
    <2>2. CASE /\ group \in UNION {[1..n -> Patches] : n \in 2..MaxGroup}
               /\ pending = group /\ todo = <<>>
      <3>1. PICK n \in 2..MaxGroup : group \in [1..n -> Patches]
        BY <2>2
      <3>2. n \in Nat
        BY MaxGroupNat
      <3>3. group \in Seq(Patches)
        BY <3>1, <3>2
      <3> QED
        BY <2>2, <3>3
    <2> QED
      BY <2>1, <2>2 DEF PatchInit
  <1>2. TypeOK
    BY SpecsAreHarnesses DEF PatchInit, TypeOK
  <1>3. Stack = <<>> /\ past = <<>>
    BY DEF PatchInit, Stack
  <1>4. IsSeq(past) /\ IsSeq(reverse) /\ IsSeq(todo)
    <2>1. past \in Seq({}) /\ reverse \in Seq({})
      BY DEF PatchInit
    <2> QED
      BY <1>1, <2>1 DEF IsSeq
  <1>5. Queues
    BY <1>1, <1>3, <1>4 DEF Queues
  <1>6. UndoStepExact
    BY <1>3 DEF PatchInit, UndoStepExact
  <1> QED
    BY <1>2, <1>5, <1>6 DEF PatchInv

(* Every step preserves it.  Applying an operation pushes its exact reverse  *)
(* on the stack, undoing one pops it, and the other steps leave the stack    *)
(* as it is.                                                                 *)
LEMMA NextInv == PatchInv /\ [PatchNext]_patchVars => PatchInv'
  <1> SUFFICES ASSUME PatchInv, [PatchNext]_patchVars PROVE PatchInv'
    OBVIOUS
  <1> USE DEF PatchInv
  <1>1. CASE Merge
    <2>1. Head(pending) \in Patches /\ Tail(pending) \in Seq(Patches)
      BY <1>1 DEF Merge, Queues
    <2>2. todo' \in Seq(PatchOps)
      BY <1>1, <2>1, PatchesAreSequences DEF Merge, Queues
    <2>3. IsSeq(todo')
      BY <2>2 DEF IsSeq
    <2>4. Stack' = Stack
      BY <1>1 DEF Merge, Stack
    <2>5. TypeOK'
      BY <1>1 DEF Merge, TypeOK
    <2>6. Queues'
      BY <1>1, <2>1, <2>2, <2>3, <2>4 DEF Merge, Queues, Stack
    <2>7. UndoStepExact'
      BY <1>1, <2>4 DEF Merge, UndoStepExact
    <2> QED
      BY <2>5, <2>6, <2>7
  <1>2. CASE Merged
    <2>1. Stack' = Stack
      BY <1>2 DEF Merged, Stack
    <2>2. TypeOK'
      BY <1>2 DEF Merged, TypeOK
    <2>3. Queues'
      BY <1>2, <2>1 DEF Merged, Queues
    <2>4. UndoStepExact'
      BY <1>2, <2>1 DEF Merged, UndoStepExact
    <2> QED
      BY <2>2, <2>3, <2>4
  <1>3. CASE Apply
    <2> DEFINE o == Head(todo)
               r == ReverseOp(spec, o)
    <2>1. todo \in Seq(PatchOps) /\ todo # <<>>
      BY <1>3 DEF Apply, Queues
    <2>2. o \in PatchOps /\ Tail(todo) \in Seq(PatchOps)
      BY <2>1
    <2>3. o.surface \in Surfaces
      BY <2>2, PatchesOnSurfaces
    <2>4. Stack = reverse /\ Stack' = reverse'
      BY <1>3 DEF Apply, Stack
    <2>5. reverse' = <<r>> \o reverse /\ past' = <<spec>> \o past
          /\ spec' = ApplyOp(spec, o)
      BY <1>3 DEF Apply
    <2>6. ValidOp(r) /\ r.surface \in Surfaces
      BY <2>3, ReverseOpValid
    <2>7. ApplyOp(spec', r) = spec
      BY <2>3, <2>5, ReverseOpExact DEF TypeOK
    <2> HIDE DEF o, r
    <2>8. /\ IsSeq(reverse') /\ Len(reverse') = Len(reverse) + 1
          /\ reverse'[1] = r /\ Len(reverse) \in Nat
          /\ \A i \in 1..Len(reverse) : reverse'[i + 1] = reverse[i]
      BY <2>5, PrependSeq DEF Queues
    <2>9. /\ IsSeq(past') /\ Len(past') = Len(past) + 1
          /\ past'[1] = spec /\ Len(past) \in Nat
          /\ \A i \in 1..Len(past) : past'[i + 1] = past[i]
      BY <2>5, PrependSeq DEF Queues
    <2>10. TypeOK'
      BY <1>3, <2>5, ApplyOpSurfaces DEF Apply, TypeOK
    <2>11. Queues'
      <3>1. IsSeq(todo')
        BY <1>3, <2>2 DEF Apply, IsSeq
      <3>2. ASSUME NEW i \in 1..Len(Stack')
            PROVE  ValidOp(Stack'[i]) /\ Stack'[i].surface \in Surfaces
        <4>1. CASE i = 1
          BY <2>4, <2>6, <2>8, <4>1
        <4>2. CASE i # 1
          <5>1. i - 1 \in 1..Len(reverse) /\ Stack'[i] = Stack[i - 1]
            BY <2>4, <2>8, <4>2
          <5> QED
            BY <2>4, <5>1 DEF Queues
        <4> QED
          BY <4>1, <4>2
      <3> QED
        BY <1>3, <2>2, <2>8, <2>9, <3>1, <3>2 DEF Apply, Queues
    <2>12. UndoStepExact'
      <3>1. Len(past') = Len(Stack')
        BY <2>4, <2>8, <2>9 DEF UndoStepExact
      <3>2. ASSUME NEW i \in 1..Len(past')
            PROVE  ApplyOp(IF i = 1 THEN spec' ELSE past'[i - 1], Stack'[i])
                     = past'[i]
        <4>1. CASE i = 1
          BY <2>4, <2>7, <2>8, <2>9, <4>1
        <4>2. CASE i # 1
          <5>1. i - 1 \in 1..Len(past) /\ Stack'[i] = Stack[i - 1]
                /\ past'[i] = past[i - 1]
            BY <2>4, <2>8, <2>9, <4>2 DEF UndoStepExact
          <5>2. past'[i - 1] = IF i - 1 = 1 THEN spec ELSE past[(i - 1) - 1]
            BY <2>9, <4>2, <5>1
          <5> QED
            BY <4>2, <5>1, <5>2 DEF UndoStepExact
        <4> QED
          BY <4>1, <4>2
      <3>3. IF past' = <<>> THEN spec' = origin' ELSE past'[Len(past')] = origin'
        <4>1. past' # <<>> /\ origin' = origin
          BY <1>3, <2>9 DEF Apply
        <4>2. CASE past = <<>>
          BY <2>9, <4>1, <4>2 DEF UndoStepExact
        <4>3. CASE past # <<>>
          <5>1. Len(past) \in 1..Len(past)
            BY <2>9, <4>3 DEF Queues, IsSeq
          <5> QED
            BY <2>9, <4>1, <4>3, <5>1 DEF UndoStepExact
        <4> QED
          BY <4>2, <4>3
      <3> QED
        BY <3>1, <3>2, <3>3 DEF UndoStepExact
    <2> QED
      BY <2>10, <2>11, <2>12
  <1>4. CASE Reject
    <2>1. Stack' = <<>>
      BY <1>4 DEF Reject, Stack
    <2>2. TypeOK'
      BY <1>4, SpecsAreHarnesses DEF Reject, TypeOK
    <2>3. IsSeq(<<>>)
      <3>1. <<>> \in Seq({})
        OBVIOUS
      <3> QED
        BY <3>1 DEF IsSeq
    <2>4. Queues'
      BY <1>4, <2>1, <2>3 DEF Reject, Queues
    <2>5. UndoStepExact'
      BY <1>4, <2>1 DEF Reject, UndoStepExact
    <2> QED
      BY <2>2, <2>4, <2>5
  <1>5. CASE Applied
    <2>1. Stack' = Stack
      BY <1>5 DEF Applied, Stack
    <2>2. TypeOK'
      BY <1>5 DEF Applied, TypeOK
    <2>3. Queues'
      BY <1>5, <2>1 DEF Applied, Queues
    <2>4. UndoStepExact'
      BY <1>5, <2>1 DEF Applied, UndoStepExact
    <2> QED
      BY <2>2, <2>3, <2>4
  <1>6. CASE StartUndo
    <2>1. Stack' = Stack
      BY <1>6 DEF StartUndo, Stack
    <2>2. TypeOK'
      BY <1>6 DEF StartUndo, TypeOK
    <2>3. Queues'
      BY <1>6, <2>1 DEF StartUndo, Queues
    <2>4. UndoStepExact'
      BY <1>6, <2>1 DEF StartUndo, UndoStepExact
    <2> QED
      BY <2>2, <2>3, <2>4
  <1>7. CASE Undo
    <2>1. Stack = todo /\ Stack' = Tail(todo) /\ todo # <<>>
          /\ spec' = ApplyOp(spec, todo[1]) /\ past' = Tail(past)
      BY <1>7, TailSeq DEF Undo, Stack, Queues
    <2>2. /\ IsSeq(todo') /\ Len(todo') = Len(todo) - 1
          /\ Len(todo) \in Nat \ {0}
          /\ \A i \in 1..Len(todo) - 1 : todo'[i] = todo[i + 1]
      BY <1>7, TailSeq DEF Undo, Queues
    <2>3. past # <<>>
      BY <2>1, <2>2 DEF UndoStepExact
    <2>4. /\ IsSeq(past') /\ Len(past') = Len(past) - 1
          /\ Len(past) \in Nat \ {0}
          /\ \A i \in 1..Len(past) - 1 : past'[i] = past[i + 1]
      BY <2>1, <2>3, TailSeq DEF Queues
    <2>5. spec' = past[1]
      BY <2>1, <2>4 DEF UndoStepExact
    <2>6. TypeOK'
      BY <1>7, ApplyOpSurfaces DEF Undo, TypeOK
    <2>7. Queues'
      <3>1. \A i \in 1..Len(Stack') : i + 1 \in 1..Len(Stack)
                                     /\ Stack'[i] = Stack[i + 1]
        BY <1>7, <2>1, <2>2 DEF Undo
      <3> QED
        BY <1>7, <2>2, <2>4, <3>1 DEF Undo, Queues
    <2>8. UndoStepExact'
      <3>1. Len(past') = Len(Stack')
        BY <1>7, <2>1, <2>2, <2>4 DEF UndoStepExact, Undo
      <3>2. ASSUME NEW i \in 1..Len(past')
            PROVE  ApplyOp(IF i = 1 THEN spec' ELSE past'[i - 1], Stack'[i])
                     = past'[i]
        <4>1. i + 1 \in 1..Len(past) /\ Stack'[i] = Stack[i + 1]
              /\ past'[i] = past[i + 1]
          BY <1>7, <2>1, <2>2, <2>4 DEF UndoStepExact, Undo
        <4>2. (IF i = 1 THEN spec' ELSE past'[i - 1]) = past[(i + 1) - 1]
          BY <2>4, <2>5, <4>1
        <4>3. ApplyOp(IF i + 1 = 1 THEN spec ELSE past[(i + 1) - 1], Stack[i + 1])
                = past[i + 1]
          BY <4>1 DEF UndoStepExact
        <4>4. i + 1 # 1
          OBVIOUS
        <4> QED
          BY <4>1, <4>2, <4>3, <4>4
      <3>3. IF past' = <<>> THEN spec' = origin' ELSE past'[Len(past')] = origin'
        <4>1. origin' = origin /\ past[Len(past)] = origin
          BY <1>7, <2>3 DEF Undo, UndoStepExact
        <4>2. CASE Len(past) = 1
          BY <2>4, <2>5, <4>1, <4>2 DEF IsSeq
        <4>3. CASE Len(past) # 1
          <5>1. Len(past') \in 1..Len(past) - 1 /\ past' # <<>>
            BY <2>4, <4>3
          <5> QED
            BY <2>4, <4>1, <5>1
        <4> QED
          BY <4>2, <4>3
      <3> QED
        BY <3>1, <3>2, <3>3 DEF UndoStepExact
    <2> QED
      BY <2>6, <2>7, <2>8
  <1>8. CASE Undone
    <2>1. Stack' = Stack
      BY <1>8 DEF Undone, Stack
    <2>2. TypeOK'
      BY <1>8 DEF Undone, TypeOK
    <2>3. Queues'
      BY <1>8, <2>1 DEF Undone, Queues
    <2>4. UndoStepExact'
      BY <1>8, <2>1 DEF Undone, UndoStepExact
    <2> QED
      BY <2>2, <2>3, <2>4
  <1>9. CASE UNCHANGED patchVars
    BY <1>9 DEF patchVars, TypeOK, Queues, UndoStepExact, Stack
  <1> QED
    BY <1>1, <1>2, <1>3, <1>4, <1>5, <1>6, <1>7, <1>8, <1>9 DEF PatchNext

(* The strengthened invariant of the patch loop and of the way back.         *)
THEOREM PatchInvariant == PatchSpec => []PatchInv
  BY InitInv, NextInv, PTL DEF PatchSpec

(* Type correctness of the patch loop.                                       *)
THEOREM PatchTypeOK == PatchSpec => []TypeOK
  <1>1. PatchInv => TypeOK
    BY DEF PatchInv
  <1> QED
    BY <1>1, PatchInvariant, PTL

(* At every moment each reverse operation kept so far undoes exactly the     *)
(* operation it was made for, for any harness and any group of patches.      *)
THEOREM PatchUndoStepExact == PatchSpec => []UndoStepExact
  <1>1. PatchInv => UndoStepExact
    BY DEF PatchInv
  <1> QED
    BY <1>1, PatchInvariant, PTL

(* Applying the reverse patch of a lineage record to the harness after gives *)
(* the harness before.                                                       *)
THEOREM PatchUndoRestores == PatchSpec => []UndoRestores
  <1>1. PatchInv => UndoRestores
    <2> SUFFICES ASSUME PatchInv, phase = "undone" PROVE spec = origin
      BY DEF UndoRestores
    <2>1. Stack = <<>>
      BY DEF PatchInv, TypeOK, Stack
    <2>2. past = <<>>
      BY <2>1 DEF PatchInv, Queues, UndoStepExact, IsSeq
    <2> QED
      BY <2>2 DEF PatchInv, UndoStepExact
  <1> QED
    BY <1>1, PatchInvariant, PTL

(* No operation of a reverse patch is ever refused by validate_op.           *)
THEOREM PatchUndoValid ==
    PatchSpec => [](phase = "undo" /\ todo # <<>> => ValidOp(Head(todo)))
  <1>1. PatchInv => (phase = "undo" /\ todo # <<>> => ValidOp(Head(todo)))
    <2> SUFFICES ASSUME PatchInv, phase = "undo", todo # <<>>
                 PROVE  ValidOp(Head(todo))
      OBVIOUS
    <2>1. Stack = todo /\ Head(todo) = todo[1] /\ Len(todo) \in Nat \ {0}
      BY TailSeq DEF PatchInv, Queues, Stack
    <2> QED
      BY <2>1 DEF PatchInv, Queues
  <1> QED
    BY <1>1, PatchInvariant, PTL

-----------------------------------------------------------------------------
(* Ranking and merging.                                                      *)

LEMMA AppendSeq ==
    ASSUME NEW s, IsSeq(s), NEW e
    PROVE  /\ IsSeq(Append(s, e))
           /\ Len(s) \in Nat
           /\ Len(Append(s, e)) = Len(s) + 1
           /\ Append(s, e)[Len(s) + 1] = e
           /\ \A i \in 1..Len(s) : Append(s, e)[i] = s[i]
  <1>1. PICK S : s \in Seq(S)
    BY DEF IsSeq
  <1>2. s \in Seq(S \cup {e}) /\ e \in S \cup {e}
    BY <1>1
  <1>3. Append(s, e) \in Seq(S \cup {e})
    BY <1>2
  <1> QED
    BY <1>2, <1>3 DEF IsSeq

\* Two rows that may not be in one group.
Apart(r, q) ==
    ~(r.proposal.target = q.proposal.target /\ Mergeable(r.proposal.patch, q.proposal.patch))

\* What _build_merge_group has, after i of the rows, is a group: of those rows,
\* the first among them, and whatever is left out could not join.
Group(g, rows, i) ==
    /\ IsSeq(g)
    /\ \A k \in 1..Len(g) : \E j \in 1..i : g[k] = rows[j]
    /\ i > 0 => Len(g) > 0 /\ g[1] = rows[1]
    /\ \A j \in 1..i : \/ \E k \in 1..Len(g) : g[k] = rows[j]
                       \/ \E k \in 1..Len(g) : Apart(rows[j], g[k])

LEMMA GroupGrows ==
    ASSUME NEW rows, NEW i \in Nat, NEW g, Group(g, rows, i)
    PROVE  Group(IF Joins(rows[i + 1], g) THEN Append(g, rows[i + 1]) ELSE g, rows, i + 1)
  <1>1. IsSeq(g) /\ Len(g) \in Nat /\ DOMAIN g = 1..Len(g)
    BY SeqDomain DEF Group
  <1> DEFINE e == rows[i + 1]
  <1>2. CASE Joins(e, g)
    <2> DEFINE a == Append(g, e)
    <2>1. /\ IsSeq(a) /\ Len(a) = Len(g) + 1 /\ a[Len(g) + 1] = e
          /\ \A k \in 1..Len(g) : a[k] = g[k]
      BY <1>1, AppendSeq
    <2> HIDE DEF a
    <2>2. ASSUME NEW k \in 1..Len(a) PROVE \E j \in 1..i+1 : a[k] = rows[j]
      <3>1. CASE k = Len(g) + 1
        BY <2>1, <3>1
      <3>2. CASE k # Len(g) + 1
        <4>1. k \in 1..Len(g)
          BY <1>1, <2>1, <3>2
        <4>2. PICK j \in 1..i : g[k] = rows[j]
          BY <4>1 DEF Group
        <4> QED
          BY <2>1, <4>1, <4>2
      <3> QED
        BY <3>1, <3>2
    <2>3. Len(a) > 0 /\ a[1] = rows[1]
      <3>1. CASE i = 0
        <4>1. Len(g) = 0
          <5> SUFFICES ASSUME Len(g) # 0 PROVE FALSE
            OBVIOUS
          <5>1. 1 \in 1..Len(g)
            BY <1>1
          <5> QED
            BY <3>1, <5>1 DEF Group
        <4> QED
          BY <2>1, <3>1, <4>1
      <3>2. CASE i # 0
        BY <1>1, <2>1, <3>2 DEF Group
      <3> QED
        BY <3>1, <3>2
    <2>4. ASSUME NEW j \in 1..i+1
          PROVE  \/ \E k \in 1..Len(a) : a[k] = rows[j]
                 \/ \E k \in 1..Len(a) : Apart(rows[j], a[k])
      <3>1. CASE j = i + 1
        <4>1. Len(g) + 1 \in 1..Len(a)
          BY <1>1, <2>1
        <4> QED
          BY <2>1, <3>1, <4>1
      <3>2. CASE j # i + 1
        <4>1. j \in 1..i
          BY <3>2
        <4>2. \A k \in 1..Len(g) : k \in 1..Len(a) /\ a[k] = g[k]
          BY <1>1, <2>1
        <4> QED
          BY <4>1, <4>2 DEF Group
      <3> QED
        BY <3>1, <3>2
    <2>5. Group(a, rows, i + 1)
      BY <2>1, <2>2, <2>3, <2>4 DEF Group
    <2> QED
      BY <1>2, <2>5 DEF a
  <1>3. CASE ~Joins(e, g)
    <2>1. PICK k \in 1..Len(g) : Apart(e, g[k])
      BY <1>1, <1>3 DEF Joins, Apart
    <2>2. ASSUME NEW j \in 1..i+1
          PROVE  \/ \E m \in 1..Len(g) : g[m] = rows[j]
                 \/ \E m \in 1..Len(g) : Apart(rows[j], g[m])
      <3>1. CASE j = i + 1
        BY <2>1, <3>1
      <3>2. CASE j # i + 1
        <4>1. j \in 1..i
          BY <3>2
        <4> QED
          BY <4>1 DEF Group
      <3> QED
        BY <3>1, <3>2
    <2>3. \A m \in 1..Len(g) : \E j \in 1..i+1 : g[m] = rows[j]
      BY DEF Group
    <2>4. Len(g) > 0 /\ g[1] = rows[1]
      <3>1. i # 0
        <4>1. i = 0 => 1..i = {}
          OBVIOUS
        <4> QED
          BY <2>1, <4>1 DEF Group
      <3> QED
        BY <3>1 DEF Group
    <2>5. Group(g, rows, i + 1)
      BY <1>1, <2>2, <2>3, <2>4 DEF Group
    <2> QED
      BY <1>3, <2>5
  <1> QED
    BY <1>2, <1>3

(* The group of a ranking.                                                   *)
LEMMA GrownIsGroup ==
    ASSUME NEW rows, IsSeq(rows)
    PROVE  Group(Grown(rows), rows, Len(rows))
  <1> DEFINE n == Len(rows)
  <1>1. n \in Nat /\ DOMAIN rows = 1..n
    BY SeqDomain
  <1>2. PICK h : Turns("rows", h, <<>>, rows, n) /\ Grown(rows) = h[n]
    BY <1>1, GrownGoes
  <1> HIDE DEF n
  <1> DEFINE T == {i \in 0..n : ~Group(h[i], rows, i)}
  <1> SUFFICES ASSUME T # {} PROVE FALSE
    BY <1>1, <1>2 DEF n
  <1>3. PICK k \in T : \A j \in T : k <= j
    <2> T \subseteq Nat
      OBVIOUS
    <2> HIDE DEF T
    <2> QED
      BY LeastNatural
  <1>4. CASE k = 0
    <2>1. h[0] = <<>> /\ IsSeq(<<>>)
      <3>1. <<>> \in Seq({})
        OBVIOUS
      <3> QED
        BY <1>2, <3>1 DEF Turns, IsSeq
    <2>2. Len(<<>>) = 0 /\ 1..0 = {}
      OBVIOUS
    <2>3. Group(<<>>, rows, 0)
      BY <2>1, <2>2 DEF Group
    <2> QED
      BY <1>3, <1>4, <2>1, <2>3
  <1>5. CASE k # 0
    <2>1. k \in 1..n /\ k - 1 \in Nat /\ (k - 1) + 1 = k /\ k - 1 \in 0..n
      BY <1>1, <1>5
    <2>2. Group(h[k - 1], rows, k - 1)
      BY <1>3, <2>1
    <2>3. h[k] = IF Joins(rows[k], h[k - 1]) THEN Append(h[k - 1], rows[k]) ELSE h[k - 1]
      BY <1>2, <2>1 DEF Turns, Turn
    <2>4. Group(h[k], rows, k)
      BY <2>1, <2>2, <2>3, GroupGrows
    <2> QED
      BY <1>3, <2>4
  <1> QED
    BY <1>4, <1>5

(* pairwise_preference is a total order of the accepted rows, the place in   *)
(* the round being the last resort.                                          *)
LEMMA BeforeIsOrder ==
    ASSUME \A i \in AcceptedIndices : /\ i \in Nat
                                      /\ considered[i].proposal.id \in Nat
                                      /\ considered[i].proposal.priority \in Int
    PROVE  TotalOrder(AcceptedIndices,
                      [i \in AcceptedIndices |-> {j \in AcceptedIndices : Before(j, i)}])
  <1> DEFINE A == AcceptedIndices
             F(i) == Cardinality(Fixed(baseline, considered[i].eval))
             P(i) == considered[i].proposal.priority
             I(i) == considered[i].proposal.id
             below == [i \in A |-> {j \in A : Before(j, i)}]
  <1>1. ASSUME NEW i \in A PROVE F(i) \in Nat /\ P(i) \in Int /\ I(i) \in Nat /\ i \in Nat
    <2>1. Fixed(baseline, considered[i].eval) \subseteq HeldIn \cup HeldOut
      BY DEF Fixed
    <2>2. IsFiniteSet(Fixed(baseline, considered[i].eval))
      BY <2>1, SplitPartition, FS_Subset
    <2> QED
      BY <2>2, FS_CardinalityType
  <1>2. ASSUME NEW i \in A, NEW j \in A
        PROVE  Before(i, j) <=>
                 \/ F(i) > F(j)
                 \/ F(i) = F(j) /\ P(i) > P(j)
                 \/ F(i) = F(j) /\ P(i) = P(j) /\ I(i) < I(j)
                 \/ F(i) = F(j) /\ P(i) = P(j) /\ I(i) = I(j) /\ i < j
    <2> HIDE DEF A
    <2>1. <<I(i), i>> # <<I(j), j>> <=> I(i) # I(j) \/ i # j
      OBVIOUS
    <2>2. Before(i, j) <=>
            \/ F(i) > F(j)
            \/ /\ F(i) = F(j)
               /\ \/ P(i) > P(j)
                  \/ /\ P(i) = P(j)
                     /\ <<I(i), i>> # <<I(j), j>>
                     /\ I(i) <= I(j)
                     /\ I(i) = I(j) => i < j
      BY DEF Before
    <2> HIDE DEF F, P, I
    <2> QED
      BY <1>1, <2>1, <2>2
  <1> HIDE DEF F, P, I, A
  <1>3. ASSUME NEW i \in A PROVE ~Before(i, i)
    BY <1>1, <1>2
  <1>4. ASSUME NEW i \in A, NEW j \in A
        PROVE  i = j \/ Before(i, j) \/ Before(j, i)
    BY <1>1, <1>2
  <1>5. ASSUME NEW i \in A, NEW j \in A, NEW k \in A, Before(i, j), Before(j, k)
        PROVE  Before(i, k)
    <2>1. /\ F(i) \in Nat /\ P(i) \in Int /\ I(i) \in Nat /\ i \in Nat
          /\ F(j) \in Nat /\ P(j) \in Int /\ I(j) \in Nat /\ j \in Nat
          /\ F(k) \in Nat /\ P(k) \in Int /\ I(k) \in Nat /\ k \in Nat
      BY <1>1
    <2> DEFINE Less(m, n) ==
                 \/ F(m) > F(n)
                 \/ F(m) = F(n) /\ P(m) > P(n)
                 \/ F(m) = F(n) /\ P(m) = P(n) /\ I(m) < I(n)
                 \/ F(m) = F(n) /\ P(m) = P(n) /\ I(m) = I(n) /\ m < n
    <2>2. Less(i, j) /\ Less(j, k)
      BY <1>2, <1>5
    <2>3. Less(i, k)
      BY <2>1, <2>2
    <2> QED
      BY <1>2, <2>3
  <1>6. TotalOrder(A, below)
    BY <1>3, <1>4, <1>5 DEF TotalOrder
  <1> QED
    BY <1>6 DEF A

(* Ranking lists the accepted rows, each once, the preferred ones first.     *)
LEMMA RankedIsRanking ==
    ASSUME IsSeq(considered),
           \A i \in AcceptedIndices : /\ considered[i].proposal.id \in Nat
                                      /\ considered[i].proposal.priority \in Int
    PROVE  /\ IsSeq(Ranked)
           /\ Len(Ranked) = Cardinality(AcceptedIndices)
           /\ \A n \in 1..Len(Ranked) : \E i \in AcceptedIndices : Ranked[n] = considered[i]
           /\ \A i \in AcceptedIndices : \E n \in 1..Len(Ranked) : Ranked[n] = considered[i]
  <1> DEFINE A == AcceptedIndices
             below == [i \in A |-> {j \in A : Before(j, i)}]
             c == Cardinality(A)
             Sorted(s) == \A m, n \in DOMAIN s : m < n => Before(s[m], s[n])
  <1>1. A \subseteq 1..Len(considered) /\ Len(considered) \in Nat
    BY SeqDomain DEF AcceptedIndices
  <1>2. IsFiniteSet(A) /\ c \in Nat /\ \A i \in A : i \in Nat
    <2>1. IsFiniteSet(1..Len(considered))
      BY <1>1, FS_Interval
    <2>2. IsFiniteSet(A)
      BY <1>1, <2>1, FS_Subset
    <2> HIDE DEF A
    <2> QED
      BY <1>1, <2>2, FS_CardinalityType
  <1>3. TotalOrder(A, below)
    BY <1>2, BeforeIsOrder
  <1> HIDE DEF A
  <1>4. PICK s : InOrder(A, below, s)
    <2> HIDE DEF below
    <2> QED
      BY <1>2, <1>3, OrderExists
  <1>5. s \in SetToSeqs(A) /\ Sorted(s)
    <2>1. /\ s \in [1..c -> A]
          /\ \A m, n \in 1..c : m < n => s[m] \in below[s[n]]
      BY <1>4 DEF InOrder
    <2>2. \A m, n \in 1..c : m # n => s[m] # s[n]
      <3> HIDE DEF below
      <3> QED
        BY <1>2, <1>3, <1>4, OrderIsOnto
    <2>3. Sorted(s)
      BY <2>1
    <2> QED
      BY <2>1, <2>2, <2>3 DEF SetToSeqs
  <1>6. Ranking \in SetToSeqs(A) /\ Sorted(Ranking)
    BY <1>5 DEF Ranking, A
  <1>7. Ranking \in [1..c -> A]
    BY <1>6 DEF SetToSeqs
  <1>8. InOrder(A, below, Ranking)
    <2>1. \A m, n \in 1..c : m < n => Before(Ranking[m], Ranking[n])
      BY <1>6, <1>7
    <2> QED
      BY <1>7, <2>1 DEF InOrder
  <1>9. \A i \in A : \E n \in 1..c : Ranking[n] = i
    <2> HIDE DEF below
    <2> QED
      BY <1>2, <1>3, <1>8, OrderIsOnto
  <1> HIDE DEF c, below
  <1>10. Ranked = [n \in 1..c |-> considered[Ranking[n]]]
    BY <1>7 DEF Ranked
  <1>11. Ranked \in Seq({considered[i] : i \in A}) /\ Len(Ranked) = c
    BY <1>2, <1>7, <1>10
  <1>12. IsSeq(Ranked)
    BY <1>11 DEF IsSeq
  <1> QED
    BY <1>7, <1>9, <1>10, <1>11, <1>12 DEF A, c

(* merge_patches makes one sequence of operations of several.                *)
Flat(f, seqs, n) ==
    f = [i \in 1..n |-> IF i = 1 THEN seqs[i] ELSE f[i - 1] \o seqs[i]]

LEMMA FlatExists ==
    ASSUME NEW seqs, NEW n \in Nat
    PROVE  \E f : Flat(f, seqs, n)
  <1> DEFINE T == {k \in Nat : ~\E f : Flat(f, seqs, k)}
  <1> SUFFICES ASSUME T # {} PROVE FALSE
    OBVIOUS
  <1>1. PICK k \in T : \A j \in T : k <= j
    <2> T \subseteq Nat
      OBVIOUS
    <2> HIDE DEF T
    <2> QED
      BY LeastNatural
  <1>2. CASE k = 0
    <2> DEFINE f == [i \in 1..0 |-> seqs]
    <2>1. Flat(f, seqs, 0)
      <3> SUFFICES ASSUME NEW i \in 1..0 PROVE FALSE
        BY DEF Flat
      <3> QED
        OBVIOUS
    <2> QED
      BY <1>2, <2>1
  <1>3. CASE k # 0
    <2>1. k - 1 \in Nat /\ k - 1 \notin T
      BY <1>1, <1>3
    <2>2. PICK f : Flat(f, seqs, k - 1)
      BY <2>1
    <2> DEFINE g == [i \in 1..k |-> IF i < k THEN f[i]
                                   ELSE IF i = 1 THEN seqs[i] ELSE f[i - 1] \o seqs[i]]
    <2>3. ASSUME NEW i \in 1..k
          PROVE  g[i] = IF i = 1 THEN seqs[i] ELSE g[i - 1] \o seqs[i]
      <3>1. CASE i < k
        <4>1. i \in 1..k-1
          BY <3>1
        <4>2. f[i] = IF i = 1 THEN seqs[i] ELSE f[i - 1] \o seqs[i]
          BY <2>2, <4>1 DEF Flat
        <4>3. i # 1 => i - 1 \in 1..k /\ i - 1 < k
          BY <3>1
        <4> QED
          BY <3>1, <4>2, <4>3
      <3>2. CASE i = k
        <4>1. i # 1 => i - 1 \in 1..k /\ i - 1 < k
          BY <3>2
        <4> QED
          BY <3>2, <4>1
      <3> QED
        BY <3>1, <3>2
    <2>4. Flat(g, seqs, k)
      BY <2>3 DEF Flat
    <2> QED
      BY <2>4
  <1> QED
    BY <1>2, <1>3

LEMMA MergedIsSeq ==
    ASSUME NEW S, NEW seqs \in Seq(Seq(S))
    PROVE  MergePatches(seqs) \in Seq(S)
  <1> DEFINE n == Len(seqs)
             f == CHOOSE f : f = [i \in 1..Len(seqs) |->
                              IF i = 1 THEN seqs[i] ELSE f[i - 1] \o seqs[i]]
  <1>1. n \in Nat /\ \A i \in 1..n : seqs[i] \in Seq(S)
    OBVIOUS
  <1>2. Flat(f, seqs, n)
    <2>1. PICK g : Flat(g, seqs, n)
      BY <1>1, FlatExists
    <2>2. g = [i \in 1..Len(seqs) |-> IF i = 1 THEN seqs[i] ELSE g[i - 1] \o seqs[i]]
      BY <2>1 DEF Flat
    <2>3. f = [i \in 1..Len(seqs) |-> IF i = 1 THEN seqs[i] ELSE f[i - 1] \o seqs[i]]
      BY <2>2
    <2> HIDE DEF f
    <2> QED
      BY <2>3 DEF Flat
  <1>3. MergePatches(seqs) = IF n = 0 THEN seqs ELSE f[n]
    BY DEF MergePatches, FlattenSeq
  <1>4. n = 0 => seqs \in Seq(S)
    OBVIOUS
  <1> HIDE DEF n, f
  <1> DEFINE T == {i \in 1..n : f[i] \notin Seq(S)}
  <1>5. T = {}
    <2> SUFFICES ASSUME T # {} PROVE FALSE
      OBVIOUS
    <2>1. PICK k \in T : \A j \in T : k <= j
      <3> T \subseteq Nat
        OBVIOUS
      <3> HIDE DEF T
      <3> QED
        BY LeastNatural
    <2>2. f[k] = IF k = 1 THEN seqs[k] ELSE f[k - 1] \o seqs[k]
      BY <1>2 DEF Flat
    <2>3. CASE k = 1
      BY <1>1, <2>2, <2>3
    <2>4. CASE k # 1
      <3>3. k - 1 \in 1..n /\ k - 1 < k
        BY <1>1, <2>4
      <3>4. k - 1 \notin T
        <4>1. k \in Nat
          OBVIOUS
        <4> HIDE DEF T
        <4> QED
          BY <2>1, <3>3, <4>1
      <3>1. f[k - 1] \in Seq(S)
        BY <3>3, <3>4
      <3>2. seqs[k] \in Seq(S)
        BY <1>1
      <3>5. f[k - 1] \o seqs[k] \in Seq(S)
        BY <3>1, <3>2
      <3> QED
        BY <2>2, <2>4, <3>5
    <2> QED
      BY <2>3, <2>4
  <1>6. n # 0 => n \in 1..n
    BY <1>1
  <1> QED
    BY <1>3, <1>4, <1>5, <1>6

-----------------------------------------------------------------------------
(* The layers.                                                               *)

LEMMA OwnElements ==
    ASSUME NEW s, IsSeq(s)
    PROVE  s \in Seq(ToSet(s))
  BY DEF IsSeq, ToSet

(* Registering a profile adds empty overlays at most.                        *)
LEMMA RegisterIs ==
    ASSUME NEW l, IsLayers(l), NEW p \in Profiles
    PROVE  LET r == RegisterProfile(l, p)
           IN  /\ IsLayers(r) /\ r.base = l.base /\ r.certified = l.certified
               /\ p \in DOMAIN r.models /\ ProviderOf[p] \in DOMAIN r.providers
               /\ \A q \in Profiles :
                     /\ OverlayOps(r.models, q) = OverlayOps(l.models, q)
                     /\ OverlayOps(r.providers, ProviderOf[q]) =
                            OverlayOps(l.providers, ProviderOf[q])
  <1> DEFINE r == RegisterProfile(l, p)
             pr == Registered(l.providers, ProviderOf[p])
             mo == Registered(l.models, p)
  <1>1. /\ r.base = l.base /\ r.certified = l.certified /\ r.providers = pr /\ r.models = mo
        /\ DOMAIN r = {"base", "providers", "models", "certified"}
    BY DEF RegisterProfile, IsLayers
  <1>2. IsOverlay(EmptyOverlay) /\ EmptyOverlay.ops = <<>>
    <2>1. <<>> \in Seq(ToSet(<<>>))
      OBVIOUS
    <2> QED
      BY <2>1 DEF IsOverlay, EmptyOverlay
  <1>3. /\ DOMAIN pr = DOMAIN l.providers \cup {ProviderOf[p]}
        /\ \A k \in DOMAIN pr :
              pr[k] = IF k \in DOMAIN l.providers THEN l.providers[k] ELSE EmptyOverlay
    BY DEF Registered
  <1>4. /\ DOMAIN mo = DOMAIN l.models \cup {p}
        /\ \A k \in DOMAIN mo :
              mo[k] = IF k \in DOMAIN l.models THEN l.models[k] ELSE EmptyOverlay
    BY DEF Registered
  <1> HIDE DEF pr, mo
  <1>5. \A k \in DOMAIN pr : IsOverlay(pr[k])
    BY <1>2, <1>3 DEF IsLayers
  <1>6. \A k \in DOMAIN mo : IsOverlay(mo[k])
    BY <1>2, <1>4 DEF IsLayers
  <1>7. \A k : OverlayOps(pr, k) = OverlayOps(l.providers, k)
    BY <1>2, <1>3 DEF OverlayOps
  <1>8. \A k : OverlayOps(mo, k) = OverlayOps(l.models, k)
    BY <1>2, <1>4 DEF OverlayOps
  <1> HIDE DEF r
  <1>9. IsLayers(r)
    BY <1>1, <1>3, <1>4, <1>5, <1>6 DEF IsLayers
  <1> QED
    BY <1>1, <1>3, <1>4, <1>7, <1>8, <1>9 DEF r

LEMMA EffectiveOf ==
    ASSUME NEW l, NEW t \in Profiles
    PROVE  Effective(l, t) =
               ApplyPatch(ApplyPatch(l.base, OverlayOps(l.providers, ProviderOf[t])),
                          OverlayOps(l.models, t))
  BY NoProfileIsNone DEF Effective

LEMMA RegisterEffective ==
    ASSUME NEW l, IsLayers(l), NEW p \in Profiles, NEW t \in Profiles \cup {NoProfile}
    PROVE  Effective(RegisterProfile(l, p), t) = Effective(l, t)
  <1>1. CASE t = NoProfile
    BY <1>1, RegisterIs DEF Effective
  <1>2. CASE t # NoProfile
    BY <1>2, RegisterIs, EffectiveOf
  <1> QED
    BY <1>1, <1>2

LEMMA BaseOfIs ==
    ASSUME NEW l, IsLayers(l), NEW t \in Profiles \cup {NoProfile}
    PROVE  BaseOf(l, t) = Effective(l, t)
  <1>1. CASE t = NoProfile
    BY <1>1 DEF BaseOf, Effective
  <1>2. CASE t # NoProfile
    BY <1>2, RegisterEffective DEF BaseOf
  <1> QED
    BY <1>1, <1>2

LEMMA OverlayOpsIsSeq ==
    ASSUME NEW l, IsLayers(l), NEW t \in Profiles
    PROVE  IsSeq(OverlayOps(l.models, t))
  <1>1. CASE t \in DOMAIN l.models
    BY <1>1 DEF IsLayers, IsOverlay, OverlayOps, IsSeq
  <1>2. CASE t \notin DOMAIN l.models
    <2>1. <<>> \in Seq({})
      OBVIOUS
    <2> QED
      BY <1>2, <2>1 DEF OverlayOps, IsSeq
  <1> QED
    BY <1>1, <1>2

(* Putting a patch into the layers puts it at the end of what its target     *)
(* runs with, and leaves the certificates.                                   *)
LEMMA LayersWithIs ==
    ASSUME NEW l, IsLayers(l), NEW t \in Profiles \cup {NoProfile}, NEW p, IsSeq(p)
    PROVE  LET r == LayersWith(l, p, t)
           IN  /\ IsLayers(r)
               /\ r.certified = l.certified
               /\ Effective(r, t) = ApplyPatch(Effective(l, t), p)
               /\ t = NoProfile => r = [l EXCEPT !.base = ApplyPatch(l.base, p)]
  <1> DEFINE r == LayersWith(l, p, t)
  <1>1. CASE t = NoProfile
    <2>1. r = [l EXCEPT !.base = ApplyPatch(l.base, p)]
      BY <1>1 DEF LayersWith
    <2>2. /\ DOMAIN r = {"base", "providers", "models", "certified"}
          /\ r.base = ApplyPatch(l.base, p) /\ r.providers = l.providers
          /\ r.models = l.models /\ r.certified = l.certified
      BY <2>1 DEF IsLayers
    <2> HIDE DEF r
    <2>3. IsLayers(r)
      BY <2>2, ApplyPatchGives DEF IsLayers, Gives
    <2>4. Effective(r, t) = ApplyPatch(Effective(l, t), p)
      BY <1>1, <2>2 DEF Effective
    <2> QED
      BY <1>1, <2>1, <2>2, <2>3, <2>4 DEF r
  <1>2. CASE t # NoProfile
    <2> t \in Profiles
      BY <1>2
    <2> DEFINE g == RegisterProfile(l, t)
               ops == OverlayOps(l.models, t)
               o == [g.models[t] EXCEPT !.ops = g.models[t].ops \o p]
    <2>1. /\ IsLayers(g) /\ g.certified = l.certified /\ t \in DOMAIN g.models
          /\ g.base = l.base /\ OverlayOps(g.models, t) = ops
          /\ OverlayOps(g.providers, ProviderOf[t]) = OverlayOps(l.providers, ProviderOf[t])
      BY RegisterIs
    <2>2. g.models[t].ops = ops /\ IsOverlay(g.models[t])
      BY <2>1 DEF OverlayOps, IsLayers
    <2>3. r = [g EXCEPT !.models = [g.models EXCEPT ![t] = o]]
      BY <1>2 DEF LayersWith
    <2>4. IsSeq(ops \o p)
      BY OverlayOpsIsSeq, ApplyPatchConcat
    <2> HIDE DEF ops
    <2>5. o = [ops |-> ops \o p, smoke |-> g.models[t].smoke]
      <3>1. ASSUME NEW ov, IsOverlay(ov), NEW x
            PROVE  [ov EXCEPT !.ops = x] = [ops |-> x, smoke |-> ov.smoke]
        BY <3>1 DEF IsOverlay
      <3> HIDE DEF g
      <3> QED
        BY <2>2, <3>1
    <2> HIDE DEF o, g
    <2>6. IsOverlay(o) /\ o.ops = ops \o p
      BY <2>4, <2>5, OwnElements DEF IsOverlay
    <2>7. /\ DOMAIN r = {"base", "providers", "models", "certified"}
          /\ r.base = g.base /\ r.providers = g.providers
          /\ r.models = [g.models EXCEPT ![t] = o] /\ r.certified = g.certified
      BY <2>1, <2>3 DEF IsLayers
    <2> HIDE DEF r
    <2>8. DOMAIN r.models = DOMAIN g.models
          /\ \A k \in DOMAIN r.models : r.models[k] = IF k = t THEN o ELSE g.models[k]
      BY <2>7
    <2>9. IsLayers(r)
      BY <2>1, <2>6, <2>7, <2>8 DEF IsLayers
    <2>10. OverlayOps(r.models, t) = ops \o p
      BY <2>1, <2>6, <2>8 DEF OverlayOps
    <2>11. Effective(r, t) =
             ApplyPatch(ApplyPatch(l.base, OverlayOps(l.providers, ProviderOf[t])), ops \o p)
      <3>1. Effective(r, t) =
              ApplyPatch(ApplyPatch(r.base, OverlayOps(r.providers, ProviderOf[t])),
                         OverlayOps(r.models, t))
        BY EffectiveOf
      <3>2. r.base = l.base
            /\ OverlayOps(r.providers, ProviderOf[t]) = OverlayOps(l.providers, ProviderOf[t])
        BY <2>1, <2>7
      <3> QED
        BY <2>10, <3>1, <3>2
    <2>12. Effective(l, t) =
             ApplyPatch(ApplyPatch(l.base, OverlayOps(l.providers, ProviderOf[t])), ops)
      BY EffectiveOf DEF ops
    <2>13. Effective(r, t) = ApplyPatch(Effective(l, t), p)
      BY <2>11, <2>12, OverlayOpsIsSeq, ApplyPatchConcat DEF ops
    <2> QED
      BY <1>2, <2>1, <2>7, <2>9, <2>13 DEF r
  <1> QED
    BY <1>1, <1>2

(* A certificate changes what no profile runs with.                          *)
LEMMA MarkIs ==
    ASSUME NEW l, IsLayers(l), NEW p \in Profiles, NEW c
    PROVE  LET r == MarkProfileCertified(l, p, c)
           IN  /\ IsLayers(r)
               /\ r.certified = l.certified \cup {p}
               /\ r.base = l.base
               /\ \A q \in Profiles :
                     /\ OverlayOps(r.models, q) = OverlayOps(l.models, q)
                     /\ OverlayOps(r.providers, ProviderOf[q]) =
                            OverlayOps(l.providers, ProviderOf[q])
  <1> DEFINE r == MarkProfileCertified(l, p, c)
             g == RegisterProfile(l, p)
             o == [g.models[p] EXCEPT !.smoke = c]
  <1>1. /\ IsLayers(g) /\ g.certified = l.certified /\ p \in DOMAIN g.models
        /\ g.base = l.base
        /\ \A q \in Profiles :
              /\ OverlayOps(g.models, q) = OverlayOps(l.models, q)
              /\ OverlayOps(g.providers, ProviderOf[q]) = OverlayOps(l.providers, ProviderOf[q])
    BY RegisterIs
  <1>2. r = [g EXCEPT !.certified = g.certified \cup {p},
                      !.models = [g.models EXCEPT ![p] = o]]
    BY DEF MarkProfileCertified
  <1> HIDE DEF g
  <1>3. IsOverlay(o) /\ o.ops = g.models[p].ops
    BY <1>1 DEF IsLayers, IsOverlay
  <1> HIDE DEF o
  <1>4. /\ DOMAIN r = {"base", "providers", "models", "certified"}
        /\ r.base = g.base /\ r.providers = g.providers
        /\ r.models = [g.models EXCEPT ![p] = o] /\ r.certified = g.certified \cup {p}
    BY <1>1, <1>2 DEF IsLayers
  <1> HIDE DEF r
  <1>5. DOMAIN r.models = DOMAIN g.models
        /\ \A k \in DOMAIN r.models : r.models[k] = IF k = p THEN o ELSE g.models[k]
    BY <1>4
  <1>6. IsLayers(r)
    BY <1>1, <1>3, <1>4, <1>5 DEF IsLayers
  <1>7. \A q : OverlayOps(r.models, q) = OverlayOps(g.models, q)
    BY <1>1, <1>3, <1>5 DEF OverlayOps
  <1> QED
    BY <1>1, <1>4, <1>6, <1>7 DEF r

LEMMA MarkEffective ==
    ASSUME NEW l, IsLayers(l), NEW p \in Profiles, NEW c, NEW t \in Profiles \cup {NoProfile}
    PROVE  Effective(MarkProfileCertified(l, p, c), t) = Effective(l, t)
  <1>1. CASE t = NoProfile
    BY <1>1, MarkIs DEF Effective
  <1>2. CASE t # NoProfile
    BY <1>2, MarkIs, EffectiveOf
  <1> QED
    BY <1>1, <1>2

-----------------------------------------------------------------------------
(* The engine.                                                               *)

Aims == Profiles \cup {NoProfile}

Proposed == {Sent(p, t) : p \in Pool, t \in Aims}

LEMMA ProposedIs ==
    ASSUME NEW q \in Proposed
    PROVE  /\ q.id \in Nat /\ q.priority \in Int /\ q.patch \in Seq(PoolOps)
           /\ q.target \in Aims
  BY PoolOfProposals DEF Proposed, Sent

IsCommit(c) ==
    /\ DOMAIN c = {"via", "ids", "patch", "reverse", "spec", "layers", "target",
                   "cert", "base", "eval"}
    /\ IsLayers(c.layers)
    /\ c.target \in Aims

EngineType ==
    /\ proposer \in {"heuristic", "llm"} /\ target \in Aims
    /\ IsLayers(layers)
    /\ queue \in Seq(Proposed)
    /\ IsSeq(considered)
    /\ IsCommit(commit)

\* The profile an edit for p is measured with by an engine for t.
MeasuredFor(p, t) == IF p = NoProfile THEN t ELSE p

\* The evidence of a row or a commit for p: what it was compared with (b is
\* the round's baseline), and its certificate.
Compared(r, p, b, t) ==
    /\ Gate(r.base, r.eval)
    /\ MeasuredFor(p, t) = t => r.base = b

HoldsCertificate(r, p, t) == r.cert \in SmokeVerdicts(MeasuredFor(p, t)) \ {"fail"}

Evidence(r, p, b, t) == Compared(r, p, b, t) /\ HoldsCertificate(r, p, t)

\* A row says what its edit makes of the layers l, and why it was accepted.
Weighed(r, l, b, t) ==
    /\ r.proposal \in Proposed
    /\ r.status \in {"invalid", "rejected", "accepted"}
    /\ r.status # "invalid" =>
          /\ r.layers = LayersWith(l, r.proposal.patch, r.proposal.target)
          /\ r.spec = ApplyPatch(BaseOf(l, r.proposal.target), r.proposal.patch)
          /\ r.reverse = ReversePatch(BaseOf(l, r.proposal.target), r.proposal.patch)
    /\ r.status = "accepted" => Evidence(r, r.proposal.target, b, t)

\* A commit says what its patch makes of the layers l and the harness h.  Of
\* its certificate nothing is said: it is looked up by id.
Grounded(c, l, h, b, t) ==
    IF c.via = "none"
    THEN c = NoCommit(h, l, b)
    ELSE /\ IsSeq(c.patch)
         /\ c.spec = ApplyPatch(BaseOf(l, c.target), c.patch)
         /\ c.reverse = ReversePatch(BaseOf(l, c.target), c.patch)
         /\ Compared(c, c.target, b, t)

\* The profiles a commit certifies, once it is written.
Certifies(c) == IF c.via = "none" THEN {} ELSE {c.target} \cap Profiles

EngineInv ==
    /\ EngineType
    /\ pc \in {"baseline", "research", "propose", "propose with findings"} =>
          considered = <<>>
    /\ pc = "consider" =>
          \A i \in DOMAIN considered : Weighed(considered[i], layers, baseline, target)
    /\ pc \in {"record", "lineage"} => Grounded(commit, layers, harness, baseline, target)
    /\ pc = "record" => commit.layers.certified = layers.certified
    /\ pc = "lineage" =>
          commit.layers.certified \subseteq layers.certified \cup Certifies(commit)

LEMMA NoCommitIsCommit ==
    ASSUME NEW h, NEW l, IsLayers(l), NEW b, NEW t
    PROVE  /\ IsCommit(NoCommit(h, l, b))
           /\ NoCommit(h, l, b).layers = l
           /\ NoCommit(h, l, b).via = "none"
           /\ Grounded(NoCommit(h, l, b), l, h, b, t)
  BY DEF NoCommit, IsCommit, Aims, Grounded

(* A new engine.                                                             *)
LEMMA InitEngine == ASSUME Init PROVE EngineInv
  <1>1. PICK s \in Setups : /\ proposer = s.proposer /\ target = s.target
                            /\ layers = IF s.target = NoProfile THEN s.layers
                                        ELSE RegisterProfile(s.layers, s.target)
    BY DEF Init
  <1>2. target \in Aims /\ proposer \in {"heuristic", "llm"}
    BY <1>1, Targets, ProposerKinds DEF Aims
  <1>3. IsLayers(layers)
    BY <1>1, <1>2, SetupLayers, RegisterIs DEF Aims
  <1>4. queue = <<>> /\ considered = <<>> /\ pc = "start"
        /\ commit = NoCommit(harness, layers, NoResult)
    BY DEF Init
  <1>5. queue \in Seq(Proposed) /\ IsSeq(considered)
    <2>1. <<>> \in Seq({})
      OBVIOUS
    <2> QED
      BY <1>4, <2>1 DEF IsSeq
  <1> QED
    BY <1>2, <1>3, <1>4, <1>5, NoCommitIsCommit DEF EngineInv, EngineType

(* Steps that decide nothing.                                                *)
LEMMA BeginRoundEngine == ASSUME EngineInv, BeginRound PROVE EngineInv'
  <1>1. /\ pc' = "baseline" /\ considered' = <<>>
        /\ commit' = NoCommit(harness', layers, NoResult)
        /\ UNCHANGED <<proposer, target, layers, queue>>
    BY DEF BeginRound, setup
  <1>2. IsSeq(considered')
    <2>1. <<>> \in Seq({})
      OBVIOUS
    <2> QED
      BY <1>1, <2>1 DEF IsSeq
  <1> QED
    BY <1>1, <1>2, NoCommitIsCommit DEF EngineInv, EngineType

LEMMA MeasureEngine ==
    ASSUME EngineInv, RunBaseline \/ NoFindings \/ Finish \/ Abort
    PROVE  EngineInv'
  BY DEF EngineInv, EngineType, RunBaseline, NoFindings, Finish, Abort, setup

LEMMA IntegrateEngine == ASSUME EngineInv, IntegrateFindings PROVE EngineInv'
  <1>1. /\ pc = "research" /\ pc' = "propose with findings"
        /\ UNCHANGED <<proposer, target, queue, considered, commit>>
    BY DEF IntegrateFindings, setup
  <1>2. PICK source \in Findings :
          layers' = [layers EXCEPT !.base["memory_sources"] = Append(@, source)]
    BY DEF IntegrateFindings
  <1>3. /\ DOMAIN layers' = DOMAIN layers
        /\ layers'.providers = layers.providers /\ layers'.models = layers.models
        /\ layers'.base = [s \in Surfaces |-> layers'.base[s]]
    BY <1>2 DEF EngineInv, EngineType, IsLayers
  <1>4. IsLayers(layers')
    BY <1>3 DEF EngineInv, EngineType, IsLayers
  <1> QED
    BY <1>1, <1>4 DEF EngineInv, EngineType

(* The proposals of a round.                                                 *)
LEMMA ProposeEngine == ASSUME EngineInv, Propose PROVE EngineInv'
  <1>1. /\ pc \in {"propose", "propose with findings"} /\ pc' = "consider"
        /\ UNCHANGED <<proposer, target, layers, baseline, considered, commit>>
    BY DEF Propose, setup
  <1>2. PICK chosen \in SUBSET Pool :
          /\ IsFiniteSet(chosen)
          /\ \E order \in SetToSeqs(chosen), named \in [chosen -> NamedTargets] :
                queue' = [n \in DOMAIN order |-> Sent(order[n], named[order[n]])]
    BY DEF Propose
  <1>3. PICK order \in SetToSeqs(chosen), named \in [chosen -> NamedTargets] :
                queue' = [n \in DOMAIN order |-> Sent(order[n], named[order[n]])]
    BY <1>2
  <1> DEFINE c == Cardinality(chosen)
  <1>4. c \in Nat /\ order \in [1..c -> chosen]
    BY <1>2, FS_CardinalityType DEF SetToSeqs
  <1>5. NamedTargets \subseteq Aims
    BY Targets DEF NamedTargets, EngineInv, EngineType, Aims
  <1>6. ASSUME NEW p \in Pool, NEW t \in Aims PROVE Sent(p, t) \in Proposed
    BY DEF Proposed
  <1> HIDE DEF c
  <1>7. queue' = [n \in 1..c |-> Sent(order[n], named[order[n]])]
    BY <1>3, <1>4
  <1>8. \A n \in 1..c : Sent(order[n], named[order[n]]) \in Proposed
    <2> SUFFICES ASSUME NEW n \in 1..c PROVE Sent(order[n], named[order[n]]) \in Proposed
      OBVIOUS
    <2>1. order[n] \in chosen /\ order[n] \in Pool
      BY <1>4
    <2>2. named[order[n]] \in Aims
      BY <1>5, <2>1
    <2> QED
      BY <1>6, <2>1, <2>2
  <1>9. queue' \in Seq(Proposed)
    BY <1>4, <1>7, <1>8
  <1>10. considered' = <<>> /\ DOMAIN considered' = {}
    <2>1. DOMAIN <<>> = 1..0 /\ 1..0 = {}
      OBVIOUS
    <2> QED
      BY <1>1, <2>1 DEF EngineInv
  <1> QED
    BY <1>1, <1>9, <1>10 DEF EngineInv, EngineType

(* The rows of a round, one by one.                                          *)
LEMMA RowEngine ==
    ASSUME EngineInv, pc = "consider", queue # <<>>, NEW r,
           Weighed(r, layers, baseline, target),
           considered' = Append(considered, r), queue' = Tail(queue),
           UNCHANGED <<pc, setup, layers, baseline, commit>>
    PROVE  EngineInv'
  <1>1. IsSeq(considered)
    BY DEF EngineInv, EngineType
  <1>2. /\ IsSeq(considered') /\ DOMAIN considered' = 1..(Len(considered) + 1)
        /\ DOMAIN considered = 1..Len(considered) /\ Len(considered) \in Nat
        /\ considered'[Len(considered) + 1] = r
        /\ \A i \in 1..Len(considered) : considered'[i] = considered[i]
    BY <1>1, AppendSeq, SeqDomain
  <1>3. \A i \in DOMAIN considered' : Weighed(considered'[i], layers, baseline, target)
    <2> SUFFICES ASSUME NEW i \in DOMAIN considered'
                 PROVE  Weighed(considered'[i], layers, baseline, target)
      OBVIOUS
    <2>1. CASE i = Len(considered) + 1
      BY <1>2, <2>1
    <2>2. CASE i # Len(considered) + 1
      <3>1. i \in 1..Len(considered)
        BY <1>2, <2>2
      <3> QED
        BY <1>2, <3>1 DEF EngineInv
    <2> QED
      BY <2>1, <2>2
  <1>4. queue' \in Seq(Proposed)
    BY DEF EngineInv, EngineType
  <1> QED
    BY <1>2, <1>3, <1>4 DEF EngineInv, EngineType, setup

LEMMA ConsiderEngine ==
    ASSUME EngineInv, ConsiderInvalid \/ ConsiderUnmeasured \/ ConsiderMeasured
    PROVE  EngineInv'
  <1> DEFINE p == Head(queue)
  <1>1. /\ pc = "consider" /\ queue # <<>> /\ queue' = Tail(queue)
        /\ UNCHANGED <<pc, setup, layers, baseline, commit>>
    BY DEF ConsiderInvalid, ConsiderUnmeasured, ConsiderMeasured
  <1>2. p \in Proposed
    BY <1>1 DEF EngineInv, EngineType
  <1> HIDE DEF p
  <1>3. CASE ConsiderInvalid \/ ConsiderUnmeasured
    <2>1. considered' = Append(considered, InvalidRow(p))
      BY <1>3 DEF ConsiderInvalid, ConsiderUnmeasured, p
    <2>2. Weighed(InvalidRow(p), layers, baseline, target)
      BY <1>2 DEF Weighed, InvalidRow
    <2> QED
      BY <1>1, <2>1, <2>2, RowEngine
  <1>4. CASE ConsiderMeasured
    <2>1. PICK base \in BaselinesFor(p.target), cand \in Results :
          \E cert \in IF Gate(base, cand)
                      THEN SmokeVerdicts(EvalProfile(p.target)) ELSE {"none"} :
              considered' = Append(considered,
                  Considered(p, IF Gate(base, cand) /\ cert # "fail"
                                THEN "accepted" ELSE "rejected", base, cand, cert))
      BY <1>4 DEF ConsiderMeasured, p
    <2>2. PICK cert \in IF Gate(base, cand)
                        THEN SmokeVerdicts(EvalProfile(p.target)) ELSE {"none"} :
              considered' = Append(considered,
                  Considered(p, IF Gate(base, cand) /\ cert # "fail"
                                THEN "accepted" ELSE "rejected", base, cand, cert))
      BY <2>1
    <2> DEFINE st == IF Gate(base, cand) /\ cert # "fail" THEN "accepted" ELSE "rejected"
               r == Considered(p, st, base, cand, cert)
    <2>3. /\ r.proposal = p /\ r.status = st /\ r.base = base /\ r.eval = cand
          /\ r.cert = cert
          /\ r.layers = LayersWith(layers, p.patch, p.target)
          /\ r.spec = ApplyPatch(BaseOf(layers, p.target), p.patch)
          /\ r.reverse = ReversePatch(BaseOf(layers, p.target), p.patch)
      BY DEF Considered, ApplyPatchToLayers
    <2>4. st = "accepted" => /\ Gate(base, cand)
                             /\ cert \in SmokeVerdicts(EvalProfile(p.target)) \ {"fail"}
      BY <2>2
    <2>5. st \in {"accepted", "rejected"}
      OBVIOUS
    <2>6. EvalProfile(p.target) = MeasuredFor(p.target, target)
      BY DEF EvalProfile, MeasuredFor
    <2>7. EvalProfile(p.target) = target => base = baseline
      BY <2>1 DEF BaselinesFor
    <2> HIDE DEF r, st
    <2>8. Weighed(r, layers, baseline, target)
      BY <1>2, <2>3, <2>4, <2>5, <2>6, <2>7
         DEF Weighed, Evidence, Compared, HoldsCertificate
    <2>9. considered' = Append(considered, r)
      BY <2>2 DEF r, st
    <2> QED
      BY <1>1, <2>8, <2>9, RowEngine
  <1> QED
    BY <1>3, <1>4

(* The decision.                                                             *)
LEMMA NothingEngine == ASSUME EngineInv, NothingAccepted PROVE EngineInv'
  <1>1. /\ pc' = "record" /\ commit' = NoCommit(harness, layers, baseline)
        /\ UNCHANGED <<proposer, target, layers, harness, baseline, queue, considered>>
    BY DEF NothingAccepted, setup
  <1>2. IsLayers(layers)
    BY DEF EngineInv, EngineType
  <1>3. /\ IsCommit(commit') /\ commit'.layers = layers
        /\ Grounded(commit', layers, harness, baseline, target)
    BY <1>1, <1>2, NoCommitIsCommit
  <1> QED
    BY <1>1, <1>3 DEF EngineInv, EngineType

\* The rows there are to choose from.
LEMMA AcceptedRows ==
    ASSUME EngineInv, pc = "consider"
    PROVE  \A i \in AcceptedIndices :
              /\ Weighed(considered[i], layers, baseline, target)
              /\ considered[i].proposal \in Proposed
              /\ considered[i].status = "accepted"
  BY DEF EngineInv, Weighed, AcceptedIndices

LEMMA RankedOfEngine ==
    ASSUME EngineInv, pc = "consider"
    PROVE  /\ IsSeq(Ranked)
           /\ Len(Ranked) = Cardinality(AcceptedIndices)
           /\ \A n \in 1..Len(Ranked) : \E i \in AcceptedIndices : Ranked[n] = considered[i]
           /\ \A i \in AcceptedIndices : \E n \in 1..Len(Ranked) : Ranked[n] = considered[i]
  <1>1. \A i \in AcceptedIndices : /\ considered[i].proposal.id \in Nat
                                   /\ considered[i].proposal.priority \in Int
    BY AcceptedRows, ProposedIs
  <1> QED
    BY <1>1, RankedIsRanking DEF EngineInv, EngineType

LEMMA GroupOfEngine ==
    ASSUME EngineInv, pc = "consider", AcceptedIndices # {}
    PROVE  /\ IsSeq(MergeGroup) /\ Len(MergeGroup) \in Nat \ {0}
           /\ MergeGroup[1] = Ranked[1]
           /\ Len(Ranked) \in Nat \ {0}
           /\ Group(MergeGroup, Ranked, Len(Ranked))
           /\ \A k \in 1..Len(MergeGroup) : \E i \in AcceptedIndices :
                 MergeGroup[k] = considered[i]
  <1>1. MergeGroup = Grown(Ranked)
    BY DEF MergeGroup, Grown
  <1>2. Group(MergeGroup, Ranked, Len(Ranked))
    BY <1>1, GrownIsGroup, RankedOfEngine
  <1>3. Len(Ranked) \in Nat /\ Len(Ranked) # 0
    <2>1. PICK i \in AcceptedIndices : TRUE
      OBVIOUS
    <2>2. \E n \in 1..Len(Ranked) : TRUE
      BY <2>1, RankedOfEngine
    <2> QED
      BY <2>2, RankedOfEngine, SeqDomain
  <1>4. IsSeq(MergeGroup) /\ Len(MergeGroup) \in Nat
    BY <1>2, SeqDomain DEF Group
  <1>5. Len(MergeGroup) > 0 /\ MergeGroup[1] = Ranked[1]
    BY <1>2, <1>3 DEF Group
  <1>6. ASSUME NEW k \in 1..Len(MergeGroup)
        PROVE  \E i \in AcceptedIndices : MergeGroup[k] = considered[i]
    <2>1. PICK n \in 1..Len(Ranked) : MergeGroup[k] = Ranked[n]
      BY <1>2 DEF Group
    <2> QED
      BY <2>1, RankedOfEngine
  <1> QED
    BY <1>2, <1>3, <1>4, <1>5, <1>6

\* The merged patch is a sequence of operations.
LEMMA MergedPatch ==
    ASSUME EngineInv, pc = "consider", AcceptedIndices # {}
    PROVE  LET patch == MergePatches([i \in DOMAIN MergeGroup |->
                                        MergeGroup[i].proposal.patch])
           IN  patch \in Seq(PoolOps)
  <1> DEFINE n == Len(MergeGroup)
             seqs == [i \in DOMAIN MergeGroup |-> MergeGroup[i].proposal.patch]
  <1>1. n \in Nat /\ DOMAIN MergeGroup = 1..n
    BY GroupOfEngine, SeqDomain
  <1>2. \A i \in 1..n : MergeGroup[i].proposal.patch \in Seq(PoolOps)
    BY GroupOfEngine, AcceptedRows, ProposedIs
  <1> HIDE DEF n
  <1>3. seqs \in Seq(Seq(PoolOps))
    BY <1>1, <1>2
  <1> QED
    BY <1>3, MergedIsSeq

\* What is looked up by id is an accepted or rejected row of that id.
LEMMA LastByIdIs ==
    ASSUME EngineInv, pc = "consider", NEW i \in AcceptedIndices
    PROVE  \E k \in DOMAIN considered :
              /\ considered[k].proposal.id = considered[i].proposal.id
              /\ considered[k].status # "invalid"
              /\ LastById(considered[i].proposal.id) = considered[k]
  <1> DEFINE same == {k \in DOMAIN considered :
                        /\ considered[k].proposal.id = considered[i].proposal.id
                        /\ considered[k].status # "invalid"}
             n == Len(considered)
  <1>1. n \in Nat /\ DOMAIN considered = 1..n
    BY SeqDomain DEF EngineInv, EngineType
  <1>2. i \in same
    BY DEF AcceptedIndices
  <1>3. same \in SUBSET (1..n) /\ same # {}
    BY <1>1, <1>2
  <1>4. LastById(considered[i].proposal.id) = considered[Max(same)]
    BY DEF LastById
  <1> HIDE DEF n
  <1>5. Max(same) \in same
    <2> HIDE DEF same
    <2> QED
      BY <1>1, <1>3, MaxOfRange
  <1> QED
    BY <1>4, <1>5

LEMMA SelectEngine == ASSUME EngineInv, SelectCommit PROVE EngineInv'
  <1>1. /\ pc = "consider" /\ pc' = "record" /\ AcceptedIndices # {}
        /\ UNCHANGED <<proposer, target, layers, harness, baseline, queue, considered>>
    BY DEF SelectCommit, setup
  <1> DEFINE g == MergeGroup
             t == g[1].proposal.target
  <1>2. PICK base \in BaselinesFor(t), cand \in Results :
          \E cert \in IF Gate(base, cand) THEN SmokeVerdicts(EvalProfile(t)) ELSE {"none"} :
              commit' = IF Gate(base, cand) /\ cert # "fail"
                        THEN MergedCommit(g, base, cand, cert)
                        ELSE FallbackCommit(Ranked[1])
    BY DEF SelectCommit
  <1>3. PICK cert \in IF Gate(base, cand) THEN SmokeVerdicts(EvalProfile(t)) ELSE {"none"} :
              commit' = IF Gate(base, cand) /\ cert # "fail"
                        THEN MergedCommit(g, base, cand, cert)
                        ELSE FallbackCommit(Ranked[1])
    BY <1>2
  <1>4. PICK i \in AcceptedIndices : g[1] = considered[i] /\ Ranked[1] = considered[i]
    BY <1>1, GroupOfEngine
  <1>5. /\ Weighed(considered[i], layers, baseline, target)
        /\ considered[i].proposal \in Proposed /\ considered[i].status = "accepted"
    BY <1>1, AcceptedRows
  <1>6. t \in Aims /\ IsLayers(layers) /\ target \in Aims
    BY <1>4, <1>5, ProposedIs DEF EngineInv, EngineType
  <1>7. ASSUME NEW p \in Aims PROVE EvalProfile(p) = MeasuredFor(p, target)
    BY DEF EvalProfile, MeasuredFor
  <1> SUFFICES /\ IsCommit(commit')
               /\ commit'.via # "none"
               /\ IsSeq(commit'.patch)
               /\ commit'.spec = ApplyPatch(BaseOf(layers, commit'.target), commit'.patch)
               /\ commit'.reverse = ReversePatch(BaseOf(layers, commit'.target), commit'.patch)
               /\ Compared(commit', commit'.target, baseline, target)
               /\ commit'.layers.certified = layers.certified
    BY <1>1 DEF EngineInv, EngineType, Grounded
  <1>8. CASE Gate(base, cand) /\ cert # "fail"
    <2> DEFINE patch == MergePatches([j \in DOMAIN g |-> g[j].proposal.patch])
    <2>1. patch \in Seq(PoolOps)
      BY <1>1, MergedPatch
    <2>2. IsSeq(patch)
      BY <2>1 DEF IsSeq
    <2> DEFINE c == MergedCommit(g, base, cand, cert)
    <2>3. /\ DOMAIN c = {"via", "ids", "patch", "reverse", "spec", "layers", "target",
                         "cert", "base", "eval"}
          /\ c.via = "merge" /\ c.patch = patch /\ c.target = t
          /\ c.base = base /\ c.eval = cand
          /\ c.layers = LayersWith(layers, patch, t)
          /\ c.spec = ApplyPatch(BaseOf(layers, t), patch)
          /\ c.reverse = ReversePatch(BaseOf(layers, t), patch)
      BY DEF MergedCommit, ApplyPatchToLayers
    <2>4. commit' = c
      BY <1>3, <1>8
    <2> HIDE DEF patch, c, g, t
    <2>5. IsLayers(c.layers) /\ c.layers.certified = layers.certified
      <3>1. /\ IsLayers(LayersWith(layers, patch, t))
            /\ LayersWith(layers, patch, t).certified = layers.certified
        BY <1>6, <2>2, LayersWithIs DEF Aims
      <3> QED
        BY <2>3, <3>1
    <2>6. MeasuredFor(t, target) = target => base = baseline
      BY <1>6, <1>7 DEF BaselinesFor
    <2>7. Compared(c, t, baseline, target)
      BY <1>8, <2>3, <2>6 DEF Compared
    <2> QED
      BY <1>6, <2>2, <2>3, <2>4, <2>5, <2>7 DEF IsCommit
  <1>9. CASE ~(Gate(base, cand) /\ cert # "fail")
    <2> DEFINE best == considered[i]
               c == FallbackCommit(best)
    <2>1. commit' = c
      BY <1>3, <1>4, <1>9
    <2>2. /\ DOMAIN c = {"via", "ids", "patch", "reverse", "spec", "layers", "target",
                         "cert", "base", "eval"}
          /\ c.via = "fallback" /\ c.patch = best.proposal.patch
          /\ c.target = best.proposal.target
          /\ c.base = best.base /\ c.eval = best.eval
          /\ c.layers = LastById(best.proposal.id).layers
          /\ c.spec = best.spec /\ c.reverse = best.reverse
      BY DEF FallbackCommit
    <2>3. PICK k \in DOMAIN considered :
             /\ considered[k].status # "invalid"
             /\ LastById(best.proposal.id) = considered[k]
      BY <1>1, LastByIdIs
    <2>4. Weighed(considered[k], layers, baseline, target)
      BY <1>1 DEF EngineInv
    <2>5. /\ considered[k].proposal.target \in Aims
          /\ IsSeq(considered[k].proposal.patch)
          /\ considered[k].layers = LayersWith(layers, considered[k].proposal.patch,
                                               considered[k].proposal.target)
      BY <2>3, <2>4, ProposedIs DEF Weighed, IsSeq
    <2> HIDE DEF c
    <2>6. IsLayers(c.layers) /\ c.layers.certified = layers.certified
      BY <1>6, <2>2, <2>3, <2>5, LayersWithIs DEF Aims
    <2>7. best.proposal.target \in Aims /\ best.proposal.patch \in Seq(PoolOps)
      BY <1>5, ProposedIs
    <2>8. IsSeq(c.patch)
      BY <2>2, <2>7 DEF IsSeq
    <2>9. Evidence(best, best.proposal.target, baseline, target)
          /\ best.spec = ApplyPatch(BaseOf(layers, best.proposal.target), best.proposal.patch)
          /\ best.reverse = ReversePatch(BaseOf(layers, best.proposal.target),
                                         best.proposal.patch)
      BY <1>5 DEF Weighed
    <2> HIDE DEF best
    <2>10. Compared(c, c.target, baseline, target)
      BY <2>2, <2>9 DEF Evidence, Compared
    <2> QED
      BY <2>1, <2>2, <2>6, <2>7, <2>8, <2>9, <2>10 DEF IsCommit
  <1> QED
    BY <1>8, <1>9

(* The record of a round.                                                    *)
LEMMA WriteEngine == ASSUME EngineInv, WriteArtifacts PROVE EngineInv'
  <1>1. /\ pc = "record" /\ pc' = "lineage"
        /\ considered' = [i \in DOMAIN considered |->
              [considered[i] EXCEPT !.status = RowStatus(considered[i])]]
        /\ UNCHANGED <<proposer, target, layers, harness, baseline, queue>>
    BY DEF WriteArtifacts, setup
  <1>2. IsSeq(considered')
    <2> DEFINE row(i) == [considered[i] EXCEPT !.status = RowStatus(considered[i])]
               n == Len(considered)
    <2>1. n \in Nat /\ DOMAIN considered = 1..n
      BY SeqDomain DEF EngineInv, EngineType
    <2> HIDE DEF n
    <2>2. considered' = [i \in 1..n |-> row(i)]
      BY <1>1, <2>1
    <2> HIDE DEF row
    <2>3. considered' \in Seq({row(i) : i \in 1..n})
      BY <2>1, <2>2
    <2> QED
      BY <2>3 DEF IsSeq
  <1>3. IsCommit(commit) /\ commit.layers.certified = layers.certified
        /\ Grounded(commit, layers, harness, baseline, target)
    BY <1>1 DEF EngineInv, EngineType
  <1>4. CASE commit.via = "none" \/ commit.target = NoProfile
    <2>1. commit' = commit
      BY <1>4 DEF WriteArtifacts
    <2> QED
      BY <1>1, <1>2, <1>3, <2>1 DEF EngineInv, EngineType
  <1>5. CASE commit.via # "none" /\ commit.target # NoProfile
    <2> DEFINE m == MarkProfileCertified(commit.layers, commit.target, commit.cert)
    <2>1. commit' = [commit EXCEPT !.layers = m]
      BY <1>5 DEF WriteArtifacts
    <2>2. commit.target \in Profiles
      BY <1>3, <1>5 DEF IsCommit, Aims
    <2>3. IsLayers(m) /\ m.certified = layers.certified \cup {commit.target}
      BY <1>3, <2>2, MarkIs DEF IsCommit
    <2> HIDE DEF m
    <2>4. /\ DOMAIN commit' = DOMAIN commit
          /\ commit'.layers = m /\ commit'.via = commit.via /\ commit'.target = commit.target
          /\ commit'.patch = commit.patch /\ commit'.spec = commit.spec
          /\ commit'.reverse = commit.reverse
          /\ commit'.base = commit.base /\ commit'.eval = commit.eval
      BY <1>3, <2>1 DEF IsCommit
    <2>5. IsCommit(commit')
      BY <1>3, <2>3, <2>4 DEF IsCommit
    <2>6. Grounded(commit', layers, harness, baseline, target)
      BY <1>3, <1>5, <2>4 DEF Grounded, Compared
    <2>7. commit'.layers.certified \subseteq layers.certified \cup Certifies(commit')
      BY <1>5, <2>2, <2>3, <2>4 DEF Certifies
    <2> QED
      BY <1>1, <1>2, <2>5, <2>6, <2>7 DEF EngineInv, EngineType
  <1> QED
    BY <1>4, <1>5

LEMMA LineageEngine == ASSUME EngineInv, WriteLineage PROVE EngineInv'
  <1>1. /\ pc = "lineage" /\ pc' = "start" /\ layers' = commit.layers
        /\ UNCHANGED <<proposer, target, queue, considered, commit>>
    BY DEF WriteLineage, setup
  <1> QED
    BY <1>1 DEF EngineInv, EngineType, IsCommit

LEMMA NextEngine == EngineInv /\ [Next]_vars => EngineInv'
  <1> SUFFICES ASSUME EngineInv, [Next]_vars PROVE EngineInv'
    OBVIOUS
  <1>1. CASE UNCHANGED vars
    BY <1>1 DEF EngineInv, EngineType, vars, setup
  <1>2. CASE Next
    BY <1>2, BeginRoundEngine, MeasureEngine, IntegrateEngine, ProposeEngine,
       ConsiderEngine, NothingEngine, SelectEngine, WriteEngine, LineageEngine DEF Next
  <1> QED
    BY <1>1, <1>2

(* The invariant of a run, for any proposals: what is known of every row, and *)
(* of the commit but for its certificate.                                    *)
THEOREM EngineInvariant == Spec => []EngineInv
  BY InitEngine, NextEngine, PTL DEF Spec

-----------------------------------------------------------------------------
(* The certificate of a commit, which is looked up by the proposal's id.     *)

\* No two proposals of a round share an id.
Distinct(rows, q) ==
    /\ \A i, j \in DOMAIN rows : rows[i].proposal.id = rows[j].proposal.id => i = j
    /\ \A i, j \in DOMAIN q : q[i].id = q[j].id => i = j
    /\ \A i \in DOMAIN rows, j \in DOMAIN q : rows[i].proposal.id # q[j].id

CertInv ==
    /\ Distinct(considered, queue)
    /\ pc \in {"record", "lineage"} /\ commit.via # "none" =>
          HoldsCertificate(commit, commit.target, target)

LEMMA NoRows == DOMAIN <<>> = {}
  <1>1. DOMAIN <<>> = 1..0 /\ 1..0 = {}
    OBVIOUS
  <1> QED
    BY <1>1

LEMMA InitCert == ASSUME Init PROVE CertInv
  <1>1. pc = "start" /\ queue = <<>> /\ considered = <<>>
    BY DEF Init
  <1> QED
    BY <1>1, NoRows DEF CertInv, Distinct

LEMMA ProposeCert ==
    ASSUME UniqueIds, EngineInv, Propose
    PROVE  CertInv'
  <1>1. pc' = "consider" /\ considered' = <<>>
    BY DEF Propose, EngineInv
  <1>2. PICK chosen \in SUBSET Pool :
          /\ IsFiniteSet(chosen)
          /\ \E order \in SetToSeqs(chosen), named \in [chosen -> NamedTargets] :
                queue' = [n \in DOMAIN order |-> Sent(order[n], named[order[n]])]
    BY DEF Propose
  <1>3. PICK order \in SetToSeqs(chosen), named \in [chosen -> NamedTargets] :
                queue' = [n \in DOMAIN order |-> Sent(order[n], named[order[n]])]
    BY <1>2
  <1>4. /\ DOMAIN order = 1..Cardinality(chosen)
        /\ \A m \in DOMAIN order : order[m] \in Pool
        /\ \A m, n \in DOMAIN order : order[m] = order[n] => m = n
    BY DEF SetToSeqs
  <1>5. ASSUME NEW m \in DOMAIN queue', NEW n \in DOMAIN queue', queue'[m].id = queue'[n].id
        PROVE  m = n
    <2>1. /\ m \in DOMAIN order /\ n \in DOMAIN order
          /\ queue'[m].id = order[m].id /\ queue'[n].id = order[n].id
      BY <1>3 DEF Sent
    <2> QED
      BY <1>4, <1>5, <2>1 DEF UniqueIds
  <1>6. Distinct(considered', queue')
    BY <1>1, <1>5, NoRows DEF Distinct
  <1> QED
    BY <1>1, <1>6 DEF CertInv

LEMMA ConsiderCert ==
    ASSUME EngineInv, CertInv,
           ConsiderInvalid \/ ConsiderUnmeasured \/ ConsiderMeasured
    PROVE  CertInv'
  <1>1. /\ pc = "consider" /\ queue # <<>> /\ queue' = Tail(queue) /\ pc' = pc
    BY DEF ConsiderInvalid, ConsiderUnmeasured, ConsiderMeasured
  <1>2. IsSeq(queue) /\ IsSeq(considered)
    BY DEF EngineInv, EngineType, IsSeq
  <1>3. /\ Len(queue) \in Nat \ {0} /\ DOMAIN queue = 1..Len(queue) /\ Head(queue) = queue[1]
        /\ DOMAIN queue' = 1..Len(queue) - 1
        /\ \A i \in 1..Len(queue) - 1 : queue'[i] = queue[i + 1]
    BY <1>1, <1>2, TailSeq, SeqDomain
  <1>4. 1 \in DOMAIN queue
    BY <1>3
  <1>5. PICK r : considered' = Append(considered, r) /\ r.proposal = Head(queue)
    <2>1. InvalidRow(Head(queue)).proposal = Head(queue)
      BY DEF InvalidRow
    <2>2. ASSUME NEW st, NEW base, NEW cand, NEW cert
          PROVE  Considered(Head(queue), st, base, cand, cert).proposal = Head(queue)
      BY DEF Considered
    <2> QED
      BY <2>1, <2>2 DEF ConsiderInvalid, ConsiderUnmeasured, ConsiderMeasured
  <1>6. \A i \in DOMAIN considered' :
           \/ i \in DOMAIN considered /\ considered'[i] = considered[i]
           \/ i = Len(considered) + 1 /\ considered'[i] = r
    BY <1>2, <1>5, AppendSeq, SeqDomain
  <1>7. \A i \in DOMAIN queue' : i + 1 \in DOMAIN queue /\ queue'[i] = queue[i + 1]
                                 /\ i + 1 # 1
    BY <1>3
  <1>8. Distinct(considered, queue)
    BY DEF CertInv
  <1>9. \A i, j \in DOMAIN considered' :
           considered'[i].proposal.id = considered'[j].proposal.id => i = j
    BY <1>3, <1>4, <1>5, <1>6, <1>8 DEF Distinct
  <1>10. \A i, j \in DOMAIN queue' : queue'[i].id = queue'[j].id => i = j
    <2> SUFFICES ASSUME NEW i \in DOMAIN queue', NEW j \in DOMAIN queue',
                        queue'[i].id = queue'[j].id
                 PROVE  i = j
      OBVIOUS
    <2>1. i + 1 = j + 1 /\ i \in Int /\ j \in Int
      BY <1>3, <1>7, <1>8 DEF Distinct
    <2> QED
      BY <2>1
  <1>11. \A i \in DOMAIN considered', j \in DOMAIN queue' :
            considered'[i].proposal.id # queue'[j].id
    BY <1>3, <1>4, <1>5, <1>6, <1>7, <1>8 DEF Distinct
  <1> QED
    BY <1>1, <1>9, <1>10, <1>11 DEF CertInv, Distinct

\* The merged edit's certificate is its own; the best proposal's is found under
\* its id, which no other row has.
LEMMA SelectCert ==
    ASSUME EngineInv, CertInv, SelectCommit
    PROVE  CertInv'
  <1>1. /\ pc = "consider" /\ AcceptedIndices # {}
        /\ UNCHANGED <<target, queue, considered>>
    BY DEF SelectCommit, setup
  <1> DEFINE t == MergeGroup[1].proposal.target
  <1>2. PICK base \in BaselinesFor(t), cand \in Results :
          \E cert \in IF Gate(base, cand) THEN SmokeVerdicts(EvalProfile(t)) ELSE {"none"} :
              commit' = IF Gate(base, cand) /\ cert # "fail"
                        THEN MergedCommit(MergeGroup, base, cand, cert)
                        ELSE FallbackCommit(Ranked[1])
    BY DEF SelectCommit
  <1>3. PICK cert \in IF Gate(base, cand) THEN SmokeVerdicts(EvalProfile(t)) ELSE {"none"} :
              commit' = IF Gate(base, cand) /\ cert # "fail"
                        THEN MergedCommit(MergeGroup, base, cand, cert)
                        ELSE FallbackCommit(Ranked[1])
    BY <1>2
  <1>4. CASE Gate(base, cand) /\ cert # "fail"
    <2>1. commit'.cert = cert /\ commit'.target = t
      BY <1>3, <1>4 DEF MergedCommit
    <2>2. cert \in SmokeVerdicts(MeasuredFor(t, target)) \ {"fail"}
      BY <1>3, <1>4 DEF EvalProfile, MeasuredFor
    <2> QED
      BY <1>1, <2>1, <2>2 DEF CertInv, HoldsCertificate
  <1>5. CASE ~(Gate(base, cand) /\ cert # "fail")
    <2>1. PICK i \in AcceptedIndices : Ranked[1] = considered[i]
      BY <1>1, GroupOfEngine
    <2>2. PICK k \in DOMAIN considered :
             /\ considered[k].proposal.id = considered[i].proposal.id
             /\ LastById(considered[i].proposal.id) = considered[k]
      BY <1>1, LastByIdIs
    <2>3. k = i
      BY <2>2 DEF CertInv, Distinct, AcceptedIndices
    <2>4. /\ commit'.cert = considered[i].cert
          /\ commit'.target = considered[i].proposal.target
      BY <1>3, <1>5, <2>1, <2>2, <2>3 DEF FallbackCommit
    <2>5. HoldsCertificate(considered[i], considered[i].proposal.target, target)
      BY <1>1, AcceptedRows DEF Weighed, Evidence
    <2> QED
      BY <1>1, <2>4, <2>5 DEF CertInv, HoldsCertificate
  <1> QED
    BY <1>4, <1>5

LEMMA WriteCert == ASSUME EngineInv, CertInv, WriteArtifacts PROVE CertInv'
  <1>1. /\ pc = "record" /\ pc' = "lineage"
        /\ considered' = [i \in DOMAIN considered |->
              [considered[i] EXCEPT !.status = RowStatus(considered[i])]]
        /\ UNCHANGED <<target, queue>>
    BY DEF WriteArtifacts, setup
  <1>2. /\ commit'.via = commit.via /\ commit'.target = commit.target
        /\ commit'.cert = commit.cert
    BY DEF WriteArtifacts, EngineInv, EngineType, IsCommit
  <1>3. /\ DOMAIN considered' = DOMAIN considered
        /\ \A i \in DOMAIN considered :
              considered'[i] = [considered[i] EXCEPT !.status = RowStatus(considered[i])]
    BY <1>1
  <1>4. ASSUME NEW r, NEW x PROVE [r EXCEPT !.status = x].proposal = r.proposal
    BY <1>4
  <1>5. \A i \in DOMAIN considered : considered'[i].proposal = considered[i].proposal
    BY <1>3, <1>4
  <1> QED
    BY <1>1, <1>2, <1>3, <1>5 DEF CertInv, Distinct, HoldsCertificate

LEMMA NextCert ==
    ASSUME UniqueIds, EngineInv, CertInv, [Next]_vars
    PROVE  CertInv'
  <1>1. CASE UNCHANGED vars
    BY <1>1 DEF CertInv, vars, setup
  <1>2. CASE BeginRound
    <2>1. pc' = "baseline" /\ considered' = <<>> /\ queue' = queue
      BY <1>2 DEF BeginRound
    <2> QED
      BY <2>1, NoRows DEF CertInv, Distinct
  <1>3. CASE RunBaseline \/ NoFindings \/ IntegrateFindings \/ WriteLineage \/ Finish \/ Abort
    BY <1>3 DEF CertInv, RunBaseline, NoFindings, IntegrateFindings, WriteLineage, Finish,
       Abort
  <1>4. CASE Propose
    BY <1>4, ProposeCert
  <1>5. CASE ConsiderInvalid \/ ConsiderUnmeasured \/ ConsiderMeasured
    BY <1>5, ConsiderCert
  <1>6. CASE NothingAccepted
    BY <1>6 DEF CertInv, NothingAccepted, NoCommit
  <1>7. CASE SelectCommit
    BY <1>7, SelectCert
  <1>8. CASE WriteArtifacts
    BY <1>8, WriteCert
  <1> QED
    BY <1>1, <1>2, <1>3, <1>4, <1>5, <1>6, <1>7, <1>8 DEF Next

\* What is known of a run whose proposals have ids of their own.
LEMMA CertInvariant ==
    ASSUME UniqueIds
    PROVE  Spec => [](EngineInv /\ CertInv)
  <1>1. Init => EngineInv /\ CertInv
    BY InitEngine, InitCert
  <1>2. EngineInv /\ CertInv /\ [Next]_vars => (EngineInv /\ CertInv)'
    BY NextEngine, NextCert
  <1> QED
    BY <1>1, <1>2, PTL DEF Spec

(* Nothing is committed without evidence, for any tasks, layers, number of   *)
(* rounds and proposals with ids of their own: also the best proposal that   *)
(* replaces a merged edit that failed was measured against this round's      *)
(* baseline and holds its own certificate.                                   *)
THEOREM CommitsAreGated ==
    ASSUME UniqueIds
    PROVE  Spec => []GatedCommit
  <1>1. EngineInv /\ CertInv => GatedCommit
    <2> SUFFICES ASSUME EngineInv, CertInv, Committed
                 PROVE  /\ Gate(commit.base, commit.eval)
                        /\ commit.cert \in SmokeVerdicts(EvalProfile(commit.target)) \ {"fail"}
                        /\ EvalProfile(commit.target) = target => commit.base = baseline
      BY DEF GatedCommit
    <2>1. /\ commit.via # "none" /\ Grounded(commit, layers, harness, baseline, target)
          /\ HoldsCertificate(commit, commit.target, target)
      BY DEF EngineInv, CertInv, Committed, Decided
    <2>2. EvalProfile(commit.target) = MeasuredFor(commit.target, target)
      BY DEF EvalProfile, MeasuredFor
    <2> QED
      BY <2>1, <2>2 DEF Grounded, Compared, HoldsCertificate
  <1> QED
    BY <1>1, CertInvariant, PTL

(* A profile becomes certified only by a commit for it that holds a passed   *)
(* smoke evaluation where one is due, when proposals have ids of their own.  *)
THEOREM CertificatesAreEarned ==
    ASSUME UniqueIds
    PROVE  Spec => CertifiedOnlyAfterPass
  <1> DEFINE Step == \A p \in layers'.certified \ layers.certified :
                       /\ commit.via # "none" /\ commit.target = p
                       /\ commit.cert \in SmokeVerdicts(p) \ {"fail"}
  <1>1. EngineInv /\ CertInv /\ [Next]_vars => [Step]_layers
    <2> SUFFICES ASSUME EngineInv, CertInv, Next, layers' # layers PROVE Step
      BY DEF vars
    <2>1. CASE IntegrateFindings
      <3>1. PICK source \in Findings :
              layers' = [layers EXCEPT !.base["memory_sources"] = Append(@, source)]
        BY <2>1 DEF IntegrateFindings
      <3>2. layers'.certified = layers.certified
        BY <3>1 DEF EngineInv, EngineType, IsLayers
      <3> QED
        BY <3>2
    <2>2. CASE WriteLineage
      <3>1. pc = "lineage" /\ layers' = commit.layers
        BY <2>2 DEF WriteLineage
      <3>2. SUFFICES ASSUME NEW p \in layers'.certified \ layers.certified
                     PROVE  /\ commit.via # "none" /\ commit.target = p
                            /\ commit.cert \in SmokeVerdicts(p) \ {"fail"}
        OBVIOUS
      <3>3. commit.via # "none" /\ commit.target = p /\ p \in Profiles
        BY <3>1 DEF EngineInv, Certifies
      <3>4. HoldsCertificate(commit, commit.target, target)
        BY <3>1, <3>3 DEF CertInv
      <3>5. MeasuredFor(p, target) = p
        BY <3>3, NoProfileIsNone DEF MeasuredFor
      <3> QED
        BY <3>3, <3>4, <3>5 DEF HoldsCertificate
    <2>3. CASE ~IntegrateFindings /\ ~WriteLineage
      BY <2>3 DEF Next, BeginRound, RunBaseline, NoFindings, Propose, ConsiderInvalid,
         ConsiderUnmeasured, ConsiderMeasured, NothingAccepted, SelectCommit,
         WriteArtifacts, Finish, Abort
    <2> QED
      BY <2>1, <2>2, <2>3
  <1> QED
    BY <1>1, CertInvariant, PTL DEF Spec, CertifiedOnlyAfterPass

-----------------------------------------------------------------------------
(* The gate is never wasted.                                                 *)

LEMMA DecideMaximal ==
    ASSUME EngineInv, SelectCommit
    PROVE  BestCommittedGroupMaximal'
  <1>1. /\ pc = "consider" /\ AcceptedIndices # {}
        /\ considered' = considered /\ baseline' = baseline
    BY DEF SelectCommit
  <1>2. AcceptedIndices' = AcceptedIndices
    BY <1>1 DEF AcceptedIndices
  <1>3. \A i, j : Before(i, j)' <=> Before(i, j)
    BY <1>1 DEF Before, Fixed
  <1>4. Ranking' = Ranking
    BY <1>2, <1>3 DEF Ranking
  <1>5. Ranked' = Ranked
    BY <1>1, <1>4 DEF Ranked
  <1> DEFINE g == MergeGroup
  <1>6. \E base, cand, cert : commit' \in {MergedCommit(g, base, cand, cert),
                                           FallbackCommit(Ranked[1])}
    BY DEF SelectCommit
  <1>7. CASE commit' = FallbackCommit(Ranked[1])
    <2>1. commit'.ids = <<Ranked[1].proposal.id>> /\ commit'.via = "fallback"
      BY <1>7 DEF FallbackCommit
    <2>2. commit'.ids # <<>> /\ commit'.ids[1] = Ranked[1].proposal.id
      BY <2>1
    <2> QED
      BY <1>5, <2>1, <2>2 DEF BestCommittedGroupMaximal
  <1>8. CASE \E base, cand, cert : commit' = MergedCommit(g, base, cand, cert)
    <2> DEFINE n == Len(g)
    <2>1. commit'.ids = Ids(g)
      BY <1>8 DEF MergedCommit
    <2>2. /\ n \in Nat \ {0} /\ DOMAIN g = 1..n /\ g[1] = Ranked[1]
          /\ Group(g, Ranked, Len(Ranked))
          /\ \A k \in 1..n : \E j \in AcceptedIndices : g[k] = considered[j]
      BY <1>1, GroupOfEngine, SeqDomain
    <2> HIDE DEF n, g
    <2>3. commit'.ids = [i \in 1..n |-> g[i].proposal.id]
      BY <2>1, <2>2 DEF Ids
    <2>4. commit'.ids # <<>> /\ commit'.ids[1] = Ranked[1].proposal.id
      <3>1. 1 \in 1..n /\ DOMAIN <<>> = 1..0 /\ 1 \notin 1..0
        BY <2>2
      <3> QED
        BY <2>2, <2>3, <3>1
    <2>5. \A k \in 1..n : g[k].proposal.id \in ToSet(commit'.ids)
      BY <2>3 DEF ToSet
    <2>6. ASSUME NEW i \in AcceptedIndices
          PROVE  \/ considered[i].proposal.id \in ToSet(commit'.ids)
                 \/ \E j \in AcceptedIndices :
                      /\ considered[j].proposal.id \in ToSet(commit'.ids)
                      /\ \/ considered[i].proposal.target # considered[j].proposal.target
                         \/ ~Mergeable(considered[i].proposal.patch,
                                       considered[j].proposal.patch)
      <3>1. PICK m \in 1..Len(Ranked) : Ranked[m] = considered[i]
        BY <1>1, RankedOfEngine
      <3>2. CASE \E k \in 1..n : g[k] = considered[i]
        BY <2>5, <3>2
      <3>3. CASE \E k \in 1..n : Apart(considered[i], g[k])
        <4>1. PICK k \in 1..n : Apart(considered[i], g[k])
          BY <3>3
        <4>2. PICK j \in AcceptedIndices : g[k] = considered[j]
          BY <2>2
        <4> QED
          BY <2>5, <4>1, <4>2 DEF Apart
      <3> QED
        BY <2>2, <3>1, <3>2, <3>3 DEF Group, n
    <2> QED
      BY <1>1, <1>2, <1>5, <2>4, <2>6 DEF BestCommittedGroupMaximal
  <1> QED
    BY <1>6, <1>7, <1>8

(* If a proposal passed on its own, the round commits the best ranked one,   *)
(* and a proposal that passed and is left out of a merged commit could not   *)
(* have been merged with those in it, for any set of tasks and proposals.    *)
THEOREM GateIsNeverWasted == Spec => []BestCommittedGroupMaximal
  <1>1. Init => BestCommittedGroupMaximal
    BY DEF Init, BestCommittedGroupMaximal
  <1>2. EngineInv /\ BestCommittedGroupMaximal /\ [Next]_vars
          => BestCommittedGroupMaximal'
    <2> SUFFICES ASSUME EngineInv, BestCommittedGroupMaximal, [Next]_vars
                 PROVE  BestCommittedGroupMaximal'
      OBVIOUS
    <2>1. CASE SelectCommit
      BY <2>1, DecideMaximal
    <2>2. CASE NothingAccepted
      <3>1. AcceptedIndices' = {}
        BY <2>2 DEF NothingAccepted, AcceptedIndices
      <3> QED
        BY <3>1 DEF BestCommittedGroupMaximal
    <2>3. CASE UNCHANGED vars
      <3>1. /\ considered' = considered /\ baseline' = baseline
            /\ commit' = commit /\ pc' = pc
        BY <2>3 DEF vars
      <3>2. AcceptedIndices' = AcceptedIndices /\ \A i, j : Before(i, j)' <=> Before(i, j)
        BY <3>1 DEF AcceptedIndices, Before, Fixed
      <3>3. Ranking' = Ranking
        BY <3>2 DEF Ranking
      <3>4. Ranked' = Ranked
        BY <3>1, <3>3 DEF Ranked
      <3> QED
        BY <3>1, <3>2, <3>4 DEF BestCommittedGroupMaximal
    <2>4. CASE Next /\ ~SelectCommit /\ ~NothingAccepted
      <3>1. pc' # "record"
        BY <2>4 DEF Next, BeginRound, RunBaseline, NoFindings, IntegrateFindings,
           Propose, ConsiderInvalid, ConsiderUnmeasured, ConsiderMeasured,
           WriteArtifacts, WriteLineage, Finish, Abort
      <3> QED
        BY <3>1 DEF BestCommittedGroupMaximal
    <2> QED
      BY <2>1, <2>2, <2>3, <2>4
  <1> QED
    BY <1>1, <1>2, EngineInvariant, PTL DEF Spec

-----------------------------------------------------------------------------
(* The run as a ledger.                                                      *)

LEMMA ProviderOpsIsSeq ==
    ASSUME NEW l, IsLayers(l), NEW k
    PROVE  IsSeq(OverlayOps(l.providers, k))
  <1>1. CASE k \in DOMAIN l.providers
    BY <1>1 DEF IsLayers, IsOverlay, OverlayOps, IsSeq
  <1>2. CASE k \notin DOMAIN l.providers
    <2>1. <<>> \in Seq({})
      OBVIOUS
    <2> QED
      BY <1>2, <2>1 DEF OverlayOps, IsSeq
  <1> QED
    BY <1>1, <1>2

(* What a profile runs with gives every surface a value.                     *)
LEMMA EffectiveGives ==
    ASSUME NEW l, IsLayers(l), NEW t \in Aims
    PROVE  Gives(Effective(l, t), Surfaces)
  <1>1. Gives(l.base, Surfaces)
    BY DEF IsLayers, Gives
  <1>2. CASE t = NoProfile
    BY <1>1, <1>2 DEF Effective
  <1>3. CASE t # NoProfile
    <2>1. t \in Profiles
      BY <1>3 DEF Aims
    <2> DEFINE mid == ApplyPatch(l.base, OverlayOps(l.providers, ProviderOf[t]))
    <2>2. Gives(mid, Surfaces)
      BY <1>1, ProviderOpsIsSeq, ApplyPatchGives
    <2>3. Effective(l, t) = ApplyPatch(mid, OverlayOps(l.models, t))
      BY <2>1, EffectiveOf
    <2>4. IsSeq(OverlayOps(l.models, t))
      BY <2>1, OverlayOpsIsSeq
    <2> HIDE DEF mid
    <2> QED
      BY <2>2, <2>3, <2>4, ApplyPatchGives
  <1> QED
    BY <1>2, <1>3

\* What proposals are for when the model names no profile but the engine's.
Own(who, t) == IF who = "heuristic" THEN NoProfile ELSE t

\* A profile without operations of its own runs with the base.
Bare(l, t) ==
    /\ OverlayOps(l.models, t) = <<>>
    /\ OverlayOps(l.providers, ProviderOf[t]) = <<>>

Home(l, who, t) == who = "heuristic" /\ t # NoProfile => Bare(l, t)

LEMMA BareEffective ==
    ASSUME NEW l, NEW t \in Profiles, Bare(l, t)
    PROVE  Effective(l, t) = l.base
  BY EffectiveOf, ApplyPatchEmpty DEF Bare

(* An edit for the engine's own target changes what the engine runs with by  *)
(* exactly that edit.                                                        *)
LEMMA OwnEdit ==
    ASSUME NEW l, IsLayers(l), NEW who, NEW t \in Aims, Home(l, who, t),
           NEW p, IsSeq(p)
    PROVE  LET r == LayersWith(l, p, Own(who, t))
           IN  /\ BaseOf(l, Own(who, t)) = Effective(l, t)
               /\ Effective(r, t) = ApplyPatch(Effective(l, t), p)
               /\ Home(r, who, t)
  <1> DEFINE r == LayersWith(l, p, Own(who, t))
  <1>1. CASE Own(who, t) = t
    <2>1. BaseOf(l, t) = Effective(l, t) /\ Effective(r, t) = ApplyPatch(Effective(l, t), p)
      BY <1>1, BaseOfIs, LayersWithIs DEF Aims
    <2>2. Home(r, who, t)
      BY <1>1 DEF Home, Own
    <2> QED
      BY <1>1, <2>1, <2>2
  <1>2. CASE Own(who, t) # t
    <2>1. who = "heuristic" /\ Own(who, t) = NoProfile /\ t \in Profiles
      BY <1>2 DEF Own, Aims
    <2>2. Effective(l, t) = l.base
      BY <2>1, NoProfileIsNone, BareEffective DEF Home
    <2>3. r = [l EXCEPT !.base = ApplyPatch(l.base, p)]
      BY <2>1, LayersWithIs
    <2>4. /\ r.base = ApplyPatch(l.base, p)
          /\ r.models = l.models /\ r.providers = l.providers
      BY <2>3 DEF IsLayers
    <2> HIDE DEF r
    <2>5. Bare(r, t)
      BY <2>1, <2>4, NoProfileIsNone DEF Home, Bare
    <2>6. Effective(r, t) = r.base
      BY <2>1, <2>5, BareEffective
    <2>7. BaseOf(l, NoProfile) = l.base
      BY DEF BaseOf
    <2> QED
      BY <2>1, <2>2, <2>4, <2>5, <2>6, <2>7 DEF Home, r
  <1> QED
    BY <1>1, <1>2

\* A decided commit: its operations lead from the harness h to what the engine
\* runs with after it, and its reverse operations lead back.
Landed(c, h, who, t) ==
    /\ Effective(c.layers, t) = c.spec
    /\ Home(c.layers, who, t)
    /\ c.ids = <<>> => c.spec = h
    /\ ApplyPatch(h, c.patch) = c.spec
    /\ ApplyPatch(c.spec, c.reverse) = h

Explains(r) ==
    /\ ApplyPatch(r.before, r.ops) = r.after
    /\ ApplyPatch(r.after, r.reverse) = r.before

LedgerInv ==
    /\ harness = Effective(layers, target)
    /\ Home(layers, proposer, target)
    /\ \A i \in DOMAIN queue : queue[i].target = Own(proposer, target)
    /\ pc = "consider" =>
          \A i \in DOMAIN considered : considered[i].proposal.target = Own(proposer, target)
    /\ pc \in {"record", "lineage"} => Landed(commit, harness, proposer, target)
    /\ IsSeq(lineage)
    /\ \A i \in 1..Len(lineage) : Explains(lineage[i])

LEMMA InitLedger ==
    ASSUME OwnTargetsOnly, Init, EngineInv
    PROVE  LedgerInv
  <1>1. PICK s \in Setups : /\ proposer = s.proposer /\ target = s.target
                            /\ layers = IF s.target = NoProfile THEN s.layers
                                        ELSE RegisterProfile(s.layers, s.target)
    BY DEF Init
  <1>2. /\ pc = "start" /\ harness = Effective(layers, target)
        /\ queue = <<>> /\ lineage = <<>>
    BY DEF Init
  <1>3. Home(layers, proposer, target)
    <2> SUFFICES ASSUME proposer = "heuristic", target # NoProfile
                 PROVE  Bare(layers, target)
      BY DEF Home
    <2>1. target \in Profiles
      BY DEF EngineInv, EngineType, Aims
    <2>2. Bare(s.layers, target)
      BY <1>1 DEF OwnTargetsOnly, Bare
    <2> QED
      BY <1>1, <2>1, <2>2, SetupLayers, RegisterIs DEF Bare
  <1>4. DOMAIN <<>> = 1..0 /\ 1..0 = {} /\ <<>> \in Seq({}) /\ Len(<<>>) = 0
    OBVIOUS
  <1> QED
    BY <1>2, <1>3, <1>4 DEF LedgerInv, IsSeq

(* A commit of nothing.                                                      *)
LEMMA NothingLands ==
    ASSUME NEW l, NEW who, NEW t, Home(l, who, t), NEW h, h = Effective(l, t), NEW b
    PROVE  Landed(NoCommit(h, l, b), h, who, t)
  BY ApplyPatchEmpty DEF Landed, NoCommit

(* A commit for the engine's own target.                                     *)
LEMMA OwnCommitLands ==
    ASSUME NEW l, IsLayers(l), NEW who, NEW t \in Aims, Home(l, who, t),
           NEW p, IsSeq(p), NEW c,
           c.layers = LayersWith(l, p, Own(who, t)), c.patch = p, c.ids # <<>>,
           c.spec = ApplyPatch(BaseOf(l, Own(who, t)), p),
           c.reverse = ReversePatch(BaseOf(l, Own(who, t)), p)
    PROVE  Landed(c, Effective(l, t), who, t)
  <1>1. /\ BaseOf(l, Own(who, t)) = Effective(l, t)
        /\ Effective(c.layers, t) = ApplyPatch(Effective(l, t), p)
        /\ Home(c.layers, who, t)
    BY OwnEdit
  <1>2. Gives(Effective(l, t), Surfaces)
    BY EffectiveGives
  <1>3. ApplyPatch(ApplyPatch(Effective(l, t), p), ReversePatch(Effective(l, t), p))
          = Effective(l, t)
    BY <1>2, ReversePatchUndoes
  <1> QED
    BY <1>1, <1>3 DEF Landed

(* With unique ids the layers by id are those of the best proposal itself.   *)
LEMMA FallbackLayers ==
    ASSUME UniqueIds, EngineInv, LedgerInv, pc = "consider", NEW i \in AcceptedIndices
    PROVE  LastById(considered[i].proposal.id).layers =
               LayersWith(layers, considered[i].proposal.patch, Own(proposer, target))
  <1>1. PICK k \in DOMAIN considered :
           /\ considered[k].proposal.id = considered[i].proposal.id
           /\ considered[k].status # "invalid"
           /\ LastById(considered[i].proposal.id) = considered[k]
    BY LastByIdIs
  <1>2. /\ considered[k].proposal \in Proposed
        /\ considered[k].layers = LayersWith(layers, considered[k].proposal.patch,
                                             considered[k].proposal.target)
        /\ considered[i].proposal \in Proposed
    BY <1>1, AcceptedRows DEF EngineInv, Weighed
  <1>3. considered[k].proposal.target = Own(proposer, target)
    BY DEF LedgerInv
  <1>4. ASSUME NEW q \in Proposed, NEW r \in Proposed, q.id = r.id
        PROVE  q.patch = r.patch
    BY <1>4 DEF Proposed, Sent, UniqueIds
  <1> QED
    BY <1>1, <1>2, <1>3, <1>4

LEMMA SelectLedger ==
    ASSUME UniqueIds, EngineInv, LedgerInv, SelectCommit
    PROVE  LedgerInv'
  <1>1. /\ pc = "consider" /\ pc' = "record" /\ AcceptedIndices # {}
        /\ UNCHANGED <<proposer, target, layers, harness, baseline, queue, considered,
                       lineage>>
    BY DEF SelectCommit, setup
  <1> DEFINE g == MergeGroup
             own == Own(proposer, target)
  <1>2. /\ IsLayers(layers) /\ target \in Aims /\ Home(layers, proposer, target)
        /\ harness = Effective(layers, target)
    BY DEF EngineInv, EngineType, LedgerInv
  <1>3. PICK i \in AcceptedIndices : g[1] = considered[i] /\ Ranked[1] = considered[i]
    BY <1>1, GroupOfEngine
  <1>4. /\ Weighed(considered[i], layers, baseline, target)
        /\ considered[i].proposal \in Proposed /\ considered[i].status = "accepted"
        /\ considered[i].proposal.target = own
    <2>1. considered[i].proposal.target = own
      BY <1>1 DEF LedgerInv, AcceptedIndices
    <2> QED
      BY <1>1, <2>1, AcceptedRows
  <1>5. \E base, cand, cert : commit' \in {MergedCommit(g, base, cand, cert),
                                           FallbackCommit(Ranked[1])}
    BY DEF SelectCommit
  <1>6. CASE commit' = FallbackCommit(Ranked[1])
    <2> DEFINE best == considered[i]
               c == FallbackCommit(best)
    <2>1. /\ c.ids = <<best.proposal.id>> /\ c.patch = best.proposal.patch
          /\ c.layers = LastById(best.proposal.id).layers
          /\ c.spec = best.spec /\ c.reverse = best.reverse
      BY DEF FallbackCommit
    <2>2. c.layers = LayersWith(layers, c.patch, own)
      BY <1>1, <2>1, FallbackLayers
    <2>3. c.ids # <<>>
      BY <2>1
    <2>4. best.proposal.patch \in Seq(PoolOps)
      BY <1>4, ProposedIs
    <2>5. IsSeq(c.patch)
      BY <2>1, <2>4 DEF IsSeq
    <2>6. /\ c.spec = ApplyPatch(BaseOf(layers, own), c.patch)
          /\ c.reverse = ReversePatch(BaseOf(layers, own), c.patch)
      BY <1>4, <2>1 DEF Weighed
    <2>7. commit' = c
      BY <1>3, <1>6
    <2> HIDE DEF c, own
    <2>8. Landed(c, harness, proposer, target)
      BY <1>2, <2>2, <2>3, <2>5, <2>6, OwnCommitLands DEF own
    <2> QED
      BY <1>1, <2>7, <2>8 DEF LedgerInv
  <1>7. CASE \E base, cand, cert : commit' = MergedCommit(g, base, cand, cert)
    <2> DEFINE patch == MergePatches([j \in DOMAIN g |-> g[j].proposal.patch])
               c == commit'
    <2>1. /\ c.ids = Ids(g) /\ c.patch = patch
          /\ c.layers = LayersWith(layers, patch, g[1].proposal.target)
          /\ c.spec = ApplyPatch(BaseOf(layers, g[1].proposal.target), patch)
          /\ c.reverse = ReversePatch(BaseOf(layers, g[1].proposal.target), patch)
      BY <1>7 DEF MergedCommit, ApplyPatchToLayers
    <2>2. c.ids # <<>>
      <3>1. 1 \in DOMAIN g
        BY <1>1, GroupOfEngine, SeqDomain
      <3>2. DOMAIN <<>> = 1..0 /\ 1 \notin 1..0
        OBVIOUS
      <3> HIDE DEF g
      <3>3. DOMAIN Ids(g) = DOMAIN g
        BY DEF Ids
      <3> QED
        BY <2>1, <3>1, <3>2, <3>3
    <2>3. patch \in Seq(PoolOps)
      BY <1>1, MergedPatch
    <2>4. IsSeq(patch)
      BY <2>3 DEF IsSeq
    <2>5. g[1].proposal.target = own
      BY <1>3, <1>4
    <2> HIDE DEF patch, c, g, own
    <2>6. Landed(c, harness, proposer, target)
      BY <1>2, <2>1, <2>2, <2>4, <2>5, OwnCommitLands DEF own
    <2> QED
      BY <1>1, <2>6 DEF LedgerInv, c
  <1> QED
    BY <1>5, <1>6, <1>7

LEMMA RowLedger ==
    ASSUME EngineInv, LedgerInv,
           ConsiderInvalid \/ ConsiderUnmeasured \/ ConsiderMeasured
    PROVE  LedgerInv'
  <1>1. /\ pc = "consider" /\ queue # <<>> /\ queue' = Tail(queue)
        /\ UNCHANGED <<pc, proposer, target, layers, harness, commit, lineage>>
    BY DEF ConsiderInvalid, ConsiderUnmeasured, ConsiderMeasured, setup
  <1>2. PICK r : considered' = Append(considered, r) /\ r.proposal = Head(queue)
    <2>1. CASE ConsiderInvalid \/ ConsiderUnmeasured
      <3>1. InvalidRow(Head(queue)).proposal = Head(queue)
        BY DEF InvalidRow
      <3> QED
        BY <2>1, <3>1 DEF ConsiderInvalid, ConsiderUnmeasured
    <2>2. CASE ConsiderMeasured
      <3>1. PICK st, base, cand, cert :
              considered' = Append(considered, Considered(Head(queue), st, base, cand, cert))
        BY <2>2 DEF ConsiderMeasured
      <3>2. Considered(Head(queue), st, base, cand, cert).proposal = Head(queue)
        BY DEF Considered
      <3> QED
        BY <3>1, <3>2
    <2> QED
      BY <2>1, <2>2
  <1>3. /\ IsSeq(queue) /\ IsSeq(considered)
        /\ \A i \in DOMAIN queue : queue[i].target = Own(proposer, target)
    BY DEF EngineInv, EngineType, LedgerInv, IsSeq
  <1>4. /\ Len(queue) \in Nat \ {0} /\ DOMAIN queue = 1..Len(queue) /\ Head(queue) = queue[1]
        /\ DOMAIN queue' = 1..Len(queue) - 1
        /\ \A i \in 1..Len(queue) - 1 : queue'[i] = queue[i + 1]
    BY <1>1, <1>3, TailSeq, SeqDomain
  <1>5. \A i \in DOMAIN queue' : queue'[i].target = Own(proposer, target)
    <2> SUFFICES ASSUME NEW i \in DOMAIN queue' PROVE queue'[i].target = Own(proposer, target)
      OBVIOUS
    <2>1. i + 1 \in DOMAIN queue /\ queue'[i] = queue[i + 1]
      BY <1>4
    <2> QED
      BY <1>3, <2>1
  <1>6. r.proposal.target = Own(proposer, target)
    <2>1. 1 \in DOMAIN queue
      BY <1>4
    <2> QED
      BY <1>2, <1>3, <1>4, <2>1
  <1>7. /\ DOMAIN considered' = 1..(Len(considered) + 1)
        /\ DOMAIN considered = 1..Len(considered) /\ Len(considered) \in Nat
        /\ considered'[Len(considered) + 1] = r
        /\ \A i \in 1..Len(considered) : considered'[i] = considered[i]
    BY <1>2, <1>3, AppendSeq, SeqDomain
  <1>8. \A i \in DOMAIN considered' : considered'[i].proposal.target = Own(proposer, target)
    <2> SUFFICES ASSUME NEW i \in DOMAIN considered'
                 PROVE  considered'[i].proposal.target = Own(proposer, target)
      OBVIOUS
    <2>1. CASE i = Len(considered) + 1
      BY <1>6, <1>7, <2>1
    <2>2. CASE i # Len(considered) + 1
      <3>1. i \in 1..Len(considered)
        BY <1>7, <2>2
      <3> QED
        BY <1>1, <1>7, <3>1 DEF LedgerInv
    <2> QED
      BY <2>1, <2>2
  <1> QED
    BY <1>1, <1>5, <1>8 DEF LedgerInv

LEMMA ProposeLedger ==
    ASSUME OwnTargetsOnly, EngineInv, LedgerInv, Propose
    PROVE  LedgerInv'
  <1>1. /\ pc' = "consider"
        /\ UNCHANGED <<proposer, target, layers, harness, considered, lineage>>
        /\ considered = <<>>
    BY DEF Propose, setup, EngineInv
  <1>2. PICK chosen \in SUBSET Pool :
          /\ IsFiniteSet(chosen)
          /\ \E order \in SetToSeqs(chosen), named \in [chosen -> NamedTargets] :
                queue' = [n \in DOMAIN order |-> Sent(order[n], named[order[n]])]
    BY DEF Propose
  <1>3. PICK order \in SetToSeqs(chosen), named \in [chosen -> NamedTargets] :
                queue' = [n \in DOMAIN order |-> Sent(order[n], named[order[n]])]
    BY <1>2
  <1>4. order \in [1..Cardinality(chosen) -> chosen]
    BY DEF SetToSeqs
  <1>5. NamedTargets = {Own(proposer, target)}
    BY DEF NamedTargets, Own, OwnTargetsOnly
  <1>6. \A n \in DOMAIN queue' : queue'[n].target = Own(proposer, target)
    <2> SUFFICES ASSUME NEW n \in DOMAIN queue'
                 PROVE  queue'[n].target = Own(proposer, target)
      OBVIOUS
    <2>1. n \in DOMAIN order /\ queue'[n] = Sent(order[n], named[order[n]])
      BY <1>3
    <2>2. order[n] \in chosen
      BY <1>4, <2>1
    <2>3. named[order[n]] = Own(proposer, target)
      BY <1>5, <2>2
    <2> QED
      BY <2>1, <2>3 DEF Sent
  <1>7. DOMAIN considered' = {}
    <2>1. DOMAIN <<>> = 1..0 /\ 1..0 = {}
      OBVIOUS
    <2> QED
      BY <1>1, <2>1
  <1> QED
    BY <1>1, <1>6, <1>7 DEF LedgerInv

LEMMA NothingLedger ==
    ASSUME EngineInv, LedgerInv, NothingAccepted
    PROVE  LedgerInv'
  <1>1. /\ pc' = "record" /\ commit' = NoCommit(harness, layers, baseline)
        /\ UNCHANGED <<proposer, target, layers, harness, queue, considered, lineage>>
    BY DEF NothingAccepted, setup
  <1>2. Landed(commit', harness, proposer, target)
    BY <1>1, NothingLands DEF LedgerInv
  <1> QED
    BY <1>1, <1>2 DEF LedgerInv

LEMMA WriteLedger ==
    ASSUME EngineInv, LedgerInv, WriteArtifacts
    PROVE  LedgerInv'
  <1>1. /\ pc = "record" /\ pc' = "lineage"
        /\ UNCHANGED <<proposer, target, layers, harness, queue, lineage>>
    BY DEF WriteArtifacts, setup
  <1>2. IsCommit(commit) /\ Landed(commit, harness, proposer, target) /\ target \in Aims
    BY <1>1 DEF EngineInv, EngineType, LedgerInv
  <1>3. Landed(commit', harness, proposer, target)
    <2>1. CASE commit.via = "none" \/ commit.target = NoProfile
      BY <1>2, <2>1 DEF WriteArtifacts
    <2>2. CASE commit.via # "none" /\ commit.target # NoProfile
      <3> DEFINE m == MarkProfileCertified(commit.layers, commit.target, commit.cert)
      <3>1. commit' = [commit EXCEPT !.layers = m]
        BY <2>2 DEF WriteArtifacts
      <3>2. commit.target \in Profiles /\ IsLayers(commit.layers)
        BY <1>2, <2>2 DEF IsCommit, Aims
      <3>3. Effective(m, target) = Effective(commit.layers, target)
        BY <1>2, <3>2, MarkEffective DEF Aims
      <3>4. \A q \in Profiles : Bare(commit.layers, q) => Bare(m, q)
        BY <3>2, MarkIs DEF Bare
      <3>5. Home(m, proposer, target)
        BY <1>2, <3>4 DEF Landed, Home, Aims
      <3> HIDE DEF m
      <3>6. /\ commit'.layers = m /\ commit'.spec = commit.spec /\ commit'.ids = commit.ids
            /\ commit'.patch = commit.patch /\ commit'.reverse = commit.reverse
        BY <1>2, <3>1 DEF IsCommit
      <3> QED
        BY <1>2, <3>3, <3>5, <3>6 DEF Landed
    <2> QED
      BY <2>1, <2>2
  <1> QED
    BY <1>1, <1>3 DEF LedgerInv

(* The record of a round explains it.                                        *)
LEMMA RecordLedger ==
    ASSUME EngineInv, LedgerInv, WriteLineage
    PROVE  /\ LedgerInv'
           /\ L!Record
  <1> DEFINE r == LineageRecord
             n == Len(lineage)
  <1>1. /\ pc = "lineage" /\ pc' = "start" /\ layers' = commit.layers
        /\ harness' = commit.spec /\ lineage' = Append(lineage, r)
        /\ UNCHANGED <<proposer, target, queue>>
    BY DEF WriteLineage, setup
  <1>2. Landed(commit, harness, proposer, target) /\ IsSeq(lineage)
    BY <1>1 DEF LedgerInv
  <1>3. /\ r.before = harness /\ r.after = commit.spec /\ r.ops = commit.patch
        /\ r.reverse = commit.reverse /\ r.ids = commit.ids
    BY DEF LineageRecord
  <1> HIDE DEF r
  <1>4. /\ IsSeq(lineage') /\ n \in Nat /\ Len(lineage') = n + 1 /\ lineage'[n + 1] = r
        /\ \A i \in 1..n : lineage'[i] = lineage[i]
    BY <1>1, <1>2, AppendSeq
  <1>5. Explains(r)
    BY <1>2, <1>3 DEF Landed, Explains
  <1>6. ASSUME NEW i \in 1..Len(lineage') PROVE Explains(lineage'[i])
    <2>1. CASE i = n + 1
      BY <1>4, <1>5, <2>1
    <2>2. CASE i # n + 1
      <3>1. i \in 1..n
        BY <1>4, <2>2
      <3> QED
        BY <1>4, <3>1 DEF LedgerInv
    <2> QED
      BY <2>1, <2>2
  <1>7. LedgerInv'
    BY <1>1, <1>2, <1>4, <1>6 DEF LedgerInv, Landed
  <1>8. SubSeq(lineage', 1, n) = lineage
    <2>1. PICK S : lineage \in Seq(S)
      BY <1>2 DEF IsSeq
    <2>2. lineage \in Seq(S \cup {r}) /\ r \in S \cup {r}
      BY <2>1
    <2> QED
      BY <1>1, <2>2
  <1>9. L!Record
    <2>1. r.ids = <<>> => r.after = r.before
      BY <1>2, <1>3 DEF Landed
    <2> QED
      BY <1>1, <1>3, <1>4, <1>8, <2>1 DEF L!Record
  <1> QED
    BY <1>7, <1>9

LEMMA NextLedger ==
    ASSUME OwnTargetsOnly, UniqueIds, EngineInv, LedgerInv, [Next]_vars
    PROVE  /\ LedgerInv'
           /\ [L!Record]_<<harness, lineage>>
  <1>1. CASE UNCHANGED vars
    BY <1>1 DEF LedgerInv, vars, setup
  <1>2. CASE BeginRound
    BY <1>2 DEF LedgerInv, BeginRound, setup
  <1>3. CASE RunBaseline \/ NoFindings \/ Finish \/ Abort
    BY <1>3 DEF LedgerInv, RunBaseline, NoFindings, Finish, Abort, setup
  <1>4. CASE IntegrateFindings
    BY <1>4 DEF IntegrateFindings, OwnTargetsOnly
  <1>5. CASE Propose
    BY <1>5, ProposeLedger DEF Propose
  <1>6. CASE ConsiderInvalid \/ ConsiderUnmeasured \/ ConsiderMeasured
    BY <1>6, RowLedger DEF ConsiderInvalid, ConsiderUnmeasured, ConsiderMeasured
  <1>7. CASE NothingAccepted
    BY <1>7, NothingLedger DEF NothingAccepted
  <1>8. CASE SelectCommit
    BY <1>8, SelectLedger DEF SelectCommit
  <1>9. CASE WriteArtifacts
    BY <1>9, WriteLedger DEF WriteArtifacts
  <1>10. CASE WriteLineage
    BY <1>10, RecordLedger
  <1> QED
    BY <1>1, <1>2, <1>3, <1>4, <1>5, <1>6, <1>7, <1>8, <1>9, <1>10 DEF Next

(* The invariant of a run that keeps to its own target.                      *)
THEOREM LedgerInvariant ==
    ASSUME OwnTargetsOnly, UniqueIds
    PROVE  Spec => [](EngineInv /\ LedgerInv)
  <1>1. Init => EngineInv /\ LedgerInv
    BY InitEngine, InitLedger
  <1>2. EngineInv /\ LedgerInv /\ [Next]_vars => (EngineInv /\ LedgerInv)'
    BY NextEngine, NextLedger
  <1> QED
    BY <1>1, <1>2, PTL DEF Spec

(* A record explains its round in both directions, for any patches, ranking  *)
(* and number of rounds, when every edit goes where it was measured.         *)
THEOREM LineageIsReplayable ==
    ASSUME OwnTargetsOnly, UniqueIds
    PROVE  Spec => []LineageReplays
  <1>1. EngineInv /\ LedgerInv => LineageReplays
    <2> SUFFICES ASSUME LedgerInv PROVE LineageReplays
      OBVIOUS
    <2>1. DOMAIN lineage = 1..Len(lineage)
      BY SeqDomain DEF LedgerInv
    <2> QED
      BY <2>1 DEF LedgerInv, LineageReplays, Explains
  <1> QED
    BY <1>1, LedgerInvariant, PTL

(* Such a run implements the ledger: its harness changes only with a record, *)
(* and a record without accepted proposals leaves it as it was.              *)
THEOREM EngineIsALedger ==
    ASSUME OwnTargetsOnly, UniqueIds
    PROVE  Spec => ImplementsLedger
  <1>1. Init => L!Init
    BY DEF Init, L!Init
  <1>2. EngineInv /\ LedgerInv /\ [Next]_vars => [L!Record]_<<harness, lineage>>
    BY NextLedger
  <1> QED
    BY <1>1, <1>2, LedgerInvariant, PTL DEF Spec, ImplementsLedger, L!Spec

-----------------------------------------------------------------------------
(* The files of a run that is a ledger.                                      *)

IsSnapshot(s) == s = [before |-> s.before, after |-> s.after]

InRound == {"baseline", "research", "propose", "propose with findings", "consider",
            "record", "lineage"}

FilesInv ==
    /\ round \in Nat /\ Len(lineage) = round
    /\ IsSeq(artifacts) /\ round <= Len(artifacts)
    /\ \A i \in 1..Len(artifacts) : IsSnapshot(artifacts[i])
    /\ \A i \in 1..round : /\ artifacts[i].before = lineage[i].before
                           /\ artifacts[i].after = <<lineage[i].after>>
    /\ \A i \in 1..round : i > 1 => lineage[i].before = lineage[i - 1].after
    /\ round > 0 => lineage[round].after = harness
    /\ pc \in {"start", "done"} => Len(artifacts) = round
    /\ pc \in InRound => /\ Len(artifacts) = round + 1
                         /\ artifacts[round + 1].before = harness
    /\ pc = "lineage" => artifacts[round + 1].after = <<commit.spec>>

LEMMA InitFiles == ASSUME Init PROVE FilesInv
  <1>1. round = 0 /\ lineage = <<>> /\ artifacts = <<>> /\ pc = "start"
    BY DEF Init
  <1>2. <<>> \in Seq({}) /\ Len(<<>>) = 0 /\ 1..0 = {}
    OBVIOUS
  <1> QED
    BY <1>1, <1>2 DEF FilesInv, IsSeq, InRound

LEMMA BeginFiles == ASSUME LedgerInv, FilesInv, BeginRound PROVE FilesInv'
  <1> DEFINE e == [before |-> harness, after |-> <<>>]
  <1>1. /\ pc = "start" /\ pc' = "baseline" /\ harness' = harness
        /\ artifacts' = Append(artifacts, e)
        /\ UNCHANGED <<round, lineage>>
    BY DEF BeginRound, LedgerInv
  <1>2. IsSnapshot(e) /\ e.before = harness
    BY DEF IsSnapshot
  <1> HIDE DEF e
  <1>3. IsSeq(artifacts) /\ Len(artifacts) = round /\ round \in Nat
    BY <1>1 DEF FilesInv
  <1>4. /\ IsSeq(artifacts') /\ Len(artifacts') = round + 1
        /\ artifacts'[round + 1] = e
        /\ \A i \in 1..round : artifacts'[i] = artifacts[i]
    BY <1>1, <1>3, AppendSeq
  <1>5. \A i \in 1..Len(artifacts') : IsSnapshot(artifacts'[i])
    <2> SUFFICES ASSUME NEW i \in 1..Len(artifacts') PROVE IsSnapshot(artifacts'[i])
      OBVIOUS
    <2>1. CASE i = round + 1
      BY <1>2, <1>4, <2>1
    <2>2. CASE i # round + 1
      <3>1. i \in 1..round
        BY <1>3, <1>4, <2>2
      <3> QED
        BY <1>3, <1>4, <3>1 DEF FilesInv
    <2> QED
      BY <2>1, <2>2
  <1> QED
    BY <1>1, <1>2, <1>3, <1>4, <1>5 DEF FilesInv, InRound

LEMMA WriteFiles == ASSUME FilesInv, WriteArtifacts PROVE FilesInv'
  <1> DEFINE n == round + 1
             e == [artifacts[n] EXCEPT !.after = <<commit.spec>>]
  <1>1. /\ pc = "record" /\ pc' = "lineage" /\ UNCHANGED <<round, lineage, harness>>
        /\ Len(artifacts) = n /\ artifacts[n].before = harness
    BY DEF WriteArtifacts, FilesInv, InRound
  <1>2. artifacts' = [artifacts EXCEPT ![n] = e]
    BY <1>1 DEF WriteArtifacts
  <1>3. commit'.spec = commit.spec
    BY DEF WriteArtifacts
  <1>4. round \in Nat /\ n \in Nat /\ DOMAIN artifacts = 1..n
    BY <1>1, SeqDomain DEF FilesInv
  <1>5. IsSnapshot(artifacts[n])
    BY <1>1, <1>4 DEF FilesInv
  <1>6. IsSnapshot(e) /\ e.before = harness /\ e.after = <<commit.spec>>
    <2>1. ASSUME NEW s, IsSnapshot(s), NEW x
          PROVE  [s EXCEPT !.after = x] = [before |-> s.before, after |-> x]
      BY <2>1 DEF IsSnapshot
    <2>2. e = [before |-> artifacts[n].before, after |-> <<commit.spec>>]
      BY <1>5, <2>1
    <2> QED
      BY <1>1, <2>2 DEF IsSnapshot
  <1> HIDE DEF e
  <1>7. /\ \A i \in 1..n : artifacts'[i] = IF i = n THEN e ELSE artifacts[i]
        /\ DOMAIN artifacts' = 1..n
    BY <1>2, <1>4
  <1>8. IsSeq(artifacts') /\ Len(artifacts') = n
    <2>1. PICK S : artifacts \in Seq(S)
      BY DEF FilesInv, IsSeq
    <2>2. artifacts \in Seq(S \cup {e}) /\ e \in S \cup {e}
      BY <2>1
    <2>3. artifacts' \in Seq(S \cup {e})
      BY <1>1, <1>2, <1>4, <2>2
    <2> QED
      BY <1>4, <1>7, <2>3 DEF IsSeq
  <1>9. \A i \in 1..round : i \in 1..n /\ i # n
    BY <1>4
  <1> QED
    BY <1>1, <1>3, <1>4, <1>6, <1>7, <1>8, <1>9 DEF FilesInv, InRound

LEMMA LineageFiles == ASSUME LedgerInv, FilesInv, WriteLineage PROVE FilesInv'
  <1> DEFINE r == LineageRecord
             n == round + 1
  <1>1. /\ pc = "lineage" /\ pc' = "start" /\ round' = n /\ harness' = commit.spec
        /\ lineage' = Append(lineage, r) /\ artifacts' = artifacts
    BY DEF WriteLineage
  <1>2. r.before = harness /\ r.after = commit.spec
    BY DEF LineageRecord
  <1> HIDE DEF r
  <1>3. /\ round \in Nat /\ Len(lineage) = round /\ IsSeq(lineage) /\ Len(artifacts) = n
        /\ artifacts[n].before = harness /\ artifacts[n].after = <<commit.spec>>
    BY <1>1 DEF FilesInv, InRound, LedgerInv
  <1>4. /\ Len(lineage') = n /\ lineage'[n] = r
        /\ \A i \in 1..round : lineage'[i] = lineage[i]
    BY <1>1, <1>3, AppendSeq
  <1>5. ASSUME NEW i \in 1..n
        PROVE  /\ artifacts[i].before = lineage'[i].before
               /\ artifacts[i].after = <<lineage'[i].after>>
               /\ i > 1 => lineage'[i].before = lineage'[i - 1].after
    <2>1. CASE i = n
      <3>1. i > 1 => /\ round > 0 /\ i - 1 = round /\ round \in 1..round
        BY <1>3, <2>1
      <3> QED
        BY <1>2, <1>3, <1>4, <2>1, <3>1 DEF FilesInv
    <2>2. CASE i # n
      <3>1. i \in 1..round /\ (i > 1 => i - 1 \in 1..round)
        BY <1>3, <2>2
      <3> QED
        BY <1>4, <3>1 DEF FilesInv
    <2> QED
      BY <2>1, <2>2
  <1>6. n \in Nat /\ n > 0
    BY <1>3
  <1> QED
    BY <1>1, <1>2, <1>3, <1>4, <1>5, <1>6 DEF FilesInv, InRound

LEMMA NextFiles ==
    ASSUME OwnTargetsOnly, LedgerInv, FilesInv, [Next]_vars
    PROVE  FilesInv'
  <1>1. CASE UNCHANGED vars
    BY <1>1 DEF FilesInv, vars
  <1>2. CASE BeginRound
    BY <1>2, BeginFiles
  <1>3. CASE IntegrateFindings
    BY <1>3 DEF IntegrateFindings, OwnTargetsOnly
  <1>4. CASE RunBaseline \/ NoFindings \/ Propose
    BY <1>4 DEF FilesInv, InRound, RunBaseline, NoFindings, Propose
  <1>5. CASE ConsiderInvalid \/ ConsiderUnmeasured \/ ConsiderMeasured
    BY <1>5 DEF FilesInv, InRound, ConsiderInvalid, ConsiderUnmeasured, ConsiderMeasured
  <1>6. CASE NothingAccepted \/ SelectCommit
    BY <1>6 DEF FilesInv, InRound, NothingAccepted, SelectCommit
  <1>7. CASE WriteArtifacts
    BY <1>7, WriteFiles
  <1>8. CASE WriteLineage
    BY <1>8, LineageFiles
  <1>9. CASE Finish \/ Abort
    BY <1>9 DEF FilesInv, InRound, Finish, Abort
  <1> QED
    BY <1>1, <1>2, <1>3, <1>4, <1>5, <1>6, <1>7, <1>8, <1>9 DEF Next

-----------------------------------------------------------------------------
(* The rows of such a run.                                                   *)

\* A row of the round with the baseline b, to which all edits of such a run are
\* compared.
Row(r, b) ==
    /\ {"proposal", "status"} \subseteq DOMAIN r
    /\ r.status # "invalid" => {"base", "eval"} \subseteq DOMAIN r /\ r.base = b

\* What a commit says of itself.
Backed(c, b) ==
    /\ IsSeq(c.ids)
    /\ c.via \in {"none", "merge", "fallback"}
    /\ c.via = "none" <=> c.ids = <<>>
    /\ c.via # "none" => Gate(b, c.eval)

\* The rows at the decision: the ids of the commit are those of accepted rows.
Chosen(rows, c, b) ==
    /\ Backed(c, b)
    /\ \A i \in DOMAIN rows :
          /\ rows[i].proposal \in Proposed
          /\ rows[i].status \in {"invalid", "rejected", "accepted"}
          /\ Row(rows[i], b)
          /\ rows[i].status = "accepted" => Gate(b, rows[i].eval)
    /\ \A id \in ToSet(c.ids) : \E i \in DOMAIN rows :
          rows[i].proposal.id = id /\ rows[i].status = "accepted"

\* The rows as they are written: those of the commit's ids stay accepted, or
\* are merged if there are several.
Reported(rows, c, b) ==
    /\ Backed(c, b)
    /\ \A i \in DOMAIN rows :
          /\ rows[i].proposal \in Proposed
          /\ Row(rows[i], b)
          /\ rows[i].status \in {"accepted", "merged"} =>
                rows[i].proposal.id \in ToSet(c.ids) /\ Gate(b, rows[i].eval)
          /\ rows[i].status = "merged" => c.via = "merge"
    /\ \A id \in ToSet(c.ids) : \E i \in DOMAIN rows :
          /\ rows[i].proposal.id = id
          /\ rows[i].status = IF c.via = "merge" /\ Len(c.ids) > 1 THEN "merged"
                              ELSE "accepted"

RowsInv ==
    /\ pc = "consider" => \A i \in DOMAIN considered : Row(considered[i], baseline)
    /\ pc = "record" => Chosen(considered, commit, baseline)
    /\ pc = "lineage" => Reported(considered, commit, baseline)
    /\ pc = "start" /\ round > 0 => /\ Reported(considered, commit, baseline)
                                    /\ lineage[round].ids = commit.ids

LEMMA InitRows == ASSUME Init PROVE RowsInv
  BY DEF Init, RowsInv

LEMMA ProposeRows == ASSUME EngineInv, Propose PROVE RowsInv'
  BY NoRows DEF EngineInv, Propose, RowsInv

\* Both proposers of a run that keeps to its own target are measured with its
\* profile.
LEMMA OwnMeasured ==
    ASSUME NEW who, NEW t
    PROVE  MeasuredFor(Own(who, t), t) = t
  BY DEF MeasuredFor, Own

LEMMA ConsiderRows ==
    ASSUME EngineInv, LedgerInv, RowsInv,
           ConsiderInvalid \/ ConsiderUnmeasured \/ ConsiderMeasured
    PROVE  RowsInv'
  <1>1. /\ pc = "consider" /\ pc' = pc /\ baseline' = baseline /\ queue # <<>>
    BY DEF ConsiderInvalid, ConsiderUnmeasured, ConsiderMeasured
  <1>2. /\ IsSeq(queue) /\ IsSeq(considered)
        /\ \A i \in DOMAIN queue : queue[i].target = Own(proposer, target)
    BY DEF EngineInv, EngineType, LedgerInv, IsSeq
  <1>3. Head(queue).target = Own(proposer, target)
    BY <1>1, <1>2, TailSeq, SeqDomain
  <1>4. PICK r : considered' = Append(considered, r) /\ Row(r, baseline)
    <2>1. CASE ConsiderInvalid \/ ConsiderUnmeasured
      <3>1. Row(InvalidRow(Head(queue)), baseline)
        BY DEF InvalidRow, Row
      <3> QED
        BY <2>1, <3>1 DEF ConsiderInvalid, ConsiderUnmeasured
    <2>2. CASE ConsiderMeasured
      <3>0. PICK base \in BaselinesFor(Head(queue).target) : \E st, cand, cert :
              considered' = Append(considered, Considered(Head(queue), st, base, cand, cert))
        BY <2>2 DEF ConsiderMeasured
      <3>1. PICK st, cand, cert :
              considered' = Append(considered, Considered(Head(queue), st, base, cand, cert))
        BY <3>0
      <3>2. Row(Considered(Head(queue), st, base, cand, cert), base)
        BY DEF Considered, Row
      <3>3. EvalProfile(Head(queue).target) = target
        BY <1>3, OwnMeasured DEF EvalProfile, MeasuredFor
      <3>4. base = baseline
        BY <3>3 DEF BaselinesFor
      <3> QED
        BY <3>1, <3>2, <3>4
    <2> QED
      BY <2>1, <2>2
  <1>5. \A i \in DOMAIN considered' :
           \/ i \in DOMAIN considered /\ considered'[i] = considered[i]
           \/ considered'[i] = r
    BY <1>2, <1>4, AppendSeq, SeqDomain
  <1>6. \A i \in DOMAIN considered' : Row(considered'[i], baseline)
    BY <1>1, <1>4, <1>5 DEF RowsInv
  <1> QED
    BY <1>1, <1>6 DEF RowsInv

LEMMA NothingRows ==
    ASSUME EngineInv, RowsInv, NothingAccepted
    PROVE  RowsInv'
  <1>1. /\ pc = "consider" /\ pc' = "record" /\ AcceptedIndices = {}
        /\ commit' = NoCommit(harness, layers, baseline)
        /\ UNCHANGED <<queue, considered, baseline>>
    BY DEF NothingAccepted
  <1>2. commit'.ids = <<>> /\ commit'.via = "none"
    BY <1>1 DEF NoCommit
  <1>3. IsSeq(<<>>) /\ ToSet(<<>>) = {}
    <2>1. <<>> \in Seq({})
      OBVIOUS
    <2> QED
      BY <2>1, NoRows DEF IsSeq, ToSet
  <1>4. Backed(commit', baseline)
    BY <1>2, <1>3 DEF Backed
  <1>5. \A i \in DOMAIN considered : Weighed(considered[i], layers, baseline, target)
    BY <1>1 DEF EngineInv
  <1>6. \A i \in DOMAIN considered : considered[i].status # "accepted"
    BY <1>1 DEF AcceptedIndices
  <1>7. Chosen(considered, commit', baseline)
    BY <1>1, <1>2, <1>3, <1>4, <1>5, <1>6 DEF Chosen, Weighed, RowsInv
  <1> QED
    BY <1>1, <1>7 DEF RowsInv

LEMMA SelectRows ==
    ASSUME UniqueIds, EngineInv, EngineInv', LedgerInv, RowsInv, SelectCommit
    PROVE  RowsInv'
  <1>1. /\ pc = "consider" /\ pc' = "record" /\ AcceptedIndices # {}
        /\ UNCHANGED <<proposer, target, queue, considered, baseline>>
    BY DEF SelectCommit, setup
  <1> DEFINE g == MergeGroup
             own == Own(proposer, target)
  <1>2. PICK i \in AcceptedIndices : g[1] = considered[i] /\ Ranked[1] = considered[i]
    BY <1>1, GroupOfEngine
  <1>3. \A j \in AcceptedIndices : /\ j \in DOMAIN considered
                                   /\ considered[j].status = "accepted"
                                   /\ considered[j].proposal.target = own
    BY <1>1 DEF LedgerInv, AcceptedIndices
  <1>4. \E base, cand, cert : commit' \in {MergedCommit(g, base, cand, cert),
                                           FallbackCommit(Ranked[1])}
    BY DEF SelectCommit
  <1>5. /\ IsSeq(commit'.ids) /\ commit'.ids # <<>> /\ commit'.via \in {"merge", "fallback"}
        /\ commit'.target = own
        /\ \A id \in ToSet(commit'.ids) :
              \E j \in AcceptedIndices : considered[j].proposal.id = id
    <2>1. CASE commit' = FallbackCommit(Ranked[1])
      <3> DEFINE id == considered[i].proposal.id
      <3>1. /\ commit'.ids = <<id>> /\ commit'.via = "fallback"
            /\ commit'.target = considered[i].proposal.target
        BY <1>2, <2>1 DEF FallbackCommit
      <3>2. <<id>> \in Seq({id}) /\ <<id>> # <<>> /\ ToSet(<<id>>) = {id}
        BY DEF ToSet
      <3> QED
        BY <1>3, <3>1, <3>2 DEF IsSeq
    <2>2. CASE \E base, cand, cert : commit' = MergedCommit(g, base, cand, cert)
      <3> DEFINE n == Len(g)
      <3>1. /\ commit'.ids = Ids(g) /\ commit'.via = "merge"
            /\ commit'.target = g[1].proposal.target
        BY <2>2 DEF MergedCommit
      <3>2. /\ n \in Nat \ {0} /\ DOMAIN g = 1..n
            /\ \A k \in 1..n : \E j \in AcceptedIndices : g[k] = considered[j]
        BY <1>1, GroupOfEngine, SeqDomain
      <3> HIDE DEF n, g
      <3>3. commit'.ids = [k \in 1..n |-> g[k].proposal.id]
        BY <3>1, <3>2 DEF Ids
      <3>4. commit'.ids \in Seq({g[k].proposal.id : k \in 1..n})
        BY <3>2, <3>3
      <3>5. commit'.ids # <<>>
        <4>1. 1 \in DOMAIN commit'.ids
          BY <3>2, <3>3
        <4> QED
          BY <4>1, NoRows
      <3>6. \A id \in ToSet(commit'.ids) :
               \E j \in AcceptedIndices : considered[j].proposal.id = id
        BY <3>2, <3>3 DEF ToSet
      <3> QED
        BY <1>2, <1>3, <3>1, <3>4, <3>5, <3>6 DEF IsSeq
    <2> QED
      BY <1>4, <2>1, <2>2
  <1>6. Gate(baseline, commit'.eval)
    <2>1. Grounded(commit', layers', harness', baseline', target')
      BY <1>1 DEF EngineInv
    <2>2. Compared(commit', own, baseline, target)
      BY <1>1, <1>5, <2>1 DEF Grounded
    <2> QED
      BY <2>2, OwnMeasured DEF Compared
  <1>7. \A j \in DOMAIN considered : Weighed(considered[j], layers, baseline, target)
    BY <1>1 DEF EngineInv
  <1>8. \A j \in DOMAIN considered :
           /\ Row(considered[j], baseline)
           /\ considered[j].status = "accepted" => Gate(baseline, considered[j].eval)
    BY <1>1, <1>7 DEF RowsInv, Weighed, Evidence, Compared, Row
  <1>9. Backed(commit', baseline)
    BY <1>5, <1>6 DEF Backed
  <1>10. Chosen(considered, commit', baseline)
    BY <1>3, <1>5, <1>7, <1>8, <1>9 DEF Chosen, Weighed
  <1> QED
    BY <1>1, <1>10 DEF RowsInv

LEMMA WriteRows ==
    ASSUME EngineInv, RowsInv, WriteArtifacts
    PROVE  RowsInv'
  <1>1. /\ pc = "record" /\ pc' = "lineage"
        /\ considered' = [i \in DOMAIN considered |->
              [considered[i] EXCEPT !.status = RowStatus(considered[i])]]
        /\ UNCHANGED <<queue, baseline>>
    BY DEF WriteArtifacts
  <1>2. commit'.ids = commit.ids /\ commit'.via = commit.via /\ commit'.eval = commit.eval
    BY DEF WriteArtifacts, EngineInv, EngineType, IsCommit
  <1>3. Chosen(considered, commit, baseline)
    BY <1>1 DEF RowsInv
  <1>4. Backed(commit', baseline)
    BY <1>2, <1>3 DEF Chosen, Backed
  <1>5. ASSUME NEW i \in DOMAIN considered
        PROVE  /\ considered'[i].proposal = considered[i].proposal
               /\ considered'[i].status = RowStatus(considered[i])
               /\ Row(considered'[i], baseline)
               /\ considered[i].status # "invalid" =>
                     considered'[i].eval = considered[i].eval
    <2> DEFINE r == considered[i]
               x == RowStatus(r)
    <2>1. considered'[i] = [r EXCEPT !.status = x]
      BY <1>1
    <2>2. Row(r, baseline)
      BY <1>3 DEF Chosen
    <2>3. x # "invalid" => r.status # "invalid"
      BY DEF RowStatus
    <2> HIDE DEF r, x
    <2>4. /\ considered'[i].proposal = r.proposal /\ considered'[i].status = x
          /\ Row(considered'[i], baseline)
          /\ r.status # "invalid" => considered'[i].eval = r.eval
      BY <2>1, <2>2, <2>3 DEF Row
    <2> QED
      BY <2>4 DEF r, x
  <1>6. DOMAIN considered' = DOMAIN considered
    BY <1>1
  <1>7. ASSUME NEW i \in DOMAIN considered
        PROVE  /\ considered[i].status = "accepted" =>
                     RowStatus(considered[i]) =
                        IF considered[i].proposal.id \notin ToSet(commit.ids) THEN "superseded"
                        ELSE IF commit.via = "merge" /\ Len(commit.ids) > 1 THEN "merged"
                        ELSE "accepted"
               /\ RowStatus(considered[i]) \in {"accepted", "merged"} =>
                     considered[i].status = "accepted"
    BY <1>3 DEF RowStatus, Chosen
  <1>8. \A i \in DOMAIN considered :
           /\ considered[i].proposal \in Proposed
           /\ considered[i].status = "accepted" => Gate(baseline, considered[i].eval)
    BY <1>3 DEF Chosen
  <1>9. Reported(considered', commit', baseline)
    <2>1. ASSUME NEW i \in DOMAIN considered
          PROVE  /\ considered'[i].proposal \in Proposed
                 /\ Row(considered'[i], baseline)
                 /\ considered'[i].status \in {"accepted", "merged"} =>
                       /\ considered'[i].proposal.id \in ToSet(commit'.ids)
                       /\ Gate(baseline, considered'[i].eval)
                 /\ considered'[i].status = "merged" => commit'.via = "merge"
      BY <1>2, <1>5, <1>7, <1>8
    <2>2. ASSUME NEW id \in ToSet(commit'.ids)
          PROVE  \E i \in DOMAIN considered :
                    /\ considered'[i].proposal.id = id
                    /\ considered'[i].status =
                          IF commit'.via = "merge" /\ Len(commit'.ids) > 1 THEN "merged"
                          ELSE "accepted"
      <3>1. PICK i \in DOMAIN considered :
              considered[i].proposal.id = id /\ considered[i].status = "accepted"
        BY <1>2, <1>3 DEF Chosen
      <3> QED
        BY <1>2, <1>5, <1>7, <3>1
    <2> QED
      BY <1>4, <1>6, <2>1, <2>2 DEF Reported
  <1> QED
    BY <1>1, <1>9 DEF RowsInv

LEMMA NextRows ==
    ASSUME OwnTargetsOnly, UniqueIds, EngineInv, EngineInv', LedgerInv, FilesInv, RowsInv,
           [Next]_vars
    PROVE  RowsInv'
  <1>1. CASE UNCHANGED vars
    BY <1>1 DEF RowsInv, vars
  <1>2. CASE BeginRound
    BY <1>2 DEF BeginRound, RowsInv
  <1>3. CASE RunBaseline \/ NoFindings \/ IntegrateFindings \/ Finish \/ Abort
    BY <1>3 DEF RowsInv, RunBaseline, NoFindings, IntegrateFindings, Finish, Abort
  <1>4. CASE Propose
    BY <1>4, ProposeRows
  <1>5. CASE ConsiderInvalid \/ ConsiderUnmeasured \/ ConsiderMeasured
    BY <1>5, ConsiderRows
  <1>6. CASE NothingAccepted
    BY <1>6, NothingRows
  <1>7. CASE SelectCommit
    BY <1>7, SelectRows
  <1>8. CASE WriteArtifacts
    BY <1>8, WriteRows
  <1>9. CASE WriteLineage
    <2>1. /\ pc = "lineage" /\ pc' = "start" /\ round' = round + 1
          /\ lineage' = Append(lineage, LineageRecord)
          /\ UNCHANGED <<queue, considered, commit, baseline>>
      BY <1>9 DEF WriteLineage
    <2>2. IsSeq(lineage) /\ Len(lineage) = round /\ LineageRecord.ids = commit.ids
      BY DEF LedgerInv, FilesInv, LineageRecord
    <2>3. lineage'[round'].ids = commit.ids
      BY <2>1, <2>2, AppendSeq
    <2> QED
      BY <2>1, <2>3 DEF RowsInv
  <1> QED
    BY <1>1, <1>2, <1>3, <1>4, <1>5, <1>6, <1>7, <1>8, <1>9 DEF Next

AuditInv == EngineInv /\ CertInv /\ LedgerInv /\ FilesInv /\ RowsInv

(* The invariant of what a run leaves on disk.                               *)
THEOREM AuditInvariant ==
    ASSUME OwnTargetsOnly, UniqueIds
    PROVE  Spec => []AuditInv
  <1>1. Init => AuditInv
    BY InitEngine, InitCert, InitLedger, InitFiles, InitRows DEF AuditInv
  <1>2. AuditInv /\ [Next]_vars => AuditInv'
    BY NextEngine, NextCert, NextLedger, NextFiles, NextRows DEF AuditInv
  <1> QED
    BY <1>1, <1>2, PTL DEF Spec

-----------------------------------------------------------------------------
(* Reading the files: what a migration does to them.                         *)

FilesOf(whole, m, p, l, s, r, e, file, c) ==
    [loads |-> whole, manifest |-> m, provenance |-> p, lineage |-> l, snapshots |-> s,
     proposals |-> r, evaluations |-> e, patternsFile |-> file, patterns |-> c]

Files(m, p, l, s, r, e) ==
    FilesOf(TRUE, m, p, l, s, r, e, "whole", ClusterFailures(baseline, "held_in"))

\* The run's files in schema m, with lineage rows of schema k.
LineageRows(k) ==
    [i \in DOMAIN lineage |->
        [schema |-> k, before |-> lineage[i].before,
         after |-> lineage[i].after, ids |-> lineage[i].ids]]

AuditWith(m, k, p) ==
    Files(m, p, LineageRows(k), artifacts, ProposalRows(m), EvaluationRows(m))

LEMMA AuditRunIs ==
    ASSUME NEW v
    PROVE  AuditRun(v) = AuditWith(v, LineageSchema(v), NoProvenance)
  BY DEF AuditRun, AuditWith, Files, FilesOf, LineageRows

LEMMA SeqOfValues ==
    ASSUME NEW S, NEW s \in Seq(S)
    PROVE  s \in Seq({s[i] : i \in 1..Len(s)})
  <1> DEFINE D == {s[i] : i \in 1..Len(s)}
  <1>1. Len(s) \in Nat /\ s = [i \in 1..Len(s) |-> s[i]]
    OBVIOUS
  <1>2. \A i \in 1..Len(s) : s[i] \in D
    OBVIOUS
  <1> HIDE DEF D
  <1>3. [i \in 1..Len(s) |-> s[i]] \in Seq(D)
    BY <1>1, <1>2
  <1> QED
    BY <1>1, <1>3 DEF D

LEMMA PositionIs ==
    /\ Schemas = {SchemaOrder[i] : i \in 1..5}
    /\ SchemaOrder \in Seq(Schemas) /\ Len(SchemaOrder) = 5
    /\ \A i \in 1..5 : Position(SchemaOrder[i]) = i
    /\ \A v \in Schemas : Position(v) \in 1..5 /\ SchemaOrder[Position(v)] = v
  <1>1. DOMAIN SchemaOrder = 1..5 /\ Len(SchemaOrder) = 5
    BY DEF SchemaOrder
  <1>2. Schemas = {SchemaOrder[i] : i \in 1..5}
    BY <1>1 DEF Schemas, ToSet
  <1>3. \A i, j \in 1..5 : SchemaOrder[i] = SchemaOrder[j] => i = j
    BY DEF SchemaOrder
  <1>4. SchemaOrder \in Seq(Schemas)
    <2>1. SchemaOrder \in Seq({"1.0", "1.1", "1.2", "1.3", "1.4"})
      BY DEF SchemaOrder
    <2> HIDE DEF SchemaOrder
    <2>2. SchemaOrder \in Seq({SchemaOrder[i] : i \in 1..5})
      BY <1>1, <2>1, SeqOfValues
    <2> QED
      BY <1>2, <2>2
  <1> HIDE DEF SchemaOrder
  <1>5. \A i \in 1..5 : Position(SchemaOrder[i]) = i
    <2> SUFFICES ASSUME NEW i \in 1..5 PROVE Position(SchemaOrder[i]) = i
      OBVIOUS
    <2>1. \A j : j \in DOMAIN SchemaOrder /\ SchemaOrder[j] = SchemaOrder[i] <=> j = i
      BY <1>1, <1>3
    <2> QED
      BY <2>1 DEF Position
  <1> QED
    BY <1>1, <1>2, <1>4, <1>5

Rewritten(rows, w) == {[row EXCEPT !.schema = w] : row \in rows}

LEMMA ResultRowsRewritten ==
    ASSUME NEW id, NEW arm, NEW result, NEW m, NEW w
    PROVE  Rewritten(ResultRows(id, arm, result, m), w) = ResultRows(id, arm, result, w)
  <1> DEFINE R(v, s) == [proposal |-> id, arm |-> arm, split |-> s, schema |-> v,
                         pass |-> Totals(result)[s]]
  <1>1. \A s : [R(m, s) EXCEPT !.schema = w] = R(w, s)
    OBVIOUS
  <1>2. \A v : ResultRows(id, arm, result, v) = {R(v, s) : s \in Splits}
    BY DEF ResultRows
  <1> HIDE DEF R
  <1> QED
    BY <1>1, <1>2 DEF Rewritten

LEMMA RowsOfRewritten ==
    ASSUME NEW id, NEW base, NEW cand, NEW m, NEW w
    PROVE  Rewritten(EvaluationRowsOf(id, base, cand, m), w) =
               EvaluationRowsOf(id, base, cand, w)
  <1>1. \A a, b : Rewritten(a \cup b, w) = Rewritten(a, w) \cup Rewritten(b, w)
    BY DEF Rewritten
  <1> QED
    BY <1>1, ResultRowsRewritten DEF EvaluationRowsOf

LEMMA EvaluationsRewritten ==
    ASSUME NEW m, NEW w
    PROVE  Rewritten(EvaluationRows(m), w) = EvaluationRows(w)
  <1> DEFINE F(v, i) == EvaluationRowsOf(considered[i].proposal.id, considered[i].base,
                                         considered[i].eval, v)
             A(v) == ResultRows(BaselineId, "baseline", baseline, v)
             C(v) == IF commit.via = "merge"
                     THEN EvaluationRowsOf(MergeId, commit.base, commit.eval, v) ELSE {}
             U(v) == UNION {F(v, i) : i \in MeasuredIndices}
  <1>1. \A v : EvaluationRows(v) = A(v) \cup U(v) \cup C(v)
    BY DEF EvaluationRows
  <1>2. Rewritten(A(m), w) = A(w)
    BY ResultRowsRewritten
  <1>3. Rewritten(C(m), w) = C(w)
    <2>1. Rewritten({}, w) = {}
      BY DEF Rewritten
    <2> QED
      BY <2>1, RowsOfRewritten
  <1>4. \A i : Rewritten(F(m, i), w) = F(w, i)
    BY RowsOfRewritten
  <1> HIDE DEF A, F, C
  <1>5. Rewritten(U(m), w) = U(w)
    <2>1. Rewritten(UNION {F(m, i) : i \in MeasuredIndices}, w) =
            UNION {Rewritten(F(m, i), w) : i \in MeasuredIndices}
      BY DEF Rewritten
    <2> QED
      BY <1>4, <2>1
  <1> DEFINE Join(a, b, c) == a \cup b \cup c
  <1>6. \A a, b, c : Rewritten(Join(a, b, c), w) =
                       Join(Rewritten(a, w), Rewritten(b, w), Rewritten(c, w))
    BY DEF Rewritten
  <1>7. EvaluationRows(m) = Join(A(m), U(m), C(m)) /\ EvaluationRows(w) = Join(A(w), U(w), C(w))
    BY <1>1
  <1> HIDE DEF U, Join
  <1> QED
    BY <1>2, <1>3, <1>5, <1>6, <1>7

\* One field of the files rewritten, and all those that a transform rewrites.
PutManifest(a, x) == [a EXCEPT !.manifest = x]
PutProvenance(a, x) == [a EXCEPT !.provenance = x]
PutLineage(a, x) == [a EXCEPT !.lineage = x]
PutProposals(a, x) == [a EXCEPT !.proposals = x]
PutEvaluations(a, x) == [a EXCEPT !.evaluations = x]

LEMMA FilesPut ==
    ASSUME NEW m, NEW p, NEW l, NEW s, NEW r, NEW e, NEW x
    PROVE  /\ PutManifest(Files(m, p, l, s, r, e), x) = Files(x, p, l, s, r, e)
           /\ PutProvenance(Files(m, p, l, s, r, e), x) = Files(m, x, l, s, r, e)
           /\ PutLineage(Files(m, p, l, s, r, e), x) = Files(m, p, x, s, r, e)
           /\ PutProposals(Files(m, p, l, s, r, e), x) = Files(m, p, l, s, x, e)
           /\ PutEvaluations(Files(m, p, l, s, r, e), x) = Files(m, p, l, s, r, x)
  <1>1. ASSUME NEW o, NEW f, NEW c
        PROVE  /\ PutManifest(FilesOf(o, m, p, l, s, r, e, f, c), x) =
                    FilesOf(o, x, p, l, s, r, e, f, c)
               /\ PutProvenance(FilesOf(o, m, p, l, s, r, e, f, c), x) =
                    FilesOf(o, m, x, l, s, r, e, f, c)
               /\ PutLineage(FilesOf(o, m, p, l, s, r, e, f, c), x) =
                    FilesOf(o, m, p, x, s, r, e, f, c)
               /\ PutProposals(FilesOf(o, m, p, l, s, r, e, f, c), x) =
                    FilesOf(o, m, p, l, s, x, e, f, c)
               /\ PutEvaluations(FilesOf(o, m, p, l, s, r, e, f, c), x) =
                    FilesOf(o, m, p, l, s, r, x, f, c)
    BY DEF FilesOf, PutManifest, PutProvenance, PutLineage, PutProposals, PutEvaluations
  <1> QED
    BY <1>1 DEF Files

(* A transform puts every row into its schema, and changes nothing else.     *)
LEMMA MigrateStep ==
    ASSUME NEW m, NEW k, NEW p, NEW w
    PROVE  MigrateMetadata(AuditWith(m, k, p), w) = AuditWith(w, w, p)
  <1> DEFINE a == AuditWith(m, k, p)
  <1>1. [i \in DOMAIN LineageRows(k) |-> [LineageRows(k)[i] EXCEPT !.schema = w]] =
          LineageRows(w)
    BY DEF LineageRows
  <1>2. [i \in DOMAIN ProposalRows(m) |-> [ProposalRows(m)[i] EXCEPT !.schema = w]] =
          ProposalRows(w)
    <2>1. \A r : [ProposalRow(r, m) EXCEPT !.schema = w] = ProposalRow(r, w)
      BY DEF ProposalRow
    <2> QED
      BY <2>1 DEF ProposalRows
  <1>3. {[row EXCEPT !.schema = w] : row \in EvaluationRows(m)} = EvaluationRows(w)
    BY EvaluationsRewritten DEF Rewritten
  <1>4. /\ a.lineage = LineageRows(k) /\ a.proposals = ProposalRows(m)
        /\ a.evaluations = EvaluationRows(m)
    BY DEF AuditWith, Files, FilesOf
  <1> HIDE DEF a
  <1>5. MigrateMetadata(a, w) =
          PutEvaluations(PutProposals(PutLineage(PutManifest(a, w), LineageRows(w)),
                                      ProposalRows(w)), EvaluationRows(w))
    <2>1. 4 >= 1 /\ 4 >= 2 /\ 4 >= 3 /\ 4 >= 4
      OBVIOUS
    <2>2. MigrateFiles(a, w, 4) =
            PutEvaluations(
              PutProposals(
                PutLineage(PutManifest(a, w),
                           [i \in DOMAIN a.lineage |-> [a.lineage[i] EXCEPT !.schema = w]]),
                [i \in DOMAIN a.proposals |-> [a.proposals[i] EXCEPT !.schema = w]]),
              {[row EXCEPT !.schema = w] : row \in a.evaluations})
      BY <2>1, Zenon
         DEF MigrateFiles, PutManifest, PutLineage, PutProposals, PutEvaluations
    <2>3. /\ [i \in DOMAIN a.lineage |-> [a.lineage[i] EXCEPT !.schema = w]] = LineageRows(w)
          /\ [i \in DOMAIN a.proposals |-> [a.proposals[i] EXCEPT !.schema = w]] =
               ProposalRows(w)
          /\ {[row EXCEPT !.schema = w] : row \in a.evaluations} = EvaluationRows(w)
      BY <1>1, <1>2, <1>3, <1>4
    <2> QED
      BY <2>2, <2>3, Zenon DEF MigrateMetadata
  <1> QED
    BY <1>5, FilesPut DEF AuditWith, a

LEMMA MigrateGoes ==
    ASSUME NEW a, NEW p, NEW n \in Nat, DOMAIN p = 1..n
    PROVE  \E h : Turns("schemas", h, a, p, n) /\ FoldLeft(MigrateMetadata, a, p) = h[n]
  <1> DEFINE f == CHOOSE f : Folding("schemas", f, a, p, n)
  <1>1. Folding("schemas", f, a, p, n)
    BY FoldingExists
  <1>2. FoldLeft(MigrateMetadata, a, p) = f[1..n]
    BY DEF FoldLeft, MapThenFoldSet, Folding, Turn
  <1> HIDE DEF f
  <1> QED
    BY <1>1, <1>2, FoldingGoes

(* ... and so do all the transforms of a path, up to the last of them.       *)
LEMMA TransformsGo ==
    ASSUME NEW v, NEW k, NEW p, NEW n \in Nat, DOMAIN p = 1..n
    PROVE  FoldLeft(MigrateMetadata, AuditWith(v, k, NoProvenance), p) =
             IF n = 0 THEN AuditWith(v, k, NoProvenance)
             ELSE AuditWith(p[n], p[n], NoProvenance)
  <1> DEFINE a == AuditWith(v, k, NoProvenance)
  <1>1. PICK h : Turns("schemas", h, a, p, n) /\ FoldLeft(MigrateMetadata, a, p) = h[n]
    BY MigrateGoes
  <1>2. ASSUME NEW i \in 1..n PROVE h[i] = MigrateMetadata(h[i - 1], p[i])
    BY <1>1 DEF Turns, Turn
  <1>3. h[0] = a
    BY <1>1 DEF Turns
  <1> DEFINE T == {i \in 1..n : h[i] # AuditWith(p[i], p[i], NoProvenance)}
  <1>4. T = {}
    <2> SUFFICES ASSUME T # {} PROVE FALSE
      OBVIOUS
    <2>1. PICK i \in T : \A j \in T : i <= j
      <3> T \subseteq Nat
        OBVIOUS
      <3> HIDE DEF T
      <3> QED
        BY LeastNatural
    <2>2. \E m, x : h[i - 1] = AuditWith(m, x, NoProvenance)
      <3>1. CASE i = 1
        BY <1>3, <3>1
      <3>2. CASE i # 1
        <4>1. i - 1 \in 1..n /\ ~(i <= i - 1)
          BY <3>2
        <4>2. i - 1 \notin T
          BY <2>1, <4>1
        <4> QED
          BY <4>1, <4>2
      <3> QED
        BY <3>1, <3>2
    <2>3. h[i] = AuditWith(p[i], p[i], NoProvenance)
      BY <1>2, <2>2, MigrateStep
    <2> QED
      BY <2>3
  <1>5. CASE n = 0
    BY <1>1, <1>3, <1>5
  <1>6. CASE n # 0
    <2>1. n \in 1..n
      BY <1>6
    <2> QED
      BY <1>1, <1>4, <1>6, <2>1
  <1> QED
    BY <1>5, <1>6

LEMMA SubSeqIs ==
    ASSUME NEW S, NEW s \in Seq(S), NEW x \in Nat, NEW n \in Nat, x + n <= Len(s)
    PROVE  /\ SubSeq(s, x + 1, x + n) \in Seq(S)
           /\ Len(SubSeq(s, x + 1, x + n)) = n /\ DOMAIN SubSeq(s, x + 1, x + n) = 1..n
           /\ \A i \in 1..n : SubSeq(s, x + 1, x + n)[i] = s[x + i]
  <1> DEFINE p == SubSeq(s, x + 1, x + n)
  <1>1. p \in Seq(S)
    OBVIOUS
  <1>2. Len(p) = n /\ DOMAIN p = 1..n
    OBVIOUS
  <1>3. ASSUME NEW i \in 1..n PROVE p[i] = s[x + i]
    <2>1. p[i] = s[x + 1 + i - 1] /\ x + 1 + i - 1 = x + i
      OBVIOUS
    <2> QED
      BY <2>1
  <1> QED
    BY <1>1, <1>2, <1>3

\* The path up, one version a transform.
LEMMA PathIs ==
    ASSUME NEW v \in Schemas, NEW w \in Schemas, Position(w) >= Position(v)
    PROVE  LET path == UpgradePath(v, w)
               n == Position(w) - Position(v)
           IN  /\ n \in Nat /\ path \in Seq(Schemas) /\ Len(path) = n /\ DOMAIN path = 1..n
               /\ \A i \in 1..n : Position(path[i]) = Position(v) + i
  <1> DEFINE path == UpgradePath(v, w)
             n == Position(w) - Position(v)
  <1>1. Position(v) \in 1..5 /\ Position(w) \in 1..5 /\ n \in Nat
    BY PositionIs
  <1>2. path = SubSeq(SchemaOrder, Position(v) + 1, Position(w))
    BY DEF UpgradePath
  <1>3. /\ SchemaOrder \in Seq(Schemas) /\ Len(SchemaOrder) = 5
        /\ \A i \in 1..5 : Position(SchemaOrder[i]) = i
    BY PositionIs
  <1> HIDE DEF path
  <1>4. /\ path \in Seq(Schemas) /\ Len(path) = n /\ DOMAIN path = 1..n
        /\ \A i \in 1..n : path[i] = SchemaOrder[Position(v) + i]
    <2> DEFINE x == Position(v)
    <2>1. x \in Nat /\ n \in Nat /\ x + n = Position(w) /\ x + n <= Len(SchemaOrder)
      BY <1>1, <1>3
    <2>2. path = SubSeq(SchemaOrder, x + 1, x + n)
      BY <1>2, <2>1
    <2> HIDE DEF x, n
    <2> DEFINE p == SubSeq(SchemaOrder, x + 1, x + n)
    <2>3. /\ p \in Seq(Schemas) /\ Len(p) = n /\ DOMAIN p = 1..n
          /\ \A i \in 1..n : p[i] = SchemaOrder[x + i]
      <3>1. SchemaOrder \in Seq(Schemas) /\ x \in Nat /\ n \in Nat /\ x + n <= Len(SchemaOrder)
        BY <1>3, <2>1
      <3> QED
        BY <3>1, SubSeqIs
    <2> HIDE DEF p
    <2> QED
      BY <2>2, <2>3 DEF x, p
  <1>5. \A i \in 1..n : Position(v) + i \in 1..5
    BY <1>1
  <1> QED
    BY <1>1, <1>3, <1>4, <1>5 DEF path

LEMMA EntryOfSeq ==
    ASSUME NEW S, NEW s \in Seq(S), NEW i \in DOMAIN s
    PROVE  s[i] \in S
  OBVIOUS

LEMMA MigratedIs ==
    ASSUME NEW v \in Schemas, NEW w \in Schemas, Position(w) > Position(v), NEW k
    PROVE  \E prov : /\ MigrateAuditTree(AuditWith(v, k, NoProvenance), w) = AuditWith(w, w, prov)
                     /\ prov.target = w /\ prov.class = "lossless"
  <1> DEFINE path == UpgradePath(v, w)
             n == Position(w) - Position(v)
             a == AuditWith(v, k, NoProvenance)
             prov == [target |-> w, class |-> "lossless", path |-> path]
  <1>1. Position(v) \in 1..5 /\ Position(w) \in 1..5 /\ n \in Nat /\ n # 0
    BY PositionIs
  <1>2. /\ path \in Seq(Schemas) /\ DOMAIN path = 1..n
        /\ Position(path[n]) = Position(v) + n /\ path[n] \in Schemas
    <2>1. Position(w) >= Position(v)
      BY <1>1
    <2>2. /\ path \in Seq(Schemas) /\ DOMAIN path = 1..n
          /\ \A i \in 1..n : Position(path[i]) = Position(v) + i
      BY <2>1, PathIs
    <2>3. n \in 1..n
      BY <1>1
    <2> HIDE DEF path, n
    <2>4. path[n] \in Schemas
      <3>1. path \in Seq(Schemas) /\ n \in DOMAIN path
        BY <2>2, <2>3
      <3> QED
        BY <3>1, EntryOfSeq
    <2> QED
      BY <2>2, <2>3, <2>4
  <1>3. path[n] = w
    BY <1>1, <1>2, PositionIs
  <1>4. a.manifest = v
    BY DEF AuditWith, Files, FilesOf
  <1> HIDE DEF n
  <1>5. FoldLeft(MigrateMetadata, a, path) = AuditWith(w, w, NoProvenance)
    BY <1>1, <1>2, <1>3, TransformsGo
  <1>6. MigrateAuditTree(a, w) = PutProvenance(AuditWith(w, w, NoProvenance), prov)
    BY <1>4, <1>5 DEF MigrateAuditTree, PutProvenance
  <1>7. PutProvenance(AuditWith(w, w, NoProvenance), prov) = AuditWith(w, w, prov)
    <2> HIDE DEF prov
    <2> QED
      BY FilesPut DEF AuditWith
  <1>8. prov.target = w /\ prov.class = "lossless"
    OBVIOUS
  <1> QED
    BY <1>6, <1>7, <1>8

-----------------------------------------------------------------------------
(* Reading the files: what the verifier and the trajectory find in them.     *)

TotalRow(id, arm, result, v, s) ==
    [proposal |-> id, arm |-> arm, split |-> s, schema |-> v, pass |-> Totals(result)[s]]

LEMMA TotalRowIs ==
    ASSUME NEW id, NEW arm, NEW result, NEW v, NEW s
    PROVE  LET e == TotalRow(id, arm, result, v, s)
           IN  /\ e.proposal = id /\ e.arm = arm /\ e.split = s /\ e.schema = v
               /\ e.pass = Totals(result)[s]
  BY DEF TotalRow

\* The rows of the evaluations of a round, of the split s.
Measured(e, v, s) ==
    \/ e = TotalRow(BaselineId, "baseline", baseline, v, s)
    \/ \E i \in MeasuredIndices :
          \/ e = TotalRow(considered[i].proposal.id, "baseline", considered[i].base, v, s)
          \/ e = TotalRow(considered[i].proposal.id, "candidate", considered[i].eval, v, s)
    \/ /\ commit.via = "merge"
       /\ \/ e = TotalRow(MergeId, "baseline", commit.base, v, s)
          \/ e = TotalRow(MergeId, "candidate", commit.eval, v, s)

LEMMA EvaluationRowIs ==
    ASSUME NEW v, NEW e
    PROVE  e \in EvaluationRows(v) <=> \E s \in Splits : Measured(e, v, s)
  <1>1. \A id, arm, result :
          e \in ResultRows(id, arm, result, v) <=>
            \E s \in Splits : e = TotalRow(id, arm, result, v, s)
    BY DEF ResultRows, TotalRow
  <1>2. \A id, base, cand :
          e \in EvaluationRowsOf(id, base, cand, v) <=>
            \E s \in Splits : \/ e = TotalRow(id, "baseline", base, v, s)
                              \/ e = TotalRow(id, "candidate", cand, v, s)
    BY <1>1 DEF EvaluationRowsOf
  <1>3. e \in EvaluationRows(v) <=>
          \/ e \in ResultRows(BaselineId, "baseline", baseline, v)
          \/ \E i \in MeasuredIndices :
                e \in EvaluationRowsOf(considered[i].proposal.id, considered[i].base,
                                       considered[i].eval, v)
          \/ /\ commit.via = "merge"
             /\ e \in EvaluationRowsOf(MergeId, commit.base, commit.eval, v)
    BY DEF EvaluationRows
  <1> QED
    BY <1>1, <1>2, <1>3 DEF Measured

\* What holds once a round is recorded.
LEMMA RecordedIs ==
    ASSUME AuditInv, Recorded
    PROVE  /\ round \in Nat \ {0} /\ DOMAIN lineage = 1..round /\ DOMAIN artifacts = 1..round
           /\ Reported(considered, commit, baseline)
           /\ lineage[round].ids = commit.ids
           /\ \A i \in DOMAIN considered :
                 /\ considered[i].proposal.id \in Nat
                 /\ considered[i].status # "invalid" => considered[i].base = baseline
           /\ \A i, j \in DOMAIN considered :
                 considered[i].proposal.id = considered[j].proposal.id => i = j
  <1>1. pc = "start" /\ round > 0 /\ round \in Nat
    BY DEF Recorded, AuditInv, FilesInv
  <1>2. /\ IsSeq(lineage) /\ Len(lineage) = round
        /\ IsSeq(artifacts) /\ Len(artifacts) = round
    BY <1>1 DEF AuditInv, FilesInv, LedgerInv
  <1>3. Reported(considered, commit, baseline) /\ lineage[round].ids = commit.ids
    BY <1>1 DEF AuditInv, RowsInv
  <1>4. ASSUME NEW i \in DOMAIN considered
        PROVE  /\ considered[i].proposal.id \in Nat
               /\ considered[i].status # "invalid" => considered[i].base = baseline
    BY <1>3, ProposedIs DEF Reported, Row
  <1>5. \A i, j \in DOMAIN considered :
           considered[i].proposal.id = considered[j].proposal.id => i = j
    BY DEF AuditInv, CertInv, Distinct
  <1> QED
    BY <1>1, <1>2, <1>3, <1>4, <1>5, SeqDomain

LEMMA TotalIs ==
    ASSUME NEW m, NEW k, NEW p, NEW s \in Splits, NEW id, NEW arm, NEW total
    PROVE  total \in TotalsFor(AuditWith(m, k, p), <<id, arm>>, s) <=>
             \E e : /\ Measured(e, m, s)
                    /\ e.proposal = id /\ e.arm = arm /\ e.split = s /\ e.pass = total
  <1> DEFINE audit == AuditWith(m, k, p)
  <1>1. audit.evaluations = EvaluationRows(m)
    BY DEF AuditWith, Files, FilesOf
  <1> HIDE DEF audit
  <1>2. <<id, arm>>[1] = id /\ <<id, arm>>[2] = arm
    OBVIOUS
  <1>3. total \in TotalsFor(audit, <<id, arm>>, s) <=>
          \E e \in EvaluationRows(m) :
             e.proposal = id /\ e.arm = arm /\ e.split = s /\ e.pass = total
    BY <1>1, <1>2 DEF TotalsFor
  <1>4. ASSUME NEW e, NEW r \in Splits, Measured(e, m, r) PROVE e.split = r
    BY <1>4, TotalRowIs DEF Measured
  <1> QED
    BY <1>3, <1>4, EvaluationRowIs DEF audit

LEMMA MeasuredIds ==
    ASSUME AuditInv, Recorded
    PROVE  /\ MergeId # BaselineId
           /\ \A i \in MeasuredIndices : /\ i \in DOMAIN considered
                                         /\ considered[i].proposal.id # MergeId
                                         /\ considered[i].base = baseline
  <1>1. MergeId = -1 /\ BaselineId = 0 /\ -1 \notin Nat
    BY DEF MergeId, BaselineId
  <1> QED
    BY <1>1, RecordedIs DEF MeasuredIndices

(* Every arm of the evaluations has one total per split.                     *)
LEMMA BaselineTotals ==
    ASSUME AuditInv, Recorded, NEW m, NEW k, NEW p, NEW s \in Splits
    PROVE  TotalsFor(AuditWith(m, k, p), <<BaselineId, "baseline">>, s) =
             {Totals(baseline)[s]}
  <1>1. ASSUME NEW e, Measured(e, m, s), e.proposal = BaselineId, e.arm = "baseline"
        PROVE  e.pass = Totals(baseline)[s]
    BY <1>1, MeasuredIds, TotalRowIs DEF Measured
  <1>2. Measured(TotalRow(BaselineId, "baseline", baseline, m, s), m, s)
    BY DEF Measured
  <1>3. ASSUME NEW total
        PROVE  total \in TotalsFor(AuditWith(m, k, p), <<BaselineId, "baseline">>, s) <=>
                 total = Totals(baseline)[s]
    BY <1>1, <1>2, TotalIs, TotalRowIs
  <1> QED
    BY <1>3

LEMMA CandidateTotals ==
    ASSUME AuditInv, Recorded, NEW m, NEW k, NEW p, NEW s \in Splits,
           NEW i \in MeasuredIndices
    PROVE  TotalsFor(AuditWith(m, k, p), <<considered[i].proposal.id, "candidate">>, s) =
             {Totals(considered[i].eval)[s]}
  <1>1. ASSUME NEW e, Measured(e, m, s), e.proposal = considered[i].proposal.id,
               e.arm = "candidate"
        PROVE  e.pass = Totals(considered[i].eval)[s]
    <2>1. \A j \in MeasuredIndices :
             considered[j].proposal.id = considered[i].proposal.id => j = i
      BY MeasuredIds, RecordedIs
    <2> QED
      BY <1>1, <2>1, MeasuredIds, TotalRowIs DEF Measured
  <1>2. Measured(TotalRow(considered[i].proposal.id, "candidate", considered[i].eval, m, s), m, s)
    BY DEF Measured
  <1>3. ASSUME NEW total
        PROVE  total \in TotalsFor(AuditWith(m, k, p),
                                   <<considered[i].proposal.id, "candidate">>, s) <=>
                 total = Totals(considered[i].eval)[s]
    BY <1>1, <1>2, TotalIs, TotalRowIs
  <1> QED
    BY <1>3

LEMMA MergeTotals ==
    ASSUME AuditInv, Recorded, NEW m, NEW k, NEW p, NEW s \in Splits, commit.via = "merge"
    PROVE  TotalsFor(AuditWith(m, k, p), <<MergeId, "candidate">>, s) =
             {Totals(commit.eval)[s]}
  <1>1. ASSUME NEW e, Measured(e, m, s), e.proposal = MergeId, e.arm = "candidate"
        PROVE  e.pass = Totals(commit.eval)[s]
    BY <1>1, MeasuredIds, TotalRowIs DEF Measured
  <1>2. Measured(TotalRow(MergeId, "candidate", commit.eval, m, s), m, s)
    BY DEF Measured
  <1>3. ASSUME NEW total
        PROVE  total \in TotalsFor(AuditWith(m, k, p), <<MergeId, "candidate">>, s) <=>
                 total = Totals(commit.eval)[s]
    BY <1>1, <1>2, TotalIs, TotalRowIs
  <1> QED
    BY <1>3

(* The rows' status tells what was committed.                                *)
LEMMA StatusTells ==
    ASSUME NEW m, NEW k, NEW p, NEW statuses, NEW id
    PROVE  id \in IdsWithStatus(AuditWith(m, k, p), statuses) <=>
             \E i \in DOMAIN considered : /\ considered[i].proposal.id = id
                                          /\ considered[i].status \in statuses
  <1> DEFINE audit == AuditWith(m, k, p)
  <1>1. audit.proposals = ProposalRows(m)
    BY DEF AuditWith, Files, FilesOf
  <1>2. /\ DOMAIN ProposalRows(m) = DOMAIN considered
        /\ \A i \in DOMAIN considered :
              /\ ProposalRows(m)[i].id = considered[i].proposal.id
              /\ ProposalRows(m)[i].status = considered[i].status
    BY DEF ProposalRows, ProposalRow
  <1> HIDE DEF audit
  <1> QED
    BY <1>1, <1>2 DEF IdsWithStatus, audit

LEMMA MinOf ==
    ASSUME NEW T, T \subseteq Nat, T # {}
    PROVE  Min(T) \in T /\ \A y \in T : Min(T) <= y
  <1>1. \E x \in T : \A y \in T : x <= y
    BY LeastNatural
  <1> QED
    BY <1>1 DEF Min

(* The evaluation the readers take for the one after the round is that of    *)
(* what was committed, which passed the gate, or the baseline.               *)
LEMMA CommittedTotals ==
    ASSUME AuditInv, Recorded, NEW m, NEW k, NEW p
    PROVE  LET audit == AuditWith(m, k, p)
               committed == CommittedSelector(audit)
           IN  \/ commit.ids = <<>> /\ committed = <<BaselineId, "baseline">>
               \/ /\ commit.ids # <<>>
                  /\ \E result :
                        /\ Gate(baseline, result)
                        /\ \/ \E i \in MeasuredIndices : result = considered[i].eval
                           \/ commit.via = "merge" /\ result = commit.eval
                        /\ \A s \in Splits :
                              TotalsFor(audit, committed, s) = {Totals(result)[s]}
  <1> DEFINE audit == AuditWith(m, k, p)
             committed == CommittedSelector(audit)
             accepted == IdsWithStatus(audit, {"accepted"})
             merged == IdsWithStatus(audit, {"merged"})
  <1>1. /\ \A id : id \in accepted <=>
              \E i \in DOMAIN considered : /\ considered[i].proposal.id = id
                                           /\ considered[i].status \in {"accepted"}
        /\ \A id : id \in merged <=>
              \E i \in DOMAIN considered : /\ considered[i].proposal.id = id
                                           /\ considered[i].status \in {"merged"}
    BY StatusTells
  <1>2. committed = IF merged # {} THEN <<MergeId, "candidate">>
                    ELSE IF accepted # {} THEN <<Min(accepted), "candidate">>
                    ELSE <<BaselineId, "baseline">>
    BY DEF CommittedSelector
  <1>3. ASSUME NEW s \in Splits
        PROVE  /\ \A i \in MeasuredIndices :
                     TotalsFor(audit, <<considered[i].proposal.id, "candidate">>, s) =
                       {Totals(considered[i].eval)[s]}
               /\ commit.via = "merge" =>
                     TotalsFor(audit, <<MergeId, "candidate">>, s) = {Totals(commit.eval)[s]}
    <2>1. ASSUME NEW i \in MeasuredIndices
          PROVE  TotalsFor(audit, <<considered[i].proposal.id, "candidate">>, s) =
                   {Totals(considered[i].eval)[s]}
      BY CandidateTotals
    <2>2. commit.via = "merge" =>
             TotalsFor(audit, <<MergeId, "candidate">>, s) = {Totals(commit.eval)[s]}
      BY MergeTotals
    <2> QED
      BY <2>1, <2>2
  <1> HIDE DEF audit, committed, accepted, merged
  <1>4. /\ Reported(considered, commit, baseline)
        /\ \A i \in DOMAIN considered : considered[i].proposal.id \in Nat
    BY RecordedIs
  <1>5. CASE merged # {}
    <2>1. PICK i \in DOMAIN considered : considered[i].status = "merged"
      BY <1>1, <1>5
    <2>2. commit.via = "merge" /\ commit.ids # <<>> /\ Gate(baseline, commit.eval)
      BY <1>4, <2>1 DEF Reported, Backed
    <2> QED
      BY <1>2, <1>3, <1>5, <2>2 DEF committed, audit
  <1>6. CASE merged = {} /\ accepted # {}
    <2>1. accepted \subseteq Nat
      BY <1>1, <1>4
    <2>2. Min(accepted) \in accepted
      BY <1>6, <2>1, MinOf
    <2>3. PICK i \in DOMAIN considered : /\ considered[i].status = "accepted"
                                         /\ considered[i].proposal.id = Min(accepted)
      BY <1>1, <2>2
    <2>4. /\ i \in MeasuredIndices
          /\ considered[i].proposal.id \in ToSet(commit.ids)
          /\ Gate(baseline, considered[i].eval)
      BY <1>4, <2>3 DEF Reported, MeasuredIndices
    <2>5. commit.ids # <<>>
      BY <2>4, NoRows DEF ToSet
    <2>6. \A s \in Splits : TotalsFor(audit, committed, s) = {Totals(considered[i].eval)[s]}
      BY <1>2, <1>3, <1>6, <2>3, <2>4
    <2>7. \E result :
            /\ Gate(baseline, result)
            /\ \/ \E j \in MeasuredIndices : result = considered[j].eval
               \/ commit.via = "merge" /\ result = commit.eval
            /\ \A s \in Splits : TotalsFor(audit, committed, s) = {Totals(result)[s]}
      BY <2>4, <2>6
    <2> QED
      BY <2>5, <2>7 DEF committed, audit
  <1>7. CASE merged = {} /\ accepted = {}
    <2>1. ToSet(commit.ids) = {}
      BY <1>1, <1>4, <1>7 DEF Reported
    <2>2. IsSeq(commit.ids)
      BY <1>4 DEF Reported, Backed
    <2>3. commit.ids = <<>>
      <3>1. PICK S : commit.ids \in Seq(S)
        BY <2>2 DEF IsSeq
      <3>2. Len(commit.ids) \in Nat /\ DOMAIN commit.ids = 1..Len(commit.ids)
        BY <3>1
      <3>3. Len(commit.ids) = 0
        <4>1. \A i \in 1..Len(commit.ids) : commit.ids[i] \in ToSet(commit.ids)
          BY <3>2 DEF ToSet
        <4> QED
          BY <2>1, <3>2, <4>1
      <3> QED
        BY <3>1, <3>3
    <2> QED
      BY <1>2, <1>7, <2>3 DEF committed, audit
  <1> QED
    BY <1>5, <1>6, <1>7

(* The accepted and merged rows are those of the last lineage row, so that a *)
(* held-out name is all the verifier may object to.                          *)
LEMMA RowsHold ==
    ASSUME AuditInv, Recorded, NEW m, NEW k, NEW p
    PROVE  ProposalsHold(AuditWith(m, k, p)) <=> ~NamesHeldOut
  <1> DEFINE audit == AuditWith(m, k, p)
  <1>1. /\ Reported(considered, commit, baseline)
        /\ \A i, j \in DOMAIN considered :
              considered[i].proposal.id = considered[j].proposal.id => i = j
        /\ round \in Nat \ {0} /\ DOMAIN lineage = 1..round /\ lineage[round].ids = commit.ids
    BY RecordedIs
  <1>2. /\ DOMAIN audit.proposals = DOMAIN considered
        /\ \A i \in DOMAIN considered : audit.proposals[i].id = considered[i].proposal.id
        /\ \A id : id \in IdsWithStatus(audit, {"accepted", "merged"}) <=>
              \E i \in DOMAIN considered : /\ considered[i].proposal.id = id
                                           /\ considered[i].status \in {"accepted", "merged"}
    <2>1. audit.proposals = ProposalRows(m)
      BY DEF AuditWith, Files, FilesOf
    <2>2. /\ DOMAIN ProposalRows(m) = DOMAIN considered
          /\ \A i \in DOMAIN considered : ProposalRows(m)[i].id = considered[i].proposal.id
      BY DEF ProposalRows, ProposalRow
    <2> DEFINE statuses == {"accepted", "merged"}
    <2> HIDE DEF statuses
    <2>3. \A id : id \in IdsWithStatus(AuditWith(m, k, p), statuses) <=>
             \E i \in DOMAIN considered : /\ considered[i].proposal.id = id
                                          /\ considered[i].status \in statuses
      BY StatusTells
    <2> QED
      BY <2>1, <2>2, <2>3 DEF statuses
  <1>3. ASSUME NEW i \in DOMAIN considered
        PROVE  /\ audit.proposals[i].schema = audit.manifest
               /\ audit.proposals[i].leaks = considered[i].proposal.leaks
    BY DEF AuditWith, Files, FilesOf, ProposalRows, ProposalRow
  <1>4. Last(audit.lineage).ids = commit.ids
    <2>1. audit.lineage = LineageRows(k)
      BY DEF AuditWith, Files, FilesOf
    <2>2. /\ LineageRows(k) = [i \in 1..round |-> LineageRows(k)[i]]
          /\ LineageRows(k)[round].ids = lineage[round].ids
      BY <1>1 DEF LineageRows
    <2>3. Len(LineageRows(k)) = round
      BY <1>1, <2>2
    <2> QED
      BY <1>1, <2>1, <2>2, <2>3 DEF Last
  <1> HIDE DEF audit
  <1>5. IdsWithStatus(audit, {"accepted", "merged"}) = ToSet(commit.ids)
    <2>1. ASSUME NEW id \in IdsWithStatus(audit, {"accepted", "merged"})
          PROVE  id \in ToSet(commit.ids)
      BY <1>1, <1>2 DEF Reported
    <2>2. ASSUME NEW id \in ToSet(commit.ids)
          PROVE  id \in IdsWithStatus(audit, {"accepted", "merged"})
      BY <1>1, <1>2 DEF Reported
    <2> QED
      BY <2>1, <2>2
  <1> QED
    BY <1>1, <1>2, <1>3, <1>4, <1>5 DEF ProposalsHold, NamesHeldOut, audit

LEMMA TotalsHold ==
    ASSUME AuditInv, Recorded, NEW m, NEW k, NEW p
    PROVE  EvaluationsHold(AuditWith(m, k, p))
  <1> DEFINE audit == AuditWith(m, k, p)
             committed == CommittedSelector(audit)
  <1>1. ASSUME NEW row \in audit.evaluations PROVE row.schema = audit.manifest
    <2>1. audit.evaluations = EvaluationRows(m) /\ audit.manifest = m
      BY DEF AuditWith, Files, FilesOf
    <2>2. PICK s \in Splits : Measured(row, m, s)
      BY <1>1, <2>1, EvaluationRowIs
    <2> QED
      BY <2>1, <2>2, TotalRowIs DEF Measured
  <1>2. ASSUME NEW s \in Splits
        PROVE  /\ TotalsFor(audit, <<BaselineId, "baseline">>, s) # {}
               /\ TotalsFor(audit, committed, s) # {}
    <2>1. TotalsFor(audit, <<BaselineId, "baseline">>, s) # {}
      BY BaselineTotals
    <2>2. TotalsFor(audit, committed, s) # {}
      <3>1. CASE commit.ids = <<>>
        BY <2>1, <3>1, CommittedTotals
      <3>2. CASE commit.ids # <<>>
        <4>1. PICK result : TotalsFor(audit, committed, s) = {Totals(result)[s]}
          BY <3>2, CommittedTotals
        <4> QED
          BY <4>1
      <3> QED
        BY <3>1, <3>2
    <2> QED
      BY <2>1, <2>2
  <1> QED
    BY <1>1, <1>2 DEF EvaluationsHold

LEMMA VerifyIs ==
    ASSUME AuditInv, Recorded, NEW m, NEW k, NEW p,
           Position(k) >= Position(m),
           p = NoProvenance \/ (p.target = m /\ p.class = "lossless")
    PROVE  VerifyAuditRun(AuditWith(m, k, p)) <=> ~NamesHeldOut
  <1> DEFINE audit == AuditWith(m, k, p)
  <1>0. audit.loads /\ PatternsHold(audit)
    BY DEF AuditWith, Files, FilesOf, PatternsHold, ClusterFailures
  <1>1. /\ audit.manifest = m /\ audit.provenance = p /\ audit.snapshots = artifacts
        /\ audit.lineage = LineageRows(k)
    BY DEF AuditWith, Files, FilesOf
  <1> HIDE DEF audit
  <1>2. DOMAIN lineage = 1..round /\ DOMAIN artifacts = 1..round
    BY RecordedIs
  <1>3. /\ DOMAIN audit.lineage = 1..round
        /\ \A i \in 1..round : /\ audit.lineage[i].schema = k
                               /\ audit.lineage[i].before = lineage[i].before
                               /\ audit.lineage[i].after = lineage[i].after
    BY <1>1, <1>2 DEF LineageRows
  <1>4. RoundsMatchLineage(audit)
    BY <1>1, <1>2, <1>3 DEF RoundsMatchLineage
  <1>5. MigrationProvenanceHolds(audit)
    BY <1>1 DEF MigrationProvenanceHolds
  <1>6. ASSUME NEW i \in 1..round
        PROVE  LineageSchemaHolds(audit, i) /\ SnapshotsHold(audit, i)
    <2>1. LineageSchemaHolds(audit, i)
      BY <1>1, <1>3 DEF LineageSchemaHolds
    <2>2. /\ artifacts[i].before = lineage[i].before
          /\ artifacts[i].after = <<lineage[i].after>>
          /\ i > 1 => lineage[i].before = lineage[i - 1].after
      BY DEF AuditInv, FilesInv
    <2>3. i > 1 => artifacts[i - 1].after = <<lineage[i - 1].after>>
      <3>1. i > 1 => i - 1 \in 1..round
        BY RecordedIs
      <3> QED
        BY <3>1 DEF AuditInv, FilesInv
    <2> QED
      BY <1>1, <1>3, <2>1, <2>2, <2>3 DEF SnapshotsHold
  <1>7. (ProposalsHold(audit) <=> ~NamesHeldOut) /\ EvaluationsHold(audit)
    BY RowsHold, TotalsHold DEF audit
  <1> QED
    BY <1>0, <1>3, <1>4, <1>5, <1>6, <1>7 DEF VerifyAuditRun, audit

\* A transform that died before the last of its files has written the manifest,
\* and the evaluations are of the schema before.
LEMMA HalfTransformRefused ==
    ASSUME NEW m, NEW k, NEW w, w # m, NEW n \in 1..3
    PROVE  ~VerifyAuditRun(MigrateFiles(AuditWith(m, k, NoProvenance), w, n))
  <1> DEFINE a == AuditWith(m, k, NoProvenance)
             audit == MigrateFiles(a, w, n)
             row == TotalRow(BaselineId, "baseline", baseline, m, "held_in")
  <1>1. a.evaluations = EvaluationRows(m) /\ {"manifest", "evaluations"} \subseteq DOMAIN a
    BY DEF AuditWith, Files, FilesOf
  <1> HIDE DEF a
  <1>2. audit.manifest = w /\ audit.evaluations = EvaluationRows(m)
    BY <1>1 DEF MigrateFiles
  <1>3. row \in EvaluationRows(m)
    BY EvaluationRowIs DEF Measured, Splits
  <1>4. row.schema = m
    BY TotalRowIs
  <1> HIDE DEF audit
  <1> QED
    BY <1>2, <1>3, <1>4 DEF VerifyAuditRun, EvaluationsHold, audit, a

LEMMA LineageIsLater ==
    ASSUME NEW v \in Schemas
    PROVE  LineageSchema(v) \in Schemas /\ Position(LineageSchema(v)) >= Position(v)
  <1>1. /\ SchemaOrder[1] = "1.0" /\ SchemaOrder[2] = "1.1" /\ SchemaOrder[3] = "1.2"
        /\ SchemaOrder[4] = "1.3" /\ SchemaOrder[5] = "1.4"
    BY DEF SchemaOrder
  <1>2. /\ Position("1.0") = 1 /\ Position("1.1") = 2 /\ Position("1.2") = 3
        /\ Position("1.3") = 4 /\ Position(v) \in 1..5
    BY <1>1, PositionIs
  <1>3. "1.3" \in Schemas
    BY <1>1, PositionIs
  <1>4. CASE v \in {"1.0", "1.1", "1.2"}
    BY <1>2, <1>3, <1>4 DEF LineageSchema
  <1>5. CASE v \notin {"1.0", "1.1", "1.2"}
    BY <1>2, <1>5 DEF LineageSchema
  <1> QED
    BY <1>4, <1>5

\* What a copy or a transform that died leaves.
LEMMA DeadMigrationsAreTold ==
    ASSUME AuditInv, Recorded, NEW v \in Schemas
    PROVE  TellsDeadMigrations(AuditRun(v))
  <1> DEFINE audit == AuditRun(v)
             path == UpgradePath(v, "1.4")
             N == Position("1.4") - Position(v)
             mk(j) == IF j = 0 THEN v ELSE path[j]
             lk(j) == IF j = 0 THEN LineageSchema(v) ELSE path[j]
  <1>1. audit = AuditWith(v, LineageSchema(v), NoProvenance)
    BY AuditRunIs
  <1>2. audit.manifest = v /\ {"loads", "patternsFile"} \subseteq DOMAIN audit
    BY DEF AuditRun
  <1>3. VerifyAuditRun(audit) <=> ~NamesHeldOut
    BY <1>1, LineageIsLater, VerifyIs
  <1>4. "1.4" \in Schemas /\ Position("1.4") = 5 /\ Position(v) \in 1..5
    <2>1. SchemaOrder[5] = "1.4"
      BY DEF SchemaOrder
    <2> QED
      BY <2>1, PositionIs
  <1>5. /\ N \in Nat /\ path \in Seq(Schemas) /\ Len(path) = N
        /\ \A i \in 1..N : path[i] \in Schemas /\ Position(path[i]) = Position(v) + i
    BY <1>4, PathIs
  <1> HIDE DEF audit, path, N
  <1>6. ASSUME NEW loads \in BOOLEAN, NEW patternsFile \in {"missing", "torn", "whole"},
               VerifyAuditRun(Copied(audit, loads, patternsFile))
        PROVE  loads /\ patternsFile # "torn"
    <2>1. /\ Copied(audit, loads, patternsFile).loads = loads
          /\ Copied(audit, loads, patternsFile).patternsFile = patternsFile
      BY <1>2 DEF Copied
    <2> QED
      BY <1>6, <2>1 DEF VerifyAuditRun, PatternsHold
  <1>7. ASSUME NEW k \in 0..N - 1, NEW n \in 1..4
        PROVE  VerifyAuditRun(DeadMigration(audit, path, k, n)) <=>
                 VerifyAuditRun(audit) /\ n = 4
    <2> DEFINE w == path[k + 1]
    <2>1. k \in Nat /\ k + 1 \in 1..N /\ DOMAIN SubSeq(path, 1, k) = 1..k
          /\ (k # 0 => SubSeq(path, 1, k)[k] = path[k])
      BY <1>5
    <2>2. FoldLeft(MigrateMetadata, audit, SubSeq(path, 1, k)) =
            AuditWith(mk(k), lk(k), NoProvenance)
      <3> DEFINE p == SubSeq(path, 1, k)
      <3>1. DOMAIN p = 1..k /\ k \in Nat /\ (k # 0 => p[k] = path[k])
        BY <2>1
      <3> HIDE DEF p
      <3>2. FoldLeft(MigrateMetadata, audit, p) =
              IF k = 0 THEN AuditWith(v, LineageSchema(v), NoProvenance)
              ELSE AuditWith(p[k], p[k], NoProvenance)
        BY <1>1, <3>1, TransformsGo
      <3>3. CASE k = 0
        BY <3>2, <3>3 DEF p
      <3>4. CASE k # 0
        BY <3>1, <3>2, <3>4 DEF p
      <3> QED
        BY <3>3, <3>4
    <2>3. DeadMigration(audit, path, k, n) =
            MigrateFiles(AuditWith(mk(k), lk(k), NoProvenance), w, n)
      BY <2>2 DEF DeadMigration
    <2>4. Position(w) = Position(v) + k + 1 /\ w \in Schemas
      BY <1>4, <1>5, <2>1
    <2>5. mk(k) \in Schemas /\ Position(mk(k)) = Position(v) + k
      <3>1. CASE k = 0
        BY <1>4, <3>1
      <3>2. CASE k # 0
        <4>1. k \in 1..N
          BY <1>5, <2>1, <3>2
        <4> QED
          BY <1>5, <3>2, <4>1
      <3> QED
        BY <3>1, <3>2
    <2>6. w # mk(k)
      BY <1>4, <2>1, <2>4, <2>5
    <2> HIDE DEF w, mk, lk
    <2>7. CASE n = 4
      <3>1. DeadMigration(audit, path, k, n) = AuditWith(w, w, NoProvenance)
        BY <2>3, <2>7, MigrateStep DEF MigrateMetadata
      <3>2. Position(w) >= Position(w)
        BY <2>4, PositionIs
      <3> QED
        BY <1>3, <2>7, <3>1, <3>2, VerifyIs
    <2>8. CASE n # 4
      <3>1. n \in 1..3
        BY <2>8
      <3> QED
        BY <2>3, <2>6, <2>8, <3>1, HalfTransformRefused
    <2> QED
      BY <2>7, <2>8
  <1>8. UpgradePath(audit.manifest, "1.4") = path
    BY <1>2 DEF path
  <1> QED
    BY <1>5, <1>6, <1>7, <1>8 DEF TellsDeadMigrations, audit

LEMMA AuditsVerify == AuditInv => AuditVerifies
  <1> SUFFICES ASSUME AuditInv, Recorded, NEW v \in ConfigSchemas
               PROVE  /\ IF NamesHeldOut THEN ~VerifyAuditRun(AuditRun(v))
                         ELSE Verified(AuditRun(v))
                      /\ TellsDeadMigrations(AuditRun(v))
    BY DEF AuditVerifies
  <1>1. v \in Schemas
    BY ConfigSchemasSupported
  <1>2. AuditRun(v) = AuditWith(v, LineageSchema(v), NoProvenance)
    BY AuditRunIs
  <1>3. VerifyAuditRun(AuditRun(v)) <=> ~NamesHeldOut
    BY <1>1, <1>2, LineageIsLater, VerifyIs
  <1>4. ASSUME ~NamesHeldOut, NEW w \in Schemas, MigrationAllowed(AuditRun(v), w)
        PROVE  VerifyAuditRun(MigrateAuditTree(AuditRun(v), w))
    <2>1. AuditRun(v).manifest = v
      BY <1>2 DEF AuditWith, Files, FilesOf
    <2>2. Position(w) > Position(v)
      BY <1>4, <2>1 DEF MigrationAllowed
    <2>3. PICK prov : /\ MigrateAuditTree(AuditRun(v), w) = AuditWith(w, w, prov)
                      /\ prov.target = w /\ prov.class = "lossless"
      BY <1>1, <1>2, <2>2, MigratedIs
    <2>4. Position(w) >= Position(w)
      BY PositionIs
    <2> QED
      BY <1>4, <2>3, <2>4, VerifyIs
  <1>5. TellsDeadMigrations(AuditRun(v))
    BY <1>1, DeadMigrationsAreTold
  <1> QED
    BY <1>3, <1>4, <1>5 DEF Verified

(* AuditVerifies of AuditVerify: what a run writes for its own profile, its  *)
(* verifier accepts after every round, in every schema and after every       *)
(* migration, exactly if no model named a held-out pattern; and it tells a   *)
(* migration that died inside a transform.                                   *)
THEOREM AuditIsVerified ==
    ASSUME OwnTargetsOnly, UniqueIds
    PROVE  Spec => []AuditVerifies
  <1> QED
    BY AuditInvariant, AuditsVerify, PTL

-----------------------------------------------------------------------------
(* The scores of evaluations.                                                *)

SomeOf(s) == CHOOSE x \in s : TRUE

\* The function by which the sum over a set is defined, on the sets in D.
Summing(f, D, result) ==
    f = [s \in D |-> IF s = {} THEN 0 ELSE result[SomeOf(s)] + f[s \ {SomeOf(s)}]]

SmallSubsets(S, n) == {s \in SUBSET S : Cardinality(s) <= n}

LEMMA SmallerSubset ==
    ASSUME NEW S, IsFiniteSet(S), NEW s \in SUBSET S, s # {}
    PROVE  /\ SomeOf(s) \in s
           /\ s \ {SomeOf(s)} \in SUBSET S
           /\ Cardinality(s) \in Nat \ {0}
           /\ Cardinality(s \ {SomeOf(s)}) = Cardinality(s) - 1
  <1>1. SomeOf(s) \in s
    BY DEF SomeOf
  <1>2. IsFiniteSet(s)
    BY FS_Subset
  <1>3. Cardinality(s) \in Nat /\ Cardinality(s) # 0
    BY <1>2, FS_CardinalityType, FS_EmptySet
  <1>4. Cardinality(s \ {SomeOf(s)}) = Cardinality(s) - 1
    BY <1>1, <1>2, FS_RemoveElement
  <1> QED
    BY <1>1, <1>3, <1>4

LEMMA SummingNext ==
    ASSUME NEW S, IsFiniteSet(S), NEW result, NEW n \in Nat,
           NEW f, Summing(f, SmallSubsets(S, n), result)
    PROVE  \E g : Summing(g, SmallSubsets(S, n + 1), result)
  <1> DEFINE D == SmallSubsets(S, n + 1)
             Rest(s) == s \ {SomeOf(s)}
             g == [s \in D |-> IF s = {} THEN 0 ELSE result[SomeOf(s)] + f[Rest(s)]]
  <1>1. ASSUME NEW s \in D, s # {} PROVE Rest(s) \in SmallSubsets(S, n) /\ Rest(s) \in D
    <2>1. s \in SUBSET S /\ Cardinality(s) <= n + 1
      BY DEF SmallSubsets
    <2>2. /\ Rest(s) \in SUBSET S /\ Cardinality(s) \in Nat \ {0}
          /\ Cardinality(Rest(s)) = Cardinality(s) - 1
      BY <1>1, <2>1, SmallerSubset
    <2> HIDE DEF Rest
    <2>3. Cardinality(Rest(s)) <= n /\ Cardinality(Rest(s)) <= n + 1
      BY <2>1, <2>2
    <2> QED
      BY <2>2, <2>3 DEF SmallSubsets
  <1>2. ASSUME NEW u \in SmallSubsets(S, n)
        PROVE  f[u] = IF u = {} THEN 0 ELSE result[SomeOf(u)] + f[Rest(u)]
    BY DEF Summing
  <1> HIDE DEF D, Rest
  <1>3. ASSUME NEW s \in D, s # {} PROVE g[Rest(s)] = f[Rest(s)]
    BY <1>1, <1>2, <1>3
  <1>4. g = [s \in D |-> IF s = {} THEN 0 ELSE result[SomeOf(s)] + g[Rest(s)]]
    <2> HIDE DEF g
    <2>1. g = [s \in D |-> IF s = {} THEN 0 ELSE result[SomeOf(s)] + f[Rest(s)]]
      BY DEF g
    <2> QED
      BY <1>3, <2>1
  <1> HIDE DEF g
  <1> QED
    BY <1>4 DEF Summing, D, Rest

LEMMA SummingExists ==
    ASSUME NEW S, IsFiniteSet(S), NEW result
    PROVE  \E f : Summing(f, SUBSET S, result)
  <1> DEFINE T == {k \in Nat : ~\E f : Summing(f, SmallSubsets(S, k), result)}
  <1>1. T = {}
    <2> SUFFICES ASSUME T # {} PROVE FALSE
      OBVIOUS
    <2>1. PICK k \in T : \A j \in T : k <= j
      <3> T \subseteq Nat
        OBVIOUS
      <3> HIDE DEF T
      <3> QED
        BY LeastNatural
    <2>2. CASE k = 0
      <3> DEFINE f == [s \in SmallSubsets(S, 0) |-> 0]
      <3>1. ASSUME NEW s \in SmallSubsets(S, 0) PROVE s = {}
        <4>1. s \in SUBSET S /\ Cardinality(s) <= 0
          BY DEF SmallSubsets
        <4>2. s # {} => Cardinality(s) \in Nat \ {0}
          BY <4>1, SmallerSubset
        <4> QED
          BY <4>1, <4>2
      <3>2. Summing(f, SmallSubsets(S, 0), result)
        BY <3>1 DEF Summing
      <3> QED
        BY <2>2, <3>2
    <2>3. CASE k # 0
      <3>1. k - 1 \in Nat /\ k - 1 \notin T /\ (k - 1) + 1 = k
        BY <2>1, <2>3
      <3>2. PICK f : Summing(f, SmallSubsets(S, k - 1), result)
        BY <3>1
      <3> QED
        BY <3>1, <3>2, <2>1, SummingNext
    <2> QED
      BY <2>2, <2>3
  <1>2. SmallSubsets(S, Cardinality(S)) = SUBSET S /\ Cardinality(S) \in Nat
    <2>1. \A s \in SUBSET S : Cardinality(s) <= Cardinality(S)
      BY FS_Subset
    <2> QED
      BY <2>1, FS_CardinalityType DEF SmallSubsets
  <1>3. \A k \in Nat : \E f : Summing(f, SmallSubsets(S, k), result)
    BY <1>1
  <1> HIDE DEF T
  <1> QED
    BY <1>2, <1>3

(* The score of an evaluation is a number.                                   *)
LEMMA PassedIsNat ==
    ASSUME NEW result \in Results, NEW split, split \subseteq Tasks
    PROVE  Passed(result, split) \in Nat
  <1> DEFINE f == CHOOSE f : Summing(f, SUBSET split, result)
  <1>1. IsFiniteSet(split)
    BY SplitPartition, FS_Subset DEF Tasks
  <1>2. Summing(f, SUBSET split, result)
    BY <1>1, SummingExists
  <1>3. Passed(result, split) = f[split]
    BY DEF Passed, MapThenSumSet, MapThenFoldSet, Summing, SomeOf
  <1> HIDE DEF f
  <1>4. \A t \in split : result[t] \in Nat
    BY EngineBounds DEF Results
  <1> DEFINE T == {k \in Nat : \E s \in SUBSET split : Cardinality(s) = k /\ f[s] \notin Nat}
  <1>5. T = {}
    <2> SUFFICES ASSUME T # {} PROVE FALSE
      OBVIOUS
    <2>1. PICK k \in T : \A j \in T : k <= j
      <3> T \subseteq Nat
        OBVIOUS
      <3> HIDE DEF T
      <3> QED
        BY LeastNatural
    <2>2. PICK s \in SUBSET split : Cardinality(s) = k /\ f[s] \notin Nat
      BY <2>1
    <2>3. s # {}
      BY <1>2, <2>2 DEF Summing
    <2> DEFINE u == s \ {SomeOf(s)}
    <2>4. /\ SomeOf(s) \in split /\ u \in SUBSET split
          /\ k \in Nat \ {0} /\ Cardinality(u) = k - 1
      BY <1>1, <2>2, <2>3, SmallerSubset
    <2>5. f[s] = result[SomeOf(s)] + f[u]
      BY <1>2, <2>3 DEF Summing
    <2> HIDE DEF u
    <2>6. f[u] \in Nat
      <3>1. k - 1 \in Nat /\ ~(k <= k - 1)
        BY <2>4
      <3> QED
        BY <2>1, <2>4, <3>1
    <2> QED
      BY <1>4, <2>2, <2>4, <2>5, <2>6
  <1>6. Cardinality(split) \in Nat /\ split \in SUBSET split
    BY <1>1, FS_CardinalityType
  <1> QED
    BY <1>3, <1>5, <1>6

\* The evaluations of a round are scores of the tasks.
ScoresInv ==
    /\ baseline \in Results
    /\ \A i \in DOMAIN considered :
          considered[i].status # "invalid" => considered[i].eval \in Results
    /\ commit.via = "merge" => commit.eval \in Results

LEMMA NoResultIsOne == NoResult \in Results
  BY EngineBounds DEF NoResult, Results

LEMMA NextScores ==
    ASSUME EngineInv, ScoresInv, [Next]_vars
    PROVE  ScoresInv'
  <1>1. CASE UNCHANGED vars
    BY <1>1 DEF ScoresInv, vars
  <1>2. CASE BeginRound
    <2>1. /\ baseline' = NoResult /\ considered' = <<>>
          /\ commit' = NoCommit(harness', layers, NoResult)
      BY <1>2 DEF BeginRound
    <2>2. commit'.via = "none"
      BY <2>1 DEF NoCommit
    <2> QED
      BY <2>1, <2>2, NoRows, NoResultIsOne DEF ScoresInv
  <1>3. CASE RunBaseline
    <2>1. pc = "baseline" /\ baseline' \in Results /\ UNCHANGED <<considered, commit>>
      BY <1>3 DEF RunBaseline
    <2> QED
      BY <2>1 DEF ScoresInv
  <1>4. CASE NoFindings \/ IntegrateFindings \/ Propose \/ Finish \/ Abort
    BY <1>4 DEF ScoresInv, NoFindings, IntegrateFindings, Propose, Finish, Abort
  <1>5. CASE ConsiderInvalid \/ ConsiderUnmeasured \/ ConsiderMeasured
    <2>1. PICK r : /\ considered' = Append(considered, r)
                   /\ r.status # "invalid" => r.eval \in Results
      <3>1. CASE ConsiderInvalid \/ ConsiderUnmeasured
        BY <1>5, <3>1 DEF ConsiderInvalid, ConsiderUnmeasured, InvalidRow
      <3>2. CASE ConsiderMeasured
        <4>1. PICK cand \in Results : \E st, base, cert :
                considered' = Append(considered, Considered(Head(queue), st, base, cand, cert))
          BY <3>2 DEF ConsiderMeasured
        <4>2. PICK st, base, cert :
                considered' = Append(considered, Considered(Head(queue), st, base, cand, cert))
          BY <4>1
        <4> QED
          BY <4>2 DEF Considered
      <3> QED
        BY <1>5, <3>1, <3>2
    <2>2. UNCHANGED <<baseline, commit>>
      BY <1>5 DEF ConsiderInvalid, ConsiderUnmeasured, ConsiderMeasured
    <2>3. IsSeq(considered)
      BY DEF EngineInv, EngineType
    <2>4. \A i \in DOMAIN considered' : \/ i \in DOMAIN considered /\ considered'[i] = considered[i]
                                        \/ considered'[i] = r
      <3>1. /\ DOMAIN considered' = 1..(Len(considered) + 1)
            /\ DOMAIN considered = 1..Len(considered) /\ Len(considered) \in Nat
            /\ considered'[Len(considered) + 1] = r
            /\ \A i \in 1..Len(considered) : considered'[i] = considered[i]
        BY <2>1, <2>3, AppendSeq, SeqDomain
      <3> QED
        BY <3>1
    <2> QED
      BY <2>1, <2>2, <2>4 DEF ScoresInv
  <1>6. CASE NothingAccepted
    <2>1. commit' = NoCommit(harness, layers, baseline) /\ UNCHANGED <<baseline, considered>>
      BY <1>6 DEF NothingAccepted
    <2>2. commit'.via = "none"
      BY <2>1 DEF NoCommit
    <2> QED
      BY <2>1, <2>2 DEF ScoresInv
  <1>7. CASE SelectCommit
    <2>1. UNCHANGED <<baseline, considered>>
      BY <1>7 DEF SelectCommit
    <2>2. PICK cand \in Results :
            \/ \E base, cert : commit' = MergedCommit(MergeGroup, base, cand, cert)
            \/ commit' = FallbackCommit(Ranked[1])
      BY <1>7 DEF SelectCommit
    <2>3. commit'.via = "merge" => commit'.eval \in Results
      <3>1. CASE \E base, cert : commit' = MergedCommit(MergeGroup, base, cand, cert)
        BY <3>1 DEF MergedCommit
      <3>2. CASE commit' = FallbackCommit(Ranked[1])
        BY <3>2 DEF FallbackCommit
      <3> QED
        BY <2>2, <3>1, <3>2
    <2> QED
      BY <2>1, <2>3 DEF ScoresInv
  <1>8. CASE WriteArtifacts
    <2>1. /\ considered' = [i \in DOMAIN considered |->
                              [considered[i] EXCEPT !.status = RowStatus(considered[i])]]
          /\ baseline' = baseline
          /\ \/ commit' = commit
             \/ \E l : commit' = [commit EXCEPT !.layers = l]
      BY <1>8 DEF WriteArtifacts
    <2>2. commit'.via = commit.via /\ commit'.eval = commit.eval
      BY <2>1 DEF EngineInv, EngineType, IsCommit
    <2>3. ASSUME NEW i \in DOMAIN considered', considered'[i].status # "invalid"
          PROVE  considered'[i].eval \in Results
      <3>1. i \in DOMAIN considered
            /\ considered'[i] = [considered[i] EXCEPT !.status = RowStatus(considered[i])]
        BY <2>1
      <3>2. considered'[i].eval = considered[i].eval
        BY <3>1
      <3>3. considered[i].status # "invalid"
        BY <2>3, <3>1 DEF RowStatus
      <3> QED
        BY <3>1, <3>2, <3>3 DEF ScoresInv
    <2> QED
      BY <2>1, <2>2, <2>3 DEF ScoresInv
  <1>9. CASE WriteLineage
    BY <1>9 DEF ScoresInv, WriteLineage
  <1> QED
    BY <1>1, <1>2, <1>3, <1>4, <1>5, <1>6, <1>7, <1>8, <1>9 DEF Next

LEMMA MaxOfOne ==
    ASSUME NEW n \in Nat
    PROVE  Max({n}) = n
  BY DEF Max

LEMMA TotalsIs ==
    ASSUME NEW result \in Results, NEW s \in Splits
    PROVE  Totals(result)[s] \in Nat
  <1>1. SplitTasks(s) \subseteq Tasks
    BY DEF SplitTasks, Tasks
  <1> QED
    BY <1>1, PassedIsNat DEF Totals

LEMMA TrajectoriesImprove == AuditInv /\ ScoresInv => TrajectoryImproves
  <1> SUFFICES ASSUME AuditInv, ScoresInv, Recorded PROVE TrajectoryImproves
    BY DEF TrajectoryImproves
  <1> DEFINE audit == AuditRun("1.4")
             committed == CommittedSelector(audit)
             row == TrajectoryRow(audit)
  <1>1. audit = AuditWith("1.4", LineageSchema("1.4"), NoProvenance)
    BY AuditRunIs
  <1>2. ASSUME NEW s \in Splits
        PROVE  /\ row.baseline[s] = Max(TotalsFor(audit, <<BaselineId, "baseline">>, s))
               /\ row.after[s] = Max(TotalsFor(audit, committed, s))
    BY DEF TrajectoryRow
  <1> HIDE DEF audit, committed, row
  <1>3. ASSUME NEW s \in Splits
        PROVE  row.baseline[s] = Totals(baseline)[s] /\ Totals(baseline)[s] \in Nat
    <2>1. TotalsFor(audit, <<BaselineId, "baseline">>, s) = {Totals(baseline)[s]}
      BY <1>1, BaselineTotals
    <2>2. Totals(baseline)[s] \in Nat
      BY TotalsIs DEF ScoresInv
    <2> QED
      BY <1>2, <2>1, <2>2, MaxOfOne
  <1>4. lineage[round].ids = commit.ids
    BY RecordedIs
  <1>5. CASE commit.ids = <<>>
    <2>1. committed = <<BaselineId, "baseline">>
      BY <1>1, <1>5, CommittedTotals DEF committed
    <2>2. \A s \in Splits : row.after[s] = row.baseline[s] /\ row.after[s] \in Nat
      BY <1>2, <1>3, <2>1
    <2> QED
      BY <1>4, <1>5, <2>2 DEF TrajectoryImproves, row, audit
  <1>6. CASE commit.ids # <<>>
    <2>1. PICK result :
            /\ Gate(baseline, result)
            /\ \/ \E i \in MeasuredIndices : result = considered[i].eval
               \/ commit.via = "merge" /\ result = commit.eval
            /\ \A s \in Splits : TotalsFor(audit, committed, s) = {Totals(result)[s]}
      BY <1>1, <1>6, CommittedTotals DEF committed
    <2>2. result \in Results
      BY <2>1 DEF ScoresInv, MeasuredIndices
    <2>3. ASSUME NEW s \in Splits
          PROVE  row.after[s] = Totals(result)[s] /\ Totals(result)[s] \in Nat
      BY <1>2, <2>1, <2>2, TotalsIs, MaxOfOne
    <2>4. \A x : x \in Splits <=> x = "held_in" \/ x = "held_out"
      BY DEF Splits
    <2>5. \A r : /\ Totals(r)["held_in"] = Passed(r, HeldIn)
                 /\ Totals(r)["held_out"] = Passed(r, HeldOut)
      BY DEF Totals, Splits, SplitTasks
    <2>6. /\ \A s \in Splits : Totals(result)[s] >= Totals(baseline)[s]
          /\ \E s \in Splits : Totals(result)[s] > Totals(baseline)[s]
      BY <2>1, <2>4, <2>5 DEF Gate
    <2>7. /\ \A s \in Splits : row.after[s] >= row.baseline[s]
          /\ \E s \in Splits : row.after[s] > row.baseline[s]
      BY <1>3, <2>3, <2>6
    <2> QED
      BY <1>4, <1>6, <2>7 DEF TrajectoryImproves, row, audit
  <1> QED
    BY <1>5, <1>6

(* TrajectoryImproves of AuditVerify: in the trajectory no round is worse    *)
(* than its baseline, and better exactly if it committed something.          *)
THEOREM TrajectoryIsTold ==
    ASSUME OwnTargetsOnly, UniqueIds
    PROVE  Spec => []TrajectoryImproves
  <1>1. Init => ScoresInv
    <2> SUFFICES ASSUME Init PROVE ScoresInv
      OBVIOUS
    <2>1. baseline = NoResult /\ considered = <<>> /\ commit = NoCommit(harness, layers, NoResult)
      BY DEF Init
    <2>2. commit.via = "none"
      BY <2>1 DEF NoCommit
    <2> QED
      BY <2>1, <2>2, NoRows, NoResultIsOne DEF ScoresInv
  <1>2. AuditInv /\ ScoresInv /\ [Next]_vars => ScoresInv'
    BY NextScores DEF AuditInv
  <1> QED
    BY <1>1, <1>2, AuditInvariant, TrajectoriesImprove, PTL DEF Spec

-----------------------------------------------------------------------------
(* Merging loses no edit.                                                    *)

LEMMA TextKept ==
    ASSUME NEW t, IsSeq(t)
    PROVE  /\ IsSeq(RStrip(t)) /\ ToSet(t) \ {Blank} \subseteq ToSet(RStrip(t))
           /\ IsSeq(Strip(t)) /\ ToSet(t) \ {Blank} \subseteq ToSet(Strip(t))
  <1> DEFINE n == Len(t)
  <1>1. PICK S : t \in Seq(S)
    BY DEF IsSeq
  <1>2. n \in Nat /\ DOMAIN t = 1..n
    BY <1>1
  <1>3. Solid(t) \in SUBSET (1..n) /\ Solid(t) \subseteq Nat
    BY <1>2 DEF Solid
  <1>4. \A x \in ToSet(t) \ {Blank} : \E i \in Solid(t) : t[i] = x
    BY DEF ToSet, Solid
  <1>5. CASE Solid(t) = {}
    <2>1. RStrip(t) = <<>> /\ Strip(t) = <<>> /\ ToSet(t) \ {Blank} = {}
      BY <1>4, <1>5 DEF RStrip, Strip
    <2>2. IsSeq(<<>>)
      <3>1. <<>> \in Seq({})
        OBVIOUS
      <3> QED
        BY <3>1 DEF IsSeq
    <2> QED
      BY <2>1, <2>2
  <1>6. CASE Solid(t) # {}
    <2>1. /\ Max(Solid(t)) \in Solid(t) /\ \A i \in Solid(t) : i <= Max(Solid(t))
      BY <1>2, <1>3, <1>6, MaxOfRange
    <2>2. /\ Min(Solid(t)) \in Solid(t) /\ \A i \in Solid(t) : Min(Solid(t)) <= i
      BY <1>3, <1>6, MinOf
    <2>3. RStrip(t) = SubSeq(t, 1, Max(Solid(t)))
          /\ Strip(t) = SubSeq(t, Min(Solid(t)), Max(Solid(t)))
      BY <1>6 DEF RStrip, Strip
    <2>4. ASSUME NEW a \in 1..n, NEW z \in 1..n, \A i \in Solid(t) : a <= i /\ i <= z
          PROVE  /\ IsSeq(SubSeq(t, a, z))
                 /\ ToSet(t) \ {Blank} \subseteq ToSet(SubSeq(t, a, z))
      <3> DEFINE u == SubSeq(t, a, z)
      <3>1. u \in Seq(S)
        BY <1>1, <1>2
      <3>2. /\ DOMAIN u = 1..(z - a + 1)
            /\ \A i \in 1..(z - a + 1) : u[i] = t[a + i - 1]
        BY <1>1, <1>2, <1>6, <1>3, <2>4
      <3> HIDE DEF u
      <3>3. ASSUME NEW i \in Solid(t) PROVE t[i] \in ToSet(u)
        <4>1. i - a + 1 \in 1..(z - a + 1) /\ a + (i - a + 1) - 1 = i
          BY <1>2, <1>3, <2>4
        <4>2. u[i - a + 1] = t[i] /\ i - a + 1 \in DOMAIN u
          BY <3>2, <4>1
        <4> QED
          BY <4>2 DEF ToSet
      <3> QED
        BY <1>4, <3>1, <3>3 DEF IsSeq, u
    <2>5. \A i \in Solid(t) : 1 <= i
      BY <1>2, <1>3
    <2>6. /\ Max(Solid(t)) \in 1..n /\ Min(Solid(t)) \in 1..n /\ 1 \in 1..n
      BY <1>2, <1>3, <2>1, <2>2
    <2> QED
      BY <2>1, <2>2, <2>3, <2>4, <2>5, <2>6
  <1> QED
    BY <1>5, <1>6

LEMMA JoinKept ==
    ASSUME NEW t, IsSeq(t), NEW u, IsSeq(u)
    PROVE  IsSeq(t \o u) /\ ToSet(t \o u) = ToSet(t) \cup ToSet(u)
  <1>1. PICK S, R : t \in Seq(S) /\ u \in Seq(R)
    BY DEF IsSeq
  <1>2. t \in Seq(S \cup R) /\ u \in Seq(S \cup R)
    BY <1>1
  <1>3. t \o u \in Seq(S \cup R)
    BY <1>2
  <1> DEFINE n == Len(t)
             m == Len(u)
  <1>4. n \in Nat /\ m \in Nat /\ DOMAIN t = 1..n /\ DOMAIN u = 1..m
    BY <1>2
  <1>5. /\ DOMAIN (t \o u) = 1..(n + m)
        /\ \A i \in 1..(n + m) : (t \o u)[i] = IF i <= n THEN t[i] ELSE u[i - n]
    BY <1>2
  <1> HIDE DEF n, m
  <1>6. ASSUME NEW i \in 1..n PROVE i \in 1..(n + m) /\ i <= n
    BY <1>4
  <1>7. ASSUME NEW i \in 1..m PROVE n + i \in 1..(n + m) /\ ~(n + i <= n) /\ (n + i) - n = i
    BY <1>4
  <1>8. ASSUME NEW i \in 1..(n + m), ~(i <= n) PROVE i - n \in 1..m
    BY <1>4, <1>8
  <1>9. ASSUME NEW i \in 1..(n + m), i <= n PROVE i \in 1..n
    BY <1>4, <1>9
  <1>10. ToSet(t) \subseteq ToSet(t \o u)
    BY <1>4, <1>5, <1>6 DEF ToSet
  <1>11. ToSet(u) \subseteq ToSet(t \o u)
    <2> SUFFICES ASSUME NEW i \in 1..m PROVE u[i] \in ToSet(t \o u)
      BY <1>4 DEF ToSet
    <2>1. n + i \in DOMAIN (t \o u) /\ (t \o u)[n + i] = u[i]
      BY <1>5, <1>7
    <2> QED
      BY <2>1 DEF ToSet
  <1>12. ToSet(t \o u) \subseteq ToSet(t) \cup ToSet(u)
    <2> SUFFICES ASSUME NEW i \in 1..(n + m) PROVE (t \o u)[i] \in ToSet(t) \cup ToSet(u)
      BY <1>5 DEF ToSet
    <2> QED
      BY <1>4, <1>5, <1>8, <1>9 DEF ToSet
  <1> QED
    BY <1>3, <1>10, <1>11, <1>12 DEF IsSeq

\* An operation that appends, and what it appends; whitespace may be lost.
Appends(o) ==
    \/ o.op = "AppendToSurface" /\ IsSeq(o.payload)
    \/ o.op = "AppendToListSurface"
Brings(o) == IF o.op = "AppendToSurface" THEN ToSet(o.payload) ELSE {o.payload}
Loses(op) == IF op = "AppendToSurface" THEN {Blank} ELSE {}

LEMMA AppendKeeps ==
    ASSUME NEW t, IsSeq(t), NEW o, Appends(o)
    PROVE  /\ IsSeq(NewValue(t, o))
           /\ (ToSet(t) \cup Brings(o)) \ Loses(o.op) \subseteq ToSet(NewValue(t, o))
  <1>1. CASE o.op = "AppendToSurface"
    <2>1. IsSeq(o.payload)
      BY <1>1 DEF Appends
    <2>2. NewValue(t, o) = IF Strip(o.payload) = <<>> THEN t ELSE RStrip(t) \o Strip(o.payload)
      BY <1>1 DEF NewValue
    <2>3. Brings(o) = ToSet(o.payload) /\ Loses(o.op) = {Blank}
      BY <1>1 DEF Brings, Loses
    <2>4. /\ IsSeq(RStrip(t)) /\ ToSet(t) \ {Blank} \subseteq ToSet(RStrip(t))
          /\ IsSeq(Strip(o.payload))
          /\ ToSet(o.payload) \ {Blank} \subseteq ToSet(Strip(o.payload))
      BY <2>1, TextKept
    <2>5. CASE Strip(o.payload) = <<>>
      <3>1. ToSet(Strip(o.payload)) = {}
        BY <2>5, NoRows DEF ToSet
      <3> QED
        BY <2>2, <2>3, <2>4, <2>5, <3>1
    <2>6. CASE Strip(o.payload) # <<>>
      <3>1. /\ IsSeq(RStrip(t) \o Strip(o.payload))
            /\ ToSet(RStrip(t) \o Strip(o.payload)) = ToSet(RStrip(t)) \cup ToSet(Strip(o.payload))
        BY <2>4, JoinKept
      <3> QED
        BY <2>2, <2>3, <2>4, <2>6, <3>1
    <2> QED
      BY <2>5, <2>6
  <1>2. CASE o.op = "AppendToListSurface"
    <2>1. NewValue(t, o) = Append(t, o.payload) /\ Brings(o) = {o.payload}
      BY <1>2 DEF NewValue, Brings
    <2>2. /\ IsSeq(Append(t, o.payload)) /\ Len(t) \in Nat
          /\ Len(Append(t, o.payload)) = Len(t) + 1
          /\ Append(t, o.payload)[Len(t) + 1] = o.payload
          /\ \A i \in 1..Len(t) : Append(t, o.payload)[i] = t[i]
      BY AppendSeq
    <2>3. DOMAIN Append(t, o.payload) = 1..(Len(t) + 1) /\ DOMAIN t = 1..Len(t)
      BY <2>2, SeqDomain
    <2>4. o.payload \in ToSet(Append(t, o.payload))
      <3>1. Len(t) + 1 \in DOMAIN Append(t, o.payload)
        BY <2>2, <2>3
      <3> QED
        BY <2>2, <3>1 DEF ToSet
    <2>5. ASSUME NEW i \in DOMAIN t PROVE t[i] \in ToSet(Append(t, o.payload))
      <3>1. i \in DOMAIN Append(t, o.payload) /\ Append(t, o.payload)[i] = t[i]
        BY <2>2, <2>3
      <3> QED
        BY <3>1 DEF ToSet
    <2>6. ToSet(t) \subseteq ToSet(Append(t, o.payload))
      BY <2>5 DEF ToSet
    <2> QED
      BY <2>1, <2>2, <2>4, <2>6
  <1> QED
    BY <1>1, <1>2 DEF Appends

\* The operations of p on s append, all in the same way.
AppendsOn(p, s, op) ==
    \A k \in DOMAIN p : p[k].surface = s => p[k].op = op /\ Appends(p[k])

(* Appending keeps what is there, and what every operation brought.          *)
LEMMA PatchAppends ==
    ASSUME NEW from, NEW D, Gives(from, D), NEW s \in D, IsSeq(from[s]),
           NEW p, IsSeq(p), NEW op, AppendsOn(p, s, op)
    PROVE  LET to == ApplyPatch(from, p)
           IN  /\ IsSeq(to[s])
               /\ ToSet(from[s]) \ Loses(op) \subseteq ToSet(to[s])
               /\ \A k \in DOMAIN p :
                     p[k].surface = s => Brings(p[k]) \ Loses(op) \subseteq ToSet(to[s])
  <1> DEFINE n == Len(p)
  <1>1. n \in Nat /\ DOMAIN p = 1..n
    BY SeqDomain
  <1>2. PICK h : Applies(h, from, p, n) /\ ApplyPatch(from, p) = h[n]
    BY <1>1, ApplyPatchGoes
  <1> HIDE DEF n
  <1>3. \A i \in 0..n : Gives(h[i], D)
    BY <1>1, <1>2, WayGives
  <1> DEFINE Kept(i) == /\ IsSeq(h[i][s])
                        /\ ToSet(from[s]) \ Loses(op) \subseteq ToSet(h[i][s])
                        /\ \A k \in 1..i : p[k].surface = s =>
                              Brings(p[k]) \ Loses(op) \subseteq ToSet(h[i][s])
             T == {i \in 0..n : ~Kept(i)}
  <1>4. T = {}
    <2> SUFFICES ASSUME T # {} PROVE FALSE
      OBVIOUS
    <2>1. PICK i \in T : \A j \in T : i <= j
      <3> T \subseteq Nat
        OBVIOUS
      <3> HIDE DEF T
      <3> QED
        BY LeastNatural
    <2>2. i # 0
      <3>1. h[0] = from
        BY <1>2 DEF Applies
      <3>2. Kept(0)
        BY <3>1
      <3> QED
        BY <2>1, <3>2
    <2>3. i \in 1..n /\ i - 1 \in 0..n /\ ~(i <= i - 1)
      BY <1>1, <2>1, <2>2
    <2>4. Kept(i - 1)
      BY <2>1, <2>3
    <2>5. h[i][s] = IF p[i].surface = s THEN NewValue(h[i - 1][s], p[i]) ELSE h[i - 1][s]
      <3>1. h[i] = ApplyOp(h[i - 1], p[i])
        BY <1>2, <2>3 DEF Applies
      <3>2. Gives(h[i - 1], D)
        BY <1>3, <2>3
      <3>3. ApplyOp(h[i - 1], p[i])[s] =
              IF p[i].surface = s THEN NewValue(h[i - 1][s], p[i]) ELSE h[i - 1][s]
        BY <3>2 DEF ApplyOp, Gives
      <3> QED
        BY <3>1, <3>3
    <2>6. /\ IsSeq(h[i][s])
          /\ ToSet(h[i - 1][s]) \ Loses(op) \subseteq ToSet(h[i][s])
          /\ p[i].surface = s => Brings(p[i]) \ Loses(op) \subseteq ToSet(h[i][s])
      <3>1. CASE p[i].surface = s
        <4>1. p[i].op = op /\ Appends(p[i])
          BY <1>1, <2>3, <3>1 DEF AppendsOn
        <4>2. /\ IsSeq(NewValue(h[i - 1][s], p[i]))
              /\ (ToSet(h[i - 1][s]) \cup Brings(p[i])) \ Loses(op)
                   \subseteq ToSet(NewValue(h[i - 1][s], p[i]))
          BY <2>4, <4>1, AppendKeeps
        <4> QED
          BY <2>5, <3>1, <4>2
      <3>2. CASE p[i].surface # s
        BY <2>4, <2>5, <3>2
      <3> QED
        BY <3>1, <3>2
    <2>7. ASSUME NEW k \in 1..i, p[k].surface = s
          PROVE  Brings(p[k]) \ Loses(op) \subseteq ToSet(h[i][s])
      <3>1. CASE k = i
        BY <2>6, <2>7, <3>1
      <3>2. CASE k # i
        <4>1. k \in 1..(i - 1)
          BY <2>3, <3>2
        <4>2. Brings(p[k]) \ Loses(op) \subseteq ToSet(h[i - 1][s])
          BY <2>4, <2>7, <4>1
        <4> QED
          BY <2>6, <4>2
      <3> QED
        BY <3>1, <3>2
    <2>8. Kept(i)
      BY <2>4, <2>6, <2>7
    <2> QED
      BY <2>1, <2>8
  <1>5. n \in 0..n /\ \A i \in 0..n : Kept(i)
    BY <1>1, <1>4
  <1> HIDE DEF T
  <1> QED
    BY <1>1, <1>2, <1>5

(* What a patch makes of a surface depends on that surface alone ...         *)
LEMMA EditIsLocal ==
    ASSUME NEW from, NEW to, NEW D, Gives(from, D), Gives(to, D), NEW s \in D,
           from[s] = to[s], NEW p, IsSeq(p)
    PROVE  ApplyPatch(from, p)[s] = ApplyPatch(to, p)[s]
  <1> DEFINE n == Len(p)
  <1>1. n \in Nat /\ DOMAIN p = 1..n
    BY SeqDomain
  <1>2. PICK h : Applies(h, from, p, n) /\ ApplyPatch(from, p) = h[n]
    BY <1>1, ApplyPatchGoes
  <1>3. PICK g : Applies(g, to, p, n) /\ ApplyPatch(to, p) = g[n]
    BY <1>1, ApplyPatchGoes
  <1> HIDE DEF n
  <1>4. \A i \in 0..n : Gives(h[i], D) /\ Gives(g[i], D)
    BY <1>1, <1>2, <1>3, WayGives
  <1> DEFINE T == {i \in 0..n : h[i][s] # g[i][s]}
  <1>5. T = {}
    <2> SUFFICES ASSUME T # {} PROVE FALSE
      OBVIOUS
    <2>1. PICK i \in T : \A j \in T : i <= j
      <3> T \subseteq Nat
        OBVIOUS
      <3> HIDE DEF T
      <3> QED
        BY LeastNatural
    <2>2. i # 0
      BY <1>2, <1>3, <2>1 DEF Applies
    <2>3. i \in 1..n /\ i - 1 \in 0..n /\ ~(i <= i - 1)
      BY <1>1, <2>1, <2>2
    <2>4. h[i - 1][s] = g[i - 1][s]
      BY <2>1, <2>3
    <2>5. h[i] = ApplyOp(h[i - 1], p[i]) /\ g[i] = ApplyOp(g[i - 1], p[i])
      BY <1>2, <1>3, <2>3 DEF Applies
    <2>6. Gives(h[i - 1], D) /\ Gives(g[i - 1], D)
      BY <1>4, <2>3
    <2>7. /\ ApplyOp(h[i - 1], p[i])[s] =
               IF p[i].surface = s THEN NewValue(h[i - 1][s], p[i]) ELSE h[i - 1][s]
          /\ ApplyOp(g[i - 1], p[i])[s] =
               IF p[i].surface = s THEN NewValue(g[i - 1][s], p[i]) ELSE g[i - 1][s]
      BY <2>6 DEF ApplyOp, Gives
    <2>8. h[i][s] = g[i][s]
      BY <2>4, <2>5, <2>7
    <2> QED
      BY <2>1, <2>8
  <1>6. n \in 0..n
    BY <1>1
  <1> QED
    BY <1>2, <1>3, <1>5, <1>6

(* ... and a surface it does not touch is left alone.                        *)
LEMMA EditIsBounded ==
    ASSUME NEW from, NEW D, Gives(from, D), NEW s \in D, NEW p, IsSeq(p), ~Touches(p, s)
    PROVE  ApplyPatch(from, p)[s] = from[s]
  <1> DEFINE n == Len(p)
  <1>1. n \in Nat /\ DOMAIN p = 1..n
    BY SeqDomain
  <1>2. PICK h : Applies(h, from, p, n) /\ ApplyPatch(from, p) = h[n]
    BY <1>1, ApplyPatchGoes
  <1> HIDE DEF n
  <1>3. \A i \in 0..n : Gives(h[i], D)
    BY <1>1, <1>2, WayGives
  <1> DEFINE T == {i \in 0..n : h[i][s] # from[s]}
  <1>4. T = {}
    <2> SUFFICES ASSUME T # {} PROVE FALSE
      OBVIOUS
    <2>1. PICK i \in T : \A j \in T : i <= j
      <3> T \subseteq Nat
        OBVIOUS
      <3> HIDE DEF T
      <3> QED
        BY LeastNatural
    <2>2. i # 0
      BY <1>2, <2>1 DEF Applies
    <2>3. i \in 1..n /\ i - 1 \in 0..n /\ ~(i <= i - 1)
      BY <1>1, <2>1, <2>2
    <2>4. h[i] = ApplyOp(h[i - 1], p[i]) /\ p[i].surface # s
      BY <1>1, <1>2, <2>3 DEF Applies, Touches
    <2>5. Gives(h[i - 1], D) /\ h[i - 1][s] = from[s]
      BY <1>3, <2>1, <2>3
    <2>6. ApplyOp(h[i - 1], p[i])[s] = h[i - 1][s]
      BY <2>4, <2>5 DEF ApplyOp, Gives
    <2> QED
      BY <2>1, <2>4, <2>5, <2>6
  <1>5. n \in 0..n
    BY <1>1
  <1> QED
    BY <1>2, <1>4, <1>5

\* h[j] is the harness after the first j patches of the group g.
Leads(h, g, from, k) ==
    /\ h[0] = from
    /\ \A j \in 1..k : h[j] = ApplyPatch(h[j - 1], g[j])

LEMMA LeadsGives ==
    ASSUME NEW g, NEW n \in Nat, \A j \in 1..n : IsSeq(g[j]),
           NEW from, NEW D, Gives(from, D), NEW h, Leads(h, g, from, n)
    PROVE  \A j \in 0..n : Gives(h[j], D)
  <1> DEFINE T == {j \in 0..n : ~Gives(h[j], D)}
  <1> SUFFICES ASSUME T # {} PROVE FALSE
    OBVIOUS
  <1>1. PICK j \in T : \A i \in T : j <= i
    <2> T \subseteq Nat
      OBVIOUS
    <2> HIDE DEF T
    <2> QED
      BY LeastNatural
  <1>2. j # 0
    BY DEF Leads
  <1>3. j \in 1..n /\ Gives(h[j - 1], D)
    BY <1>1, <1>2
  <1>4. h[j] = ApplyPatch(h[j - 1], g[j])
    BY <1>3 DEF Leads
  <1> QED
    BY <1>3, <1>4, <1>1, ApplyPatchGives

LEMMA OneEditSurvives ==
    ASSUME NEW g, NEW n \in Nat, \A j \in 1..n : IsSeq(g[j]),
           NEW from, NEW D, Gives(from, D), NEW h, Leads(h, g, from, n),
           NEW s \in D, NEW i \in 1..n, \A j \in 1..n : j # i => ~Touches(g[j], s)
    PROVE  h[n][s] = ApplyPatch(from, g[i])[s]
  <1>1. \A j \in 0..n : Gives(h[j], D)
    BY LeadsGives
  <1> DEFINE V(j) == IF j < i THEN from[s] ELSE ApplyPatch(from, g[i])[s]
             T == {j \in 0..n : h[j][s] # V(j)}
  <1>2. T = {}
    <2> SUFFICES ASSUME T # {} PROVE FALSE
      OBVIOUS
    <2>1. PICK j \in T : \A m \in T : j <= m
      <3> T \subseteq Nat
        OBVIOUS
      <3> HIDE DEF T
      <3> QED
        BY LeastNatural
    <2>2. j # 0
      BY <2>1 DEF Leads
    <2>3. j \in 1..n /\ j - 1 \in 0..n /\ ~(j <= j - 1)
      BY <2>1, <2>2
    <2>4. h[j - 1][s] = V(j - 1)
      BY <2>1, <2>3
    <2>5. h[j] = ApplyPatch(h[j - 1], g[j]) /\ Gives(h[j - 1], D) /\ IsSeq(g[j])
      BY <1>1, <2>3 DEF Leads
    <2>6. CASE j = i
      <3>1. h[j - 1][s] = from[s]
        BY <2>3, <2>4, <2>6
      <3>2. ApplyPatch(h[j - 1], g[j])[s] = ApplyPatch(from, g[j])[s]
        BY <2>5, <3>1, EditIsLocal
      <3> QED
        BY <2>1, <2>3, <2>5, <2>6, <3>2
    <2>7. CASE j # i
      <3>1. h[j][s] = h[j - 1][s]
        BY <2>3, <2>5, <2>7, EditIsBounded
      <3>2. V(j) = V(j - 1)
        BY <2>3, <2>7
      <3> QED
        BY <2>1, <2>4, <3>1, <3>2
    <2> QED
      BY <2>6, <2>7
  <1>3. n \in 0..n /\ ~(n < i)
    OBVIOUS
  <1> QED
    BY <1>2, <1>3

LEMMA AppendedEditsSurvive ==
    ASSUME NEW g, NEW n \in Nat, \A j \in 1..n : IsSeq(g[j]),
           NEW from, NEW D, Gives(from, D), NEW h, Leads(h, g, from, n),
           NEW s \in D, IsSeq(from[s]), NEW op, \A j \in 1..n : AppendsOn(g[j], s, op),
           NEW i \in 1..n, NEW k \in DOMAIN g[i], g[i][k].surface = s
    PROVE  Brings(g[i][k]) \ Loses(op) \subseteq ToSet(h[n][s])
  <1>1. \A j \in 0..n : Gives(h[j], D)
    BY LeadsGives
  <1> DEFINE Kept(j) == /\ IsSeq(h[j][s])
                        /\ i <= j => Brings(g[i][k]) \ Loses(op) \subseteq ToSet(h[j][s])
             T == {j \in 0..n : ~Kept(j)}
  <1>2. T = {}
    <2> SUFFICES ASSUME T # {} PROVE FALSE
      OBVIOUS
    <2>1. PICK j \in T : \A m \in T : j <= m
      <3> T \subseteq Nat
        OBVIOUS
      <3> HIDE DEF T
      <3> QED
        BY LeastNatural
    <2>2. j # 0
      <3>1. h[0] = from /\ ~(i <= 0)
        BY DEF Leads
      <3>2. Kept(0)
        BY <3>1
      <3> QED
        BY <2>1, <3>2
    <2>3. j \in 1..n /\ j - 1 \in 0..n /\ ~(j <= j - 1)
      BY <2>1, <2>2
    <2>4. Kept(j - 1)
      BY <2>1, <2>3
    <2>5. /\ h[j] = ApplyPatch(h[j - 1], g[j]) /\ Gives(h[j - 1], D) /\ IsSeq(g[j])
          /\ AppendsOn(g[j], s, op)
      BY <1>1, <2>3 DEF Leads
    <2>6. /\ IsSeq(h[j][s])
          /\ ToSet(h[j - 1][s]) \ Loses(op) \subseteq ToSet(h[j][s])
          /\ \A m \in DOMAIN g[j] : g[j][m].surface = s =>
                Brings(g[j][m]) \ Loses(op) \subseteq ToSet(h[j][s])
      BY <2>4, <2>5, PatchAppends
    <2>7. CASE j = i
      BY <2>6, <2>1, <2>7
    <2>8. CASE j # i
      <3>1. i <= j => i <= j - 1
        BY <2>3, <2>8
      <3>2. Kept(j)
        BY <2>4, <2>6, <3>1
      <3> QED
        BY <2>1, <3>2
    <2> QED
      BY <2>7, <2>8
  <1>3. n \in 0..n /\ i <= n
    OBVIOUS
  <1> QED
    BY <1>2, <1>3

Leading(g, from, k, to) == \E h : Leads(h, g, from, k) /\ h[k] = to

LEMMA LeadsOn ==
    ASSUME NEW g, NEW from, NEW k \in Nat, NEW to, Leading(g, from, k, to)
    PROVE  Leading(g, from, k + 1, ApplyPatch(to, g[k + 1]))
  <1>1. PICK h : Leads(h, g, from, k) /\ h[k] = to
    BY DEF Leading
  <1> DEFINE f == [i \in 0..(k + 1) |-> IF i <= k THEN h[i] ELSE ApplyPatch(to, g[k + 1])]
  <1>2. f[0] = from /\ f[k + 1] = ApplyPatch(to, g[k + 1])
    BY <1>1 DEF Leads
  <1>3. ASSUME NEW j \in 1..(k + 1) PROVE f[j] = ApplyPatch(f[j - 1], g[j])
    <2>1. j \in 0..(k + 1) /\ j - 1 \in 0..(k + 1) /\ j - 1 <= k
      OBVIOUS
    <2>2. CASE j <= k
      <3>1. j \in 1..k /\ f[j] = h[j] /\ f[j - 1] = h[j - 1]
        BY <2>1, <2>2
      <3> QED
        BY <1>1, <3>1 DEF Leads
    <2>3. CASE j = k + 1
      <3>1. f[j - 1] = to
        BY <1>1, <2>1, <2>3
      <3> QED
        BY <1>2, <2>3, <3>1
    <2> QED
      BY <2>2, <2>3
  <1> HIDE DEF f
  <1> QED
    BY <1>2, <1>3 DEF Leading, Leads

LEMMA ApplyFirst ==
    ASSUME NEW from, NEW p, IsSeq(p), p # <<>>
    PROVE  ApplyPatch(from, p) = ApplyPatch(ApplyOp(from, Head(p)), Tail(p))
  <1> DEFINE n == Len(p)
  <1>1. /\ n \in Nat \ {0} /\ DOMAIN p = 1..n /\ Head(p) = p[1]
        /\ DOMAIN Tail(p) = 1..(n - 1)
        /\ \A i \in 1..(n - 1) : Tail(p)[i] = p[i + 1]
    BY SeqDomain, TailSeq
  <1>2. PICK h : Applies(h, from, p, n) /\ ApplyPatch(from, p) = h[n]
    BY <1>1, ApplyPatchGoes
  <1> HIDE DEF n
  <1> DEFINE g == [i \in 0..(n - 1) |-> h[i + 1]]
  <1>3. g[0] = ApplyOp(from, Head(p))
    <2>1. 1 \in 1..n /\ 0 \in 0..(n - 1) /\ 1 - 1 = 0
      BY <1>1
    <2> QED
      BY <1>1, <1>2, <2>1 DEF Applies
  <1>4. ASSUME NEW i \in 1..(n - 1) PROVE g[i] = ApplyOp(g[i - 1], Tail(p)[i])
    <2>1. i + 1 \in 1..n /\ (i + 1) - 1 = (i - 1) + 1 /\ i \in 0..(n - 1) /\ i - 1 \in 0..(n - 1)
      BY <1>1
    <2>2. h[i + 1] = ApplyOp(h[(i + 1) - 1], p[i + 1])
      BY <1>2, <2>1 DEF Applies
    <2> QED
      BY <1>1, <2>1, <2>2
  <1>5. g[n - 1] = h[n]
    <2>1. n - 1 \in 0..(n - 1) /\ (n - 1) + 1 = n
      BY <1>1
    <2> QED
      BY <2>1
  <1> HIDE DEF g
  <1>6. Applies(g, ApplyOp(from, Head(p)), Tail(p), n - 1)
    BY <1>3, <1>4 DEF Applies
  <1>7. n - 1 \in Nat
    BY <1>1
  <1> DEFINE t == Tail(p)
  <1>8. DOMAIN t = 1..(n - 1)
    BY <1>1
  <1>9. Applies(g, ApplyOp(from, Head(p)), t, n - 1)
    BY <1>6
  <1> HIDE DEF t
  <1>10. ApplyPatch(ApplyOp(from, Head(p)), t) = g[n - 1]
    BY <1>7, <1>8, <1>9, ApplyPatchIs
  <1> QED
    BY <1>2, <1>5, <1>10 DEF t

\* What is left to merge and to apply leads where the patches of the group
\* lead, one after the other.
MergeInv ==
    /\ IsSeq(group) /\ Len(group) \in Nat \ {0}
    /\ \A i \in 1..Len(group) : group[i] \in Patches
    /\ Len(group) = 1 \/ IsMergeGroup(group)
    /\ phase = "merge" =>
          /\ spec = origin
          /\ \E k \in 0..Len(group) :
                /\ Len(pending) = Len(group) - k
                /\ \A j \in 1..Len(pending) : pending[j] = group[k + j]
                /\ Leading(group, origin, k, ApplyPatch(origin, todo))
    /\ phase = "apply" => Leading(group, origin, Len(group), ApplyPatch(spec, todo))
    /\ phase = "applied" => Leading(group, origin, Len(group), spec)

LEMMA InitMerge == PatchInit => MergeInv
  <1> SUFFICES ASSUME PatchInit PROVE MergeInv
    OBVIOUS
  <1>1. Leading(group, origin, 0, origin)
    <2> DEFINE h == [i \in 0..0 |-> origin]
    <2>1. Leads(h, group, origin, 0) /\ h[0] = origin
      BY DEF Leads
    <2> HIDE DEF h
    <2> QED
      BY <2>1 DEF Leading
  <1>2. spec = origin
    BY DEF PatchInit
  <1>3. CASE phase = "apply"
    <2>1. PICK p \in Patches : group = <<p>> /\ todo = p
      BY <1>3 DEF PatchInit
    <2>2. group \in Seq(Patches) /\ Len(group) = 1 /\ group[1] = p
      BY <2>1
    <2>3. Leading(group, origin, 0 + 1, ApplyPatch(origin, group[0 + 1]))
      BY <1>1, LeadsOn
    <2>4. Leading(group, origin, 1, ApplyPatch(origin, p))
      BY <2>2, <2>3
    <2> QED
      BY <1>2, <1>3, <2>1, <2>2, <2>4 DEF MergeInv, IsSeq
  <1>4. CASE phase = "merge"
    <2>1. PICK n \in 2..MaxGroup : group \in [1..n -> Patches]
      BY <1>4 DEF PatchInit
    <2>2. IsMergeGroup(group) /\ pending = group /\ todo = <<>>
      BY <1>4 DEF PatchInit
    <2>3. n \in Nat \ {0}
      BY MaxGroupNat
    <2>4. group \in Seq(Patches) /\ Len(group) = n
      BY <2>1, <2>3
    <2>5. ApplyPatch(origin, todo) = origin
      BY <2>2, ApplyPatchEmpty
    <2>6. /\ Len(pending) = Len(group) - 0
          /\ \A j \in 1..Len(pending) : pending[j] = group[0 + j]
      BY <2>2, <2>3, <2>4
    <2>7. 0 \in 0..Len(group)
      BY <2>3, <2>4
    <2> QED
      BY <1>1, <1>2, <1>4, <2>1, <2>2, <2>3, <2>4, <2>5, <2>6, <2>7 DEF MergeInv, IsSeq
  <1> QED
    BY <1>3, <1>4 DEF PatchInit

LEMMA NextMerge == PatchInv /\ MergeInv /\ [PatchNext]_patchVars => MergeInv'
  <1> SUFFICES ASSUME PatchInv, MergeInv, [PatchNext]_patchVars PROVE MergeInv'
    OBVIOUS
  <1>1. CASE Merge
    <2>1. /\ phase = "merge" /\ pending # <<>> /\ todo' = todo \o Head(pending)
          /\ pending' = Tail(pending) /\ UNCHANGED <<origin, group, spec, phase>>
      BY <1>1 DEF Merge
    <2>2. PICK k \in 0..Len(group) :
            /\ Len(pending) = Len(group) - k
            /\ \A j \in 1..Len(pending) : pending[j] = group[k + j]
            /\ Leading(group, origin, k, ApplyPatch(origin, todo))
      BY <2>1 DEF MergeInv
    <2>3. IsSeq(pending) /\ IsSeq(todo) /\ Len(group) \in Nat
      BY DEF PatchInv, Queues, MergeInv, IsSeq
    <2>4. /\ Len(pending) \in Nat \ {0} /\ Len(Tail(pending)) = Len(pending) - 1
          /\ Head(pending) = pending[1]
          /\ \A i \in 1..Len(pending) - 1 : Tail(pending)[i] = pending[i + 1]
      BY <2>1, <2>3, TailSeq
    <2>5. k + 1 \in 0..Len(group) /\ k \in Nat /\ Head(pending) = group[k + 1]
          /\ k + 1 \in 1..Len(group)
      BY <2>2, <2>3, <2>4
    <2>6. Leading(group, origin, k + 1, ApplyPatch(ApplyPatch(origin, todo), group[k + 1]))
      BY <2>2, <2>5, LeadsOn
    <2>7. IsSeq(group[k + 1])
      BY <2>5, PatchesAreSequences DEF MergeInv, IsSeq
    <2>8. ApplyPatch(origin, todo') = ApplyPatch(ApplyPatch(origin, todo), group[k + 1])
      BY <2>1, <2>3, <2>5, <2>7, ApplyPatchConcat
    <2>9. /\ Len(pending') = Len(group) - (k + 1)
          /\ \A j \in 1..Len(pending') : pending'[j] = group[(k + 1) + j]
      <3>1. Len(pending') = Len(group) - (k + 1)
        BY <2>1, <2>2, <2>3, <2>4
      <3>2. ASSUME NEW j \in 1..Len(pending') PROVE pending'[j] = group[(k + 1) + j]
        <4>1. j \in 1..Len(pending) - 1 /\ j + 1 \in 1..Len(pending) /\ k + (j + 1) = (k + 1) + j
          BY <2>1, <2>4, <2>5
        <4> QED
          BY <2>1, <2>2, <2>4, <4>1
      <3> QED
        BY <3>1, <3>2
    <2>10. Leading(group, origin, k + 1, ApplyPatch(origin, todo'))
      BY <2>6, <2>8
    <2> HIDE DEF Leading
    <2> QED
      BY <2>1, <2>5, <2>9, <2>10 DEF MergeInv
  <1>2. CASE Merged
    <2>1. /\ phase = "merge" /\ pending = <<>> /\ phase' = "apply"
          /\ UNCHANGED <<origin, group, spec, todo>>
      BY <1>2 DEF Merged
    <2>2. PICK k \in 0..Len(group) :
            /\ Len(pending) = Len(group) - k
            /\ Leading(group, origin, k, ApplyPatch(origin, todo))
      BY <2>1 DEF MergeInv
    <2>3. k = Len(group) /\ spec = origin
      BY <2>1, <2>2 DEF MergeInv
    <2> QED
      BY <2>1, <2>2, <2>3 DEF MergeInv
  <1>3. CASE Apply
    <2>1. /\ phase = "apply" /\ todo # <<>> /\ spec' = ApplyOp(spec, Head(todo))
          /\ todo' = Tail(todo) /\ UNCHANGED <<origin, group, phase>>
      BY <1>3 DEF Apply
    <2>2. ApplyPatch(spec', todo') = ApplyPatch(spec, todo)
      BY <2>1, ApplyFirst DEF PatchInv, Queues
    <2> QED
      BY <2>1, <2>2 DEF MergeInv
  <1>4. CASE Applied
    <2>1. /\ phase = "apply" /\ todo = <<>> /\ phase' = "applied"
          /\ UNCHANGED <<origin, group, spec>>
      BY <1>4 DEF Applied
    <2>2. ApplyPatch(spec, todo) = spec
      BY <2>1, ApplyPatchEmpty
    <2> QED
      BY <2>1, <2>2 DEF MergeInv
  <1>5. CASE Reject \/ StartUndo \/ Undone
    BY <1>5 DEF MergeInv, Reject, StartUndo, Undone
  <1>6. CASE Undo
    <2>1. phase' = "undo" /\ UNCHANGED group
      BY <1>6 DEF Undo
    <2> QED
      BY <2>1 DEF MergeInv
  <1>7. CASE UNCHANGED patchVars
    BY <1>7 DEF MergeInv, patchVars
  <1> QED
    BY <1>1, <1>2, <1>3, <1>4, <1>5, <1>6, <1>7 DEF PatchNext

\* Operations of different patches of a group on one surface append alike.
LEMMA AppendAlike ==
    ASSUME NEW g, IsSeq(g), IsMergeGroup(g),
           NEW i \in DOMAIN g, NEW j \in DOMAIN g, i # j,
           NEW k \in DOMAIN g[i], NEW m \in DOMAIN g[j],
           g[i][k].surface = g[j][m].surface
    PROVE  /\ g[i][k].op = g[j][m].op
           /\ g[j][m].op \in {"AppendToSurface", "AppendToListSurface"}
  <1>1. i \in Nat /\ j \in Nat
    BY SeqDomain
  <1>2. CASE i < j
    <2>1. Mergeable(g[j], g[i])
      BY <1>2 DEF IsMergeGroup
    <2>2. OpsMergeable(g[j][m], g[i][k])
      BY <2>1 DEF Mergeable
    <2> QED
      BY <2>2 DEF OpsMergeable
  <1>3. CASE j < i
    <2>1. Mergeable(g[i], g[j])
      BY <1>3 DEF IsMergeGroup
    <2>2. OpsMergeable(g[i][k], g[j][m])
      BY <2>1 DEF Mergeable
    <2> QED
      BY <2>2 DEF OpsMergeable
  <1> QED
    BY <1>1, <1>2, <1>3

LEMMA EditsSurvive == PatchInv /\ MergeInv => MergedEditsSurvive
  <1> SUFFICES ASSUME PatchInv, MergeInv, phase = "applied",
                      NEW i \in DOMAIN group, NEW s \in Surfaces, Touches(group[i], s)
               PROVE  IF \A j \in DOMAIN group \ {i} : ~Touches(group[j], s)
                      THEN spec[s] = ApplyPatch(origin, group[i])[s]
                      ELSE \A k \in DOMAIN group[i] :
                              LET o == group[i][k]
                              IN  o.surface = s =>
                                    IF o.op = "AppendToSurface"
                                    THEN ToSet(o.payload) \ {Blank} \subseteq ToSet(spec[s])
                                    ELSE o.op = "AppendToListSurface"
                                         /\ o.payload \in ToSet(spec[s])
    BY DEF MergedEditsSurvive
  <1> DEFINE n == Len(group)
  <1>1. /\ n \in Nat /\ DOMAIN group = 1..n /\ IsSeq(group)
        /\ \A j \in 1..n : group[j] \in Patches
        /\ n = 1 \/ IsMergeGroup(group)
    BY SeqDomain DEF MergeInv
  <1>2. \A j \in 1..n : IsSeq(group[j])
    BY <1>1, PatchesAreSequences DEF IsSeq
  <1>3. origin \in Specs /\ Gives(origin, Surfaces)
    BY SpecsAreHarnesses DEF PatchInv, TypeOK, Gives
  <1>4. PICK h : Leads(h, group, origin, n) /\ h[n] = spec
    BY DEF MergeInv, Leading
  <1> HIDE DEF n
  <1>5. CASE \A j \in DOMAIN group \ {i} : ~Touches(group[j], s)
    <2>1. i \in 1..n /\ \A j \in 1..n : j # i => ~Touches(group[j], s)
      BY <1>1, <1>5
    <2>2. h[n][s] = ApplyPatch(origin, group[i])[s]
      BY <1>1, <1>2, <1>3, <1>4, <2>1, OneEditSurvives
    <2> QED
      BY <1>4, <1>5, <2>2
  <1>6. CASE \E j \in DOMAIN group \ {i} : Touches(group[j], s)
    <2>1. PICK j \in DOMAIN group \ {i} : Touches(group[j], s)
      BY <1>6
    <2>2. PICK a \in DOMAIN group[i], b \in DOMAIN group[j] :
            group[i][a].surface = s /\ group[j][b].surface = s
      BY <2>1 DEF Touches
    <2> DEFINE op == group[j][b].op
    <2>3. IsMergeGroup(group)
      BY <1>1, <2>1
    <2>4. group[i][a].op = op /\ op \in {"AppendToSurface", "AppendToListSurface"}
      BY <1>1, <2>1, <2>2, <2>3, AppendAlike
    <2>5. ASSUME NEW m \in DOMAIN group, NEW k \in DOMAIN group[m], group[m][k].surface = s
          PROVE  group[m][k].op = op
      <3>1. CASE m # j
        BY <1>1, <2>1, <2>2, <2>3, <2>5, <3>1, AppendAlike
      <3>2. CASE m = j
        <4>1. m # i
          BY <2>1, <3>2
        <4>2. group[m][k].op = group[i][a].op
          BY <1>1, <2>2, <2>3, <2>5, <4>1, AppendAlike
        <4> QED
          BY <2>4, <4>2
      <3> QED
        BY <3>1, <3>2
    <2> HIDE DEF op
    <2>6. ASSUME NEW m \in DOMAIN group, NEW k \in DOMAIN group[m], group[m][k].surface = s
          PROVE  /\ group[m][k] \in PatchOps
                 /\ ValidOp(group[m][k])
      <3>1. group[m] \in Patches
        BY <1>1
      <3>2. group[m][k] \in PatchOps
        BY <3>1 DEF PatchOps
      <3>3. ValidOp(group[m][k])
        BY <2>3 DEF IsMergeGroup, ValidPatch
      <3> QED
        BY <3>2, <3>3
    <2>7. ASSUME NEW m \in 1..n PROVE AppendsOn(group[m], s, op)
      <3> SUFFICES ASSUME NEW k \in DOMAIN group[m], group[m][k].surface = s
                   PROVE  group[m][k].op = op /\ Appends(group[m][k])
        BY DEF AppendsOn
      <3>1. group[m][k].op = op /\ group[m][k] \in PatchOps /\ ValidOp(group[m][k])
        BY <1>1, <2>5, <2>6
      <3>2. CASE op = "AppendToSurface"
        <4>1. group[m][k].payload \in Seq(ToSet(group[m][k].payload))
          BY <3>1, <3>2, PatchesTyped
        <4>2. IsSeq(group[m][k].payload)
          BY <4>1 DEF IsSeq
        <4> QED
          BY <3>1, <3>2, <4>2 DEF Appends, ValidOp
      <3>3. CASE op = "AppendToListSurface"
        BY <3>1, <3>3 DEF Appends
      <3> QED
        BY <2>4, <3>2, <3>3
    <2>8. IsSeq(origin[s])
      <3>1. ValidOp(group[i][a]) /\ group[i][a].op = op /\ group[i][a].surface = s
        BY <2>2, <2>4, <2>6
      <3>2. s \in TextSurfaces \/ s \in ListSurfaces
        BY <2>4, <3>1 DEF ValidOp
      <3>3. s \notin PolicySurfaces
        BY <3>2 DEF TextSurfaces, ListSurfaces, PolicySurfaces
      <3> QED
        BY <1>3, <3>3, SpecsTyped DEF IsSeq
    <2>9. ASSUME NEW k \in DOMAIN group[i], group[i][k].surface = s
          PROVE  IF group[i][k].op = "AppendToSurface"
                 THEN ToSet(group[i][k].payload) \ {Blank} \subseteq ToSet(spec[s])
                 ELSE group[i][k].op = "AppendToListSurface"
                      /\ group[i][k].payload \in ToSet(spec[s])
      <3>1. i \in 1..n
        BY <1>1
      <3>2. Brings(group[i][k]) \ Loses(op) \subseteq ToSet(h[n][s])
        BY <1>1, <1>2, <1>3, <1>4, <2>7, <2>8, <2>9, <3>1, AppendedEditsSurvive
      <3>3. group[i][k].op = op
        BY <2>5, <2>9
      <3> QED
        BY <1>4, <2>4, <3>2, <3>3 DEF Brings, Loses
    <2> QED
      BY <1>6, <2>9
  <1> QED
    BY <1>5, <1>6

(* MergedEditsSurvive of HarnessPatch: a merged patch holds every edit of    *)
(* the proposals it was merged from, however many they are.                  *)
THEOREM MergingLosesNoEdit == PatchSpec => []MergedEditsSurvive
  BY InitMerge, NextMerge, PatchInvariant, EditsSurvive, PTL DEF PatchSpec
=============================================================================
