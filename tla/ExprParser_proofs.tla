-------------------------- MODULE ExprParser_proofs --------------------------
(***************************************************************************)
(* What holds of the expression parser for every sequence of tokens and    *)
(* any number of failing allocations: its activations are well-formed,     *)
(* every cell has one owner, operators group by their binding powers and   *)
(* spans end where the expression does.                                    *)
(***************************************************************************)
EXTENDS ExprParser, BasicLemmas, FiniteSetTheorems

-----------------------------------------------------------------------------
(* What node_free visits.  A set is closed when it holds the kids of its    *)
(* members; Reach(ns) is the least closed set around ns, provided that ns   *)
(* lies in one.                                                             *)

Closed(h, S) == \A n \in S : Kids(h, n) \subseteq S

\* The first k rounds of the recursion.
Rounds(h, ns, k, f) ==
    f = [i \in 0 .. k |-> IF i = 0 THEN ns ELSE Near(h, f[i - 1])]

LEMMA RoundsExist ==
    ASSUME NEW h, NEW ns, NEW k \in Nat
    PROVE  \E f : Rounds(h, ns, k, f)
<1> DEFINE P(i) == \E f : Rounds(h, ns, i, f)
           Bad == {i \in Nat : ~P(i)}
<1>1. P(0)
  <2>1. Rounds(h, ns, 0, [i \in 0 .. 0 |-> ns])
    BY DEF Rounds
  <2> QED
    BY <2>1
<1>2. ASSUME NEW i \in Nat, P(i)
      PROVE  P(i + 1)
  <2>1. PICK f : Rounds(h, ns, i, f)
    BY <1>2
  <2> DEFINE g == [j \in 0 .. i + 1 |-> IF j = i + 1 THEN Near(h, f[i]) ELSE f[j]]
  <2>2. \A j \in 0 .. i + 1 : g[j] = IF j = 0 THEN ns ELSE Near(h, g[j - 1])
    <3>1. \A j \in 0 .. i : f[j] = IF j = 0 THEN ns ELSE Near(h, f[j - 1])
      BY <2>1 DEF Rounds
    <3>2. \A j \in 0 .. i : g[j] = f[j]
      OBVIOUS
    <3>3. g[i + 1] = Near(h, g[i])
      OBVIOUS
    <3> HIDE DEF g
    <3>4. \A j \in 0 .. i + 1 : j \in 0 .. i \/ j = i + 1
      OBVIOUS
    <3>5. \A j \in 0 .. i : j # 0 => j - 1 \in 0 .. i
      OBVIOUS
    <3>6. ASSUME NEW j \in 0 .. i + 1 PROVE g[j] = IF j = 0 THEN ns ELSE Near(h, g[j - 1])
      <4>1. CASE j = i + 1
        <5>1. j # 0 /\ j - 1 = i
          BY <4>1
        <5> QED
          BY <4>1, <5>1, <3>3
      <4>2. CASE j \in 0 .. i
        BY <4>2, <3>1, <3>2, <3>5
      <4> QED
        BY <3>4, <4>1, <4>2
    <3> QED
      BY <3>6
  <2>3. g = [j \in 0 .. i + 1 |-> IF j = 0 THEN ns ELSE Near(h, g[j - 1])]
    <3>1. g = [j \in 0 .. i + 1 |-> g[j]]
      OBVIOUS
    <3> HIDE DEF g
    <3> QED
      BY <2>2, <3>1
  <2>4. Rounds(h, ns, i + 1, g)
    BY <2>3 DEF Rounds
  <2> QED
    BY <2>4
<1> HIDE DEF P
<1>3. Bad = {}
  <2> SUFFICES ASSUME Bad # {} PROVE FALSE
    OBVIOUS
  <2>1. PICK i \in Bad : \A j \in Bad : i <= j
    <3>1. Bad \subseteq Nat
      OBVIOUS
    <3> HIDE DEF Bad
    <3> QED
      BY <3>1, LeastNumber
  <2>2. i # 0 /\ i \in Nat
    BY <1>1
  <2>3. i - 1 \in Nat /\ i - 1 \notin Bad /\ i = (i - 1) + 1
    BY <2>1, <2>2
  <2>4. P(i - 1)
    BY <2>3
  <2>5. P((i - 1) + 1)
    BY <2>3, <2>4, <1>2
  <2> QED
    BY <2>1, <2>3, <2>5
<1>4. P(k)
  BY <1>3
<1> QED
  BY <1>4 DEF P

LEMMA RoundsAgree ==
    ASSUME NEW h, NEW ns, NEW k \in Nat, NEW m \in Nat, NEW f, NEW g,
           Rounds(h, ns, k, f), Rounds(h, ns, m, g)
    PROVE  \A i \in 0 .. k : i \in 0 .. m => f[i] = g[i]
<1> DEFINE Bad == {i \in Nat : i \in 0 .. k /\ i \in 0 .. m /\ f[i] # g[i]}
<1>1. /\ \A i \in 0 .. k : f[i] = IF i = 0 THEN ns ELSE Near(h, f[i - 1])
      /\ \A i \in 0 .. m : g[i] = IF i = 0 THEN ns ELSE Near(h, g[i - 1])
  BY DEF Rounds
<1>2. Bad = {}
  <2> SUFFICES ASSUME Bad # {} PROVE FALSE
    OBVIOUS
  <2>1. PICK i \in Bad : \A j \in Bad : i <= j
    <3>1. Bad \subseteq Nat
      OBVIOUS
    <3> HIDE DEF Bad
    <3> QED
      BY <3>1, LeastNumber
  <2>2. i \in Nat /\ i \in 0 .. k /\ i \in 0 .. m /\ f[i] # g[i]
    OBVIOUS
  <2>3. i # 0
    BY <1>1, <2>2
  <2>4. i - 1 \in Nat /\ i - 1 \in 0 .. k /\ i - 1 \in 0 .. m /\ i - 1 \notin Bad
    BY <2>1, <2>2, <2>3
  <2>5. f[i - 1] = g[i - 1]
    BY <2>4
  <2> QED
    BY <1>1, <2>2, <2>3, <2>5
<1> QED
  BY <1>2

\* The recursion of node_free is well defined.
LEMMA VisitedRounds ==
    ASSUME NEW h, NEW ns
    PROVE  /\ Visited(h, ns)[0] = ns
           /\ \A k \in Nat : Visited(h, ns)[k + 1] = Near(h, Visited(h, ns)[k])
<1> DEFINE F(k) == CHOOSE f : Rounds(h, ns, k, f)
           V == [k \in Nat |-> F(k)[k]]
           W == CHOOSE g : g = [k \in Nat |-> IF k = 0 THEN ns ELSE Near(h, g[k - 1])]
<1>1. \A k \in Nat : Rounds(h, ns, k, F(k))
  BY RoundsExist
<1> HIDE DEF F
<1>2. \A k \in Nat : V[k] = IF k = 0 THEN ns ELSE Near(h, V[k - 1])
  <2> TAKE k \in Nat
  <2>1. F(k)[k] = IF k = 0 THEN ns ELSE Near(h, F(k)[k - 1])
    <3>1. k \in 0 .. k
      OBVIOUS
    <3> QED
      BY <1>1, <3>1 DEF Rounds
  <2>2. CASE k # 0
    <3>1. k - 1 \in Nat /\ k - 1 \in 0 .. k /\ k - 1 \in 0 .. k - 1
      BY <2>2
    <3>2. Rounds(h, ns, k, F(k)) /\ Rounds(h, ns, k - 1, F(k - 1))
      BY <1>1, <3>1
    <3>3. F(k)[k - 1] = F(k - 1)[k - 1]
      BY <3>1, <3>2, RoundsAgree
    <3> QED
      BY <2>1, <2>2, <3>1, <3>3
  <2>3. CASE k = 0
    BY <2>1, <2>3
  <2> QED
    BY <2>2, <2>3
<1>3. V = [k \in Nat |-> IF k = 0 THEN ns ELSE Near(h, V[k - 1])]
  <2>1. V = [k \in Nat |-> V[k]]
    OBVIOUS
  <2> HIDE DEF V
  <2> QED
    BY <1>2, <2>1
<1>4. Visited(h, ns) = W
  BY DEF Visited
<1>5. W = [k \in Nat |-> IF k = 0 THEN ns ELSE Near(h, W[k - 1])]
  <2> HIDE DEF V
  <2> QED
    BY <1>3, Zenon
<1> HIDE DEF W, V
<1>6. W[0] = ns
  BY <1>5
<1>7. \A k \in Nat : W[k + 1] = Near(h, W[k])
  <2> TAKE k \in Nat
  <2>1. k + 1 \in Nat /\ k + 1 # 0 /\ (k + 1) - 1 = k
    OBVIOUS
  <2> QED
    BY <1>5, <2>1
<1> QED
  BY <1>4, <1>6, <1>7

LEMMA VisitedInside ==
    ASSUME NEW h, NEW ns, NEW S, ns \subseteq S, Closed(h, S)
    PROVE  \A k \in Nat : Visited(h, ns)[k] \subseteq S
<1> DEFINE V == Visited(h, ns)
           Bad == {k \in Nat : ~(V[k] \subseteq S)}
<1>1. V[0] = ns /\ \A k \in Nat : V[k + 1] = Near(h, V[k])
  BY VisitedRounds
<1> HIDE DEF V
<1>2. \A R \in SUBSET S : Near(h, R) \subseteq S
  BY DEF Near, Closed
<1>3. Bad = {}
  <2> SUFFICES ASSUME Bad # {} PROVE FALSE
    OBVIOUS
  <2>1. PICK k \in Bad : \A j \in Bad : k <= j
    <3>1. Bad \subseteq Nat
      OBVIOUS
    <3> HIDE DEF Bad
    <3> QED
      BY <3>1, LeastNumber
  <2>2. k \in Nat /\ ~(V[k] \subseteq S)
    OBVIOUS
  <2>3. k # 0
    BY <1>1, <2>2
  <2>4. k - 1 \in Nat /\ k - 1 \notin Bad /\ k = (k - 1) + 1
    BY <2>1, <2>2, <2>3
  <2>5. V[k - 1] \subseteq S
    BY <2>4
  <2>6. V[k] = Near(h, V[k - 1])
    <3>1. V[(k - 1) + 1] = Near(h, V[k - 1])
      BY <1>1, <2>4
    <3> QED
      BY <2>4, <3>1
  <2> QED
    BY <1>2, <2>2, <2>5, <2>6
<1> QED
  BY <1>3 DEF V

\* As many rounds as there are cells are enough.
LEMMA VisitedClosed ==
    ASSUME NEW h, NEW ns, NEW N \in Nat, NEW S, S \subseteq 1 .. N, ns \subseteq S, Closed(h, S)
    PROVE  Closed(h, Visited(h, ns)[N])
<1> DEFINE V == Visited(h, ns)
<1>1. V[0] = ns /\ \A k \in Nat : V[k + 1] = Near(h, V[k])
  BY VisitedRounds
<1>2. \A k \in Nat : V[k] \subseteq S
  BY VisitedInside
<1> HIDE DEF V
<1>3. \A k \in Nat : V[k] \subseteq V[k + 1]
  BY <1>1 DEF Near
<1>4. \A k \in Nat : V[k + 1] = V[k] => Closed(h, V[k])
  <2> SUFFICES ASSUME NEW k \in Nat, V[k + 1] = V[k], NEW n \in V[k], NEW c \in Kids(h, n)
               PROVE  c \in V[k]
    BY DEF Closed
  <2>1. c \in Near(h, V[k])
    BY DEF Near
  <2> QED
    BY <1>1, <2>1
<1>5. \A k \in Nat : V[k + 1] = V[k] => V[k + 2] = V[k + 1]
  <2> TAKE k \in Nat
  <2>1. k + 1 \in Nat /\ k + 2 = (k + 1) + 1
    OBVIOUS
  <2>2. V[(k + 1) + 1] = Near(h, V[k + 1]) /\ V[k + 1] = Near(h, V[k])
    BY <1>1, <2>1
  <2> QED
    BY <2>1, <2>2
<1>6. IsFiniteSet(1 .. N) /\ Cardinality(1 .. N) = N
  <2>1. 1 \in Int /\ N \in Int /\ (1 > N => N = 0)
    OBVIOUS
  <2>2. IsFiniteSet(1 .. N) /\ Cardinality(1 .. N) = IF 1 > N THEN 0 ELSE N - 1 + 1
    BY <2>1, FS_Interval, Zenon
  <2> QED
    BY <2>1, <2>2
<1>7. \A k \in Nat : /\ IsFiniteSet(V[k]) /\ Cardinality(V[k]) \in Nat
                     /\ Cardinality(V[k]) <= N
                     /\ Cardinality(V[k]) <= Cardinality(V[k + 1])
                     /\ Cardinality(V[k]) = Cardinality(V[k + 1]) => V[k] = V[k + 1]
  <2> TAKE k \in Nat
  <2>1. k + 1 \in Nat /\ V[k] \subseteq 1 .. N /\ V[k + 1] \subseteq 1 .. N /\ V[k] \subseteq V[k + 1]
    <3>1. k + 1 \in Nat
      OBVIOUS
    <3>2. V[k] \subseteq S /\ V[k + 1] \subseteq S
      BY <1>2, <3>1
    <3> QED
      BY <1>3, <3>1, <3>2
  <2>2. IsFiniteSet(V[k]) /\ IsFiniteSet(V[k + 1]) /\ Cardinality(V[k]) <= Cardinality(1 .. N)
    BY <1>6, <2>1, FS_Subset
  <2>3. /\ Cardinality(V[k]) <= Cardinality(V[k + 1])
        /\ Cardinality(V[k]) = Cardinality(V[k + 1]) => V[k] = V[k + 1]
    BY <2>1, <2>2, FS_Subset
  <2>4. Cardinality(V[k]) \in Nat
    BY <2>2, FS_CardinalityType
  <2> QED
    BY <1>6, <2>2, <2>3, <2>4
\* While the sets grow, the k-th has k members or more.
<1> DEFINE Grew(k) == Cardinality(V[k]) < k /\ k <= N + 1
           Bad == {k \in Nat : Grew(k)}
<1>8. CASE \E k \in 0 .. N : V[k + 1] = V[k]
  <2> DEFINE Still == {k \in Nat : k <= N /\ V[k + 1] = V[k]}
  <2>1. PICK k \in Still : \A j \in Still : j <= k
    <3>1. Still \subseteq 0 .. N /\ Still # {}
      BY <1>8
    <3> HIDE DEF Still
    <3> QED
      BY <3>1, GreatestNumber
  <2>2. k \in Nat /\ k <= N /\ V[k + 1] = V[k]
    OBVIOUS
  <2>3. k = N
    <3> SUFFICES ASSUME k # N PROVE FALSE
      OBVIOUS
    <3>1. k + 1 \in Nat /\ k + 1 <= N /\ (k + 1) + 1 = k + 2
      BY <2>2
    <3>2. V[(k + 1) + 1] = V[k + 1]
      BY <1>5, <2>2, <3>1
    <3>3. k + 1 \in Still
      BY <3>1, <3>2
    <3> QED
      BY <2>1, <2>2, <3>3
  <2> QED
    BY <1>4, <2>2, <2>3 DEF V
<1>9. CASE \A k \in 0 .. N : V[k + 1] # V[k]
  <2>1. Bad = {}
    <3> SUFFICES ASSUME Bad # {} PROVE FALSE
      OBVIOUS
    <3>1. PICK k \in Bad : \A j \in Bad : k <= j
      <4>1. Bad \subseteq Nat
        OBVIOUS
      <4> HIDE DEF Bad
      <4> QED
        BY <4>1, LeastNumber
    <3>2. k \in Nat /\ Cardinality(V[k]) < k /\ k <= N + 1
      OBVIOUS
    <3>3. k # 0
      BY <1>7, <3>2
    <3>4. k - 1 \in Nat /\ k - 1 \in 0 .. N /\ k - 1 \notin Bad /\ (k - 1) + 1 = k
      BY <3>1, <3>2, <3>3
    <3>5. ~(Cardinality(V[k - 1]) < k - 1)
      BY <3>2, <3>4
    <3>6. V[(k - 1) + 1] # V[k - 1]
      BY <1>9, <3>4
    <3>7. /\ Cardinality(V[k - 1]) <= Cardinality(V[(k - 1) + 1])
          /\ Cardinality(V[k - 1]) # Cardinality(V[(k - 1) + 1])
          /\ Cardinality(V[k - 1]) \in Nat /\ Cardinality(V[k]) \in Nat
      BY <1>7, <3>2, <3>4, <3>6
    <3> HIDE DEF Bad
    <3> QED
      BY <3>2, <3>4, <3>5, <3>7
  <2>2. N + 1 \in Nat /\ N + 1 \notin Bad
    BY <2>1
  <2>3. ~(Cardinality(V[N + 1]) < N + 1)
    BY <2>2
  <2>4. Cardinality(V[N + 1]) <= N /\ Cardinality(V[N + 1]) \in Nat
    BY <1>7, <2>2
  <2> HIDE DEF Bad
  <2> QED
    BY <2>3, <2>4
<1> QED
  BY <1>8, <1>9

LEMMA ReachLeast ==
    ASSUME NEW h, NEW ns, NEW N \in Nat, NEW S, S \subseteq 1 .. N, ns \subseteq S, Closed(h, S)
    PROVE  LET R == Visited(h, ns)[N] IN
           /\ ns \subseteq R /\ R \subseteq S /\ Closed(h, R)
           /\ \A c \in R : c \in ns \/ \E n \in R : c \in Kids(h, n)
<1> DEFINE R == Visited(h, ns)[N]
<1>1. Closed(h, R) /\ R \subseteq S
  BY VisitedClosed, VisitedInside
<1>2. ns \subseteq R
  <2> DEFINE V == Visited(h, ns)
             Bad == {k \in Nat : ~(ns \subseteq V[k])}
  <2>1. V[0] = ns /\ \A k \in Nat : V[k + 1] = Near(h, V[k])
    BY VisitedRounds
  <2> HIDE DEF V
  <2>2. \A k \in Nat : V[k] \subseteq V[k + 1]
    BY <2>1 DEF Near
  <2>3. Bad = {}
    <3> SUFFICES ASSUME Bad # {} PROVE FALSE
      OBVIOUS
    <3>1. PICK k \in Bad : \A j \in Bad : k <= j
      <4>1. Bad \subseteq Nat
        OBVIOUS
      <4> HIDE DEF Bad
      <4> QED
        BY <4>1, LeastNumber
    <3>2. k \in Nat /\ k # 0 /\ ~(ns \subseteq V[k])
      BY <2>1
    <3>3. k - 1 \in Nat /\ k - 1 \notin Bad /\ (k - 1) + 1 = k
      BY <3>1, <3>2
    <3>4. ns \subseteq V[k - 1] /\ V[k - 1] \subseteq V[(k - 1) + 1]
      BY <2>2, <3>3
    <3> QED
      BY <3>2, <3>3, <3>4
  <2>4. ns \subseteq V[N]
    BY <2>3
  <2> QED
    BY <2>4 DEF V
<1> DEFINE Q == {c \in R : c \in ns \/ \E n \in R : c \in Kids(h, n)}
<1>3. ns \subseteq Q /\ Closed(h, Q)
  <2> HIDE DEF R
  <2> QED
    BY <1>1, <1>2 DEF Closed
<1>4. R \subseteq Q
  <2> HIDE DEF Q
  <2> QED
    BY <1>3, VisitedInside
<1> QED
  BY <1>1, <1>2, <1>4

-----------------------------------------------------------------------------
(* Owners.  The cells in use form a forest: each is a root, or the kid of   *)
(* one node in use, and none is out of the roots' reach.  A root is in hand *)
(* (the node a function returns, and what the activation it returned to     *)
(* held), or a live activation holds it.                                    *)

Injective(s) == \A i, j \in DOMAIN s : s[i] = s[j] => i = j
Of(s) == {s[i] : i \in DOMAIN s}
Ids(h) == 1 .. Len(h)

Forest(h, fr, R) ==
    LET live == Ids(h) \ fr IN
    /\ fr \subseteq Ids(h) /\ R \subseteq live
    /\ \A n \in live : Kids(h, n) \subseteq live /\ Kids(h, n) \cap R = {} /\ Injective(h[n].kids)
    /\ \A n, m \in live : n # m => Kids(h, n) \cap Kids(h, m) = {}
    /\ \A c \in live : c \in R \/ \E n \in live : c \in Kids(h, n)
    /\ \A S \in SUBSET live : R \subseteq S /\ Closed(h, S) => S = live

Held(cs) == UNION {Owned(cs[k]) : k \in DOMAIN cs}

Apart(cs, E) ==
    /\ \A k \in DOMAIN cs : Injective(cs[k].own) /\ Owned(cs[k]) \cap E = {}
    /\ \A k, l \in DOMAIN cs : k # l => Owned(cs[k]) \cap Owned(cs[l]) = {}

OneOwner(h, fr, cs, E) == Forest(h, fr, E \cup Held(cs)) /\ Apart(cs, E)

\* Giving cells back leaves the forest of the others.
LEMMA ForestFree ==
    ASSUME NEW h, Len(h) \in Nat, NEW fr, NEW R, Forest(h, fr, R), NEW ns, ns \subseteq R
    PROVE  Forest(h, fr \cup Visited(h, ns)[Len(h)], R \ ns)
<1> DEFINE X == Visited(h, ns)[Len(h)]
           live == Ids(h) \ fr
           rest == Ids(h) \ (fr \cup X)
<1>1. ns \subseteq live /\ Closed(h, live) /\ live \subseteq 1 .. Len(h)
  BY DEF Forest, Closed, Ids
<1>2. /\ ns \subseteq X /\ X \subseteq live /\ Closed(h, X)
      /\ \A c \in X : c \in ns \/ \E n \in X : c \in Kids(h, n)
  <2> HIDE DEF live
  <2> QED
    BY <1>1, ReachLeast
<1> HIDE DEF X
<1>3. rest = live \ X
  OBVIOUS
<1>4. \A n \in rest : Kids(h, n) \cap X = {}
  <2> SUFFICES ASSUME NEW n \in rest, NEW c \in Kids(h, n), c \in X PROVE FALSE
    OBVIOUS
  <2>1. n \in live /\ n \notin X /\ c \notin R
    BY DEF Forest
  <2>2. PICK m \in X : c \in Kids(h, m)
    BY <1>2, <2>1
  <2>3. m \in live /\ m # n
    BY <1>2, <2>1
  <2> QED
    BY <2>1, <2>2, <2>3 DEF Forest
<1>5. fr \cup X \subseteq Ids(h)
  BY <1>2 DEF Forest
<1>6. R \ ns \subseteq rest
  <2> SUFFICES ASSUME NEW c \in R, c \in X PROVE c \in ns
    BY DEF Forest
  <2>1. c \in live /\ \A n \in live : c \notin Kids(h, n)
    BY DEF Forest
  <2> QED
    BY <1>2, <2>1
<1>7. \A n \in rest : /\ Kids(h, n) \subseteq rest /\ Kids(h, n) \cap (R \ ns) = {}
                      /\ Injective(h[n].kids)
  BY <1>3, <1>4 DEF Forest
<1>8. \A n, m \in rest : n # m => Kids(h, n) \cap Kids(h, m) = {}
  BY <1>3 DEF Forest
<1>9. \A c \in rest : c \in R \ ns \/ \E n \in rest : c \in Kids(h, n)
  <2> SUFFICES ASSUME NEW c \in rest, c \notin R \ ns PROVE \E n \in rest : c \in Kids(h, n)
    OBVIOUS
  <2>1. c \in live /\ c \notin X /\ c \notin R
    BY <1>2, <1>3
  <2>2. PICK n \in live : c \in Kids(h, n)
    BY <2>1 DEF Forest
  <2>3. n \notin X
    BY <1>2, <2>1, <2>2 DEF Closed
  <2> QED
    BY <1>3, <2>2, <2>3
<1>10. \A S \in SUBSET rest : R \ ns \subseteq S /\ Closed(h, S) => S = rest
  <2> SUFFICES ASSUME NEW S \in SUBSET rest, R \ ns \subseteq S, Closed(h, S) PROVE rest \subseteq S
    OBVIOUS
  <2> DEFINE W == S \cup X
  <2>1. W \in SUBSET live /\ R \subseteq W
    BY <1>2, <1>3
  <2>2. Closed(h, W)
    BY <1>2 DEF Closed
  <2>3. W = live
    <3> HIDE DEF W, live
    <3>1. \A P \in SUBSET live : R \subseteq P /\ Closed(h, P) => P = live
      BY DEF Forest, live
    <3> QED
      BY <2>1, <2>2, <3>1
  <2> QED
    BY <1>3, <2>3
<1> QED
  BY <1>5, <1>6, <1>7, <1>8, <1>9, <1>10 DEF Forest, X

LEMMA OfJoined ==
    ASSUME NEW a \in Seq(Nat), NEW b \in Seq(Nat)
    PROVE  /\ Of(a \o b) = Of(a) \cup Of(b)
           /\ Injective(a) /\ Injective(b) /\ Of(a) \cap Of(b) = {} => Injective(a \o b)
<1>1. /\ DOMAIN a = 1 .. Len(a) /\ Len(a) \in Nat /\ DOMAIN b = 1 .. Len(b) /\ Len(b) \in Nat
      /\ DOMAIN (a \o b) = 1 .. Len(a) + Len(b)
      /\ \A i \in 1 .. Len(a) : (a \o b)[i] = a[i]
      /\ \A i \in 1 .. Len(b) : (a \o b)[Len(a) + i] = b[i]
  OBVIOUS
<1> DEFINE ab == a \o b
<1> HIDE DEF ab
<1>2. \A i \in DOMAIN ab : i \in DOMAIN a \/ \E j \in DOMAIN b : i = Len(a) + j
  <2> SUFFICES ASSUME NEW i \in 1 .. Len(a) + Len(b), i \notin 1 .. Len(a)
               PROVE  \E j \in 1 .. Len(b) : i = Len(a) + j
    BY <1>1 DEF ab
  <2>1. i - Len(a) \in 1 .. Len(b) /\ i = Len(a) + (i - Len(a))
    BY <1>1
  <2> QED
    BY <2>1
<1>3. /\ \A i \in DOMAIN a : i \in DOMAIN ab /\ ab[i] = a[i]
      /\ \A j \in DOMAIN b : Len(a) + j \in DOMAIN ab /\ ab[Len(a) + j] = b[j]
  BY <1>1 DEF ab
<1>4. Of(ab) = Of(a) \cup Of(b)
  <2>1. Of(ab) \subseteq Of(a) \cup Of(b)
    <3> SUFFICES ASSUME NEW i \in DOMAIN ab PROVE ab[i] \in Of(a) \cup Of(b)
      BY DEF Of
    <3> QED
      BY <1>2, <1>3 DEF Of
  <2>2. Of(a) \subseteq Of(ab) /\ Of(b) \subseteq Of(ab)
    BY <1>3 DEF Of
  <2> QED
    BY <2>1, <2>2
<1>5. ASSUME Injective(a), Injective(b), Of(a) \cap Of(b) = {}
      PROVE  Injective(ab)
  <2> SUFFICES ASSUME NEW i \in DOMAIN ab, NEW j \in DOMAIN ab, ab[i] = ab[j] PROVE i = j
    BY DEF Injective
  <2>1. \A x \in DOMAIN a, y \in DOMAIN b : a[x] # b[y]
    BY <1>5 DEF Of
  <2>2. CASE i \in DOMAIN a /\ j \in DOMAIN a
    BY <1>3, <1>5, <2>2 DEF Injective
  <2>3. CASE i \notin DOMAIN a /\ j \notin DOMAIN a
    <3>1. PICK x \in DOMAIN b : i = Len(a) + x
      BY <1>2, <2>3
    <3>2. PICK y \in DOMAIN b : j = Len(a) + y
      BY <1>2, <2>3
    <3>3. b[x] = b[y]
      BY <1>3, <3>1, <3>2
    <3> QED
      BY <1>5, <3>1, <3>2, <3>3 DEF Injective
  <2>4. CASE i \in DOMAIN a /\ j \notin DOMAIN a
    BY <1>2, <1>3, <2>1, <2>4
  <2>5. CASE i \notin DOMAIN a /\ j \in DOMAIN a
    BY <1>2, <1>3, <2>1, <2>5
  <2> QED
    BY <2>2, <2>3, <2>4, <2>5
<1> QED
  BY <1>4, <1>5 DEF ab

LEMMA ForestBuild ==
    ASSUME NEW h \in Seq(Nodes), NEW fr, NEW R, Forest(h, fr, R),
           NEW node \in Nodes, Of(node.kids) \subseteq R, Injective(node.kids)
    PROVE  Forest(Append(h, node), fr, (R \ Of(node.kids)) \cup {Len(h) + 1})
<1> DEFINE g == Append(h, node)
           new == Len(h) + 1
           live == Ids(h) \ fr
           Q == (R \ Of(node.kids)) \cup {new}
<1>1. /\ Len(g) = Len(h) + 1 /\ Len(h) \in Nat /\ g[new] = node
      /\ \A n \in 1 .. Len(h) : g[n] = h[n]
  BY StackPush, ElementType
<1>2. Ids(g) = Ids(h) \cup {new} /\ new \notin Ids(h)
  <2> HIDE DEF g
  <2> QED
    BY <1>1 DEF Ids
<1>3. /\ \A n \in Ids(h) : g[n].kids = h[n].kids /\ Kids(g, n) = Kids(h, n)
      /\ g[new].kids = node.kids /\ Kids(g, new) = Of(node.kids)
  <2> HIDE DEF g
  <2> QED
    BY <1>1 DEF Kids, Ids, Of
<1> HIDE DEF g, new
<1>4. fr \subseteq Ids(h) /\ R \subseteq live
  BY DEF Forest
<1>5. Ids(g) \ fr = live \cup {new} /\ new \notin live
  BY <1>2, <1>4
<1>6. Q \subseteq Ids(g) \ fr /\ fr \subseteq Ids(g)
  BY <1>2, <1>4, <1>5
<1>7. \A n \in Ids(g) \ fr :
         Kids(g, n) \subseteq Ids(g) \ fr /\ Kids(g, n) \cap Q = {} /\ Injective(g[n].kids)
  <2> SUFFICES ASSUME NEW n \in live \cup {new}
               PROVE  Kids(g, n) \subseteq live /\ Kids(g, n) \cap Q = {} /\ Injective(g[n].kids)
    BY <1>5
  <2>1. CASE n = new
    BY <1>3, <1>4, <1>5, <2>1
  <2>2. CASE n \in live
    <3>1. Kids(g, n) = Kids(h, n) /\ g[n].kids = h[n].kids
      BY <1>3, <2>2
    <3> QED
      BY <1>5, <2>2, <3>1 DEF Forest
  <2> QED
    BY <2>1, <2>2
<1>8. \A n, m \in Ids(g) \ fr : n # m => Kids(g, n) \cap Kids(g, m) = {}
  <2>1. \A n, m \in live : n # m => Kids(g, n) \cap Kids(g, m) = {}
    BY <1>3 DEF Forest
  <2>2. \A n \in live : Kids(g, n) \cap Kids(g, new) = {}
    BY <1>3 DEF Forest
  <2> QED
    BY <1>5, <2>1, <2>2
<1>9. \A c \in Ids(g) \ fr : c \in Q \/ \E n \in Ids(g) \ fr : c \in Kids(g, n)
  <2> SUFFICES ASSUME NEW c \in live, c \notin Q PROVE \E n \in live \cup {new} : c \in Kids(g, n)
    BY <1>5
  <2>1. CASE c \in R
    BY <1>3, <2>1
  <2>2. CASE c \notin R
    <3>1. PICK n \in live : c \in Kids(h, n)
      BY <2>2 DEF Forest
    <3> QED
      BY <1>3, <3>1
  <2> QED
    BY <2>1, <2>2
<1>10. \A S \in SUBSET (Ids(g) \ fr) : Q \subseteq S /\ Closed(g, S) => S = Ids(g) \ fr
  <2> SUFFICES ASSUME NEW S, S \subseteq live \cup {new}, Q \subseteq S, Closed(g, S)
               PROVE  S = live \cup {new}
    BY <1>5
  <2> DEFINE W == S \ {new}
  <2>1. Of(node.kids) \subseteq S
    BY <1>3 DEF Closed
  <2>2. W \in SUBSET live /\ R \subseteq W
    BY <1>4, <1>5, <2>1
  <2>3. Closed(h, W)
    <3> SUFFICES ASSUME NEW n \in W PROVE Kids(h, n) \subseteq W
      BY DEF Closed
    <3>1. n \in live /\ n \in S
      BY <2>2
    <3>2. Kids(h, n) \subseteq S
      BY <1>3, <3>1 DEF Closed
    <3>3. Kids(h, n) \subseteq live
      BY <3>1 DEF Forest
    <3> QED
      BY <1>5, <3>2, <3>3
  <2>4. W = live
    <3> HIDE DEF W, live
    <3>1. \A P \in SUBSET live : R \subseteq P /\ Closed(h, P) => P = live
      BY DEF Forest, live
    <3> QED
      BY <2>2, <2>3, <3>1
  <2> QED
    BY <2>4
<1> QED
  BY <1>6, <1>7, <1>8, <1>9, <1>10 DEF Forest, g, new

LEMMA ForestAdopt ==
    ASSUME NEW h \in Seq(Nodes), NEW fr, NEW R, Forest(h, fr, R),
           NEW n \in R, NEW ks \in Seq(Nat), Of(ks) \subseteq R \ {n}, Injective(ks),
           NEW g, Len(g) = Len(h), \A m \in Ids(h) \ {n} : g[m].kids = h[m].kids,
           g[n].kids = h[n].kids \o ks
    PROVE  Forest(g, fr, R \ Of(ks))
<1> DEFINE live == Ids(h) \ fr
<1>1. Ids(g) = Ids(h) /\ n \in live /\ n \in Ids(h) /\ R \subseteq live /\ fr \subseteq Ids(h)
  BY DEF Forest, Ids
<1>2. h[n].kids \in Seq(Nat)
  <2>1. h[n] \in Nodes
    BY <1>1, ElementType DEF Ids
  <2> QED
    BY <2>1 DEF Nodes
<1>3. Kids(h, n) = Of(h[n].kids) /\ Kids(g, n) = Of(h[n].kids \o ks)
  BY DEF Kids, Of
<1>4. Kids(g, n) = Kids(h, n) \cup Of(ks)
  BY <1>2, <1>3, OfJoined
<1>5. Injective(g[n].kids)
  <2>1. Injective(h[n].kids) /\ Of(h[n].kids) \cap Of(ks) = {}
    BY <1>1, <1>3 DEF Forest
  <2> QED
    BY <1>2, <2>1, OfJoined
<1>6. \A m \in Ids(h) : m # n => Kids(g, m) = Kids(h, m) /\ g[m].kids = h[m].kids
  BY DEF Kids
<1>7. \A m \in live : /\ Kids(g, m) \subseteq live /\ Kids(g, m) \cap (R \ Of(ks)) = {}
                      /\ Injective(g[m].kids)
  <2> TAKE m \in live
  <2>1. CASE m = n
    BY <1>1, <1>4, <1>5, <2>1 DEF Forest
  <2>2. CASE m # n
    BY <1>6, <2>2 DEF Forest
  <2> QED
    BY <2>1, <2>2
<1>8. \A m \in live : m # n => Kids(g, m) \cap Kids(g, n) = {}
  <2> SUFFICES ASSUME NEW m \in live, m # n PROVE Kids(h, m) \cap (Kids(h, n) \cup Of(ks)) = {}
    BY <1>4, <1>6
  <2>1. Kids(h, m) \cap R = {} /\ Kids(h, m) \cap Kids(h, n) = {}
    BY <1>1 DEF Forest
  <2> QED
    BY <2>1
<1>9. \A m, l \in live : m # l => Kids(g, m) \cap Kids(g, l) = {}
  <2>1. \A m, l \in live : m # l /\ m # n /\ l # n => Kids(g, m) \cap Kids(g, l) = {}
    BY <1>6 DEF Forest
  <2> QED
    BY <1>8, <2>1
<1>10. \A c \in live : c \in R \ Of(ks) \/ \E m \in live : c \in Kids(g, m)
  <2> SUFFICES ASSUME NEW c \in live, c \notin Of(ks), c \notin R PROVE \E m \in live : c \in Kids(g, m)
    BY <1>1, <1>4
  <2>1. PICK m \in live : c \in Kids(h, m)
    BY DEF Forest
  <2>2. c \in Kids(g, m)
    BY <1>4, <1>6, <2>1
  <2> QED
    BY <2>1, <2>2
<1>11. \A S \in SUBSET live : R \ Of(ks) \subseteq S /\ Closed(g, S) => S = live
  <2> SUFFICES ASSUME NEW S \in SUBSET live, R \ Of(ks) \subseteq S, Closed(g, S) PROVE S = live
    OBVIOUS
  <2>1. R \subseteq S
    <3>1. n \in S
      OBVIOUS
    <3> QED
      BY <1>4, <3>1 DEF Closed
  <2>2. Closed(h, S)
    <3>1. \A m \in S : Kids(h, m) \subseteq Kids(g, m)
      BY <1>4, <1>6
    <3> QED
      BY <3>1 DEF Closed
  <2> HIDE DEF live
  <2>3. \A P \in SUBSET live : R \subseteq P /\ Closed(h, P) => P = live
    BY DEF Forest, live
  <2> QED
    BY <2>1, <2>2, <2>3
<1> QED
  BY <1>1, <1>7, <1>9, <1>10, <1>11 DEF Forest

LEMMA ForestTouch ==
    ASSUME NEW h, NEW fr, NEW R, Forest(h, fr, R),
           NEW g, Len(g) = Len(h), \A m \in Ids(h) : g[m].kids = h[m].kids
    PROVE  Forest(g, fr, R)
<1>1. Ids(g) = Ids(h) /\ \A m \in Ids(h) : Kids(g, m) = Kids(h, m)
  BY DEF Ids, Kids
<1> DEFINE live == Ids(h) \ fr
<1>2. \A S \in SUBSET live : R \subseteq S /\ Closed(g, S) => S = live
  <2> SUFFICES ASSUME NEW S \in SUBSET live, R \subseteq S, Closed(g, S) PROVE S = live
    OBVIOUS
  <2>1. Closed(h, S)
    BY <1>1 DEF Closed
  <2> HIDE DEF live
  <2>2. \A P \in SUBSET live : R \subseteq P /\ Closed(h, P) => P = live
    BY DEF Forest, live
  <2> QED
    BY <2>1, <2>2
<1> QED
  BY <1>1, <1>2 DEF Forest

\* A stack without its top, and its top.
Under(cs) == SubSeq(cs, 1, Len(cs) - 1)
Upper(cs) == cs[Len(cs)]

\* A function that returns hands what it holds to the step that pops it.
LEMMA OwnerPop ==
    ASSUME NEW h, NEW fr, NEW cs \in Seq(Frames), cs # <<>>, NEW E, OneOwner(h, fr, cs, E)
    PROVE  /\ OneOwner(h, fr, Under(cs), E \cup Owned(Upper(cs)))
           /\ Injective(Upper(cs).own) /\ Owned(Upper(cs)) \cap E = {}
<1> DEFINE t == Under(cs)
           f == Upper(cs)
<1>1. /\ Len(cs) \in Nat /\ Len(cs) >= 1 /\ DOMAIN cs = 1 .. Len(cs)
      /\ t \in Seq(Frames) /\ Len(t) = Len(cs) - 1 /\ \A i \in 1 .. Len(cs) - 1 : t[i] = cs[i]
  BY StackTop, StackPop DEF Under
<1>2. DOMAIN t = 1 .. Len(cs) - 1
  BY <1>1, ElementType
<1> HIDE DEF t
<1>3. /\ Len(cs) \in DOMAIN cs /\ Len(cs) \notin DOMAIN t
      /\ \A k \in DOMAIN cs : k = Len(cs) \/ k \in DOMAIN t
      /\ \A k \in DOMAIN t : k \in DOMAIN cs /\ t[k] = cs[k]
  BY <1>1, <1>2
<1>4. Held(cs) = Held(t) \cup Owned(f)
  BY <1>3 DEF Held, Upper
<1>5. E \cup Held(cs) = (E \cup Owned(f)) \cup Held(t)
  BY <1>4
<1>6. /\ \A k \in DOMAIN t : Injective(t[k].own) /\ Owned(t[k]) \cap E = {}
                             /\ Owned(t[k]) \cap Owned(f) = {}
      /\ \A k, l \in DOMAIN t : k # l => Owned(t[k]) \cap Owned(t[l]) = {}
      /\ Injective(f.own) /\ Owned(f) \cap E = {}
  BY <1>3 DEF OneOwner, Apart, Upper
<1>7. Apart(t, E \cup Owned(f))
  BY <1>6 DEF Apart
<1>8. Forest(h, fr, (E \cup Owned(f)) \cup Held(t))
  BY <1>5 DEF OneOwner
<1> QED
  BY <1>6, <1>7, <1>8 DEF OneOwner, t, f

\* A function that calls another, or goes on, holds what the step leaves it.
LEMMA OwnerPush ==
    ASSUME NEW h, NEW fr, NEW cs \in Seq(Frames), NEW E, OneOwner(h, fr, cs, E),
           NEW f \in Frames, Owned(f) \subseteq E, Injective(f.own)
    PROVE  OneOwner(h, fr, Append(cs, f), E \ Owned(f))
<1> DEFINE t == Append(cs, f)
<1>1. /\ Len(cs) \in Nat /\ DOMAIN cs = 1 .. Len(cs)
      /\ t \in Seq(Frames) /\ Len(t) = Len(cs) + 1 /\ t[Len(cs) + 1] = f
      /\ \A i \in 1 .. Len(cs) : t[i] = cs[i]
  BY ElementType, StackPush
<1>2. DOMAIN t = 1 .. Len(cs) + 1
  BY <1>1, ElementType
<1> HIDE DEF t
<1> DEFINE new == Len(cs) + 1
<1>3. /\ t[new] = f /\ new \in DOMAIN t /\ new \notin DOMAIN cs
      /\ \A k \in DOMAIN t : k = new \/ k \in DOMAIN cs
      /\ \A k \in DOMAIN cs : k \in DOMAIN t /\ t[k] = cs[k]
  BY <1>1, <1>2
<1> HIDE DEF new
<1>4. Held(t) = Held(cs) \cup Owned(f)
  BY <1>3 DEF Held
<1>5. E \cup Held(cs) = (E \ Owned(f)) \cup Held(t)
  BY <1>4
<1>6. \A k \in DOMAIN t : Injective(t[k].own) /\ Owned(t[k]) \cap (E \ Owned(f)) = {}
  BY <1>3 DEF OneOwner, Apart
<1>7. \A k, l \in DOMAIN t : k # l => Owned(t[k]) \cap Owned(t[l]) = {}
  <2>1. \A k, l \in DOMAIN cs : k # l => Owned(t[k]) \cap Owned(t[l]) = {}
    BY <1>3 DEF OneOwner, Apart
  <2>2. \A k \in DOMAIN cs : Owned(t[k]) \cap Owned(f) = {}
    BY <1>3 DEF OneOwner, Apart
  <2> QED
    BY <1>3, <2>1, <2>2
<1>8. Apart(t, E \ Owned(f))
  BY <1>6, <1>7 DEF Apart
<1>9. Forest(h, fr, (E \ Owned(f)) \cup Held(t))
  BY <1>5 DEF OneOwner
<1> QED
  BY <1>8, <1>9 DEF OneOwner, t

\* The roots in hand lie apart from what the activations hold.
LEMMA HandApart ==
    ASSUME NEW h, NEW fr, NEW cs, NEW E, OneOwner(h, fr, cs, E)
    PROVE  /\ E \cap Held(cs) = {} /\ E \subseteq Ids(h) \ fr /\ Held(cs) \subseteq Ids(h) \ fr
           /\ fr \subseteq Ids(h)
<1>1. E \cap Held(cs) = {}
  BY DEF OneOwner, Apart, Held
<1> QED
  BY <1>1 DEF OneOwner, Forest

\* Fewer in hand lie apart still, and so do new ones.
LEMMA ApartOther ==
    ASSUME NEW cs, NEW E, Apart(cs, E), NEW E2, E2 \cap Held(cs) = {}
    PROVE  Apart(cs, E2)
<1>1. \A k \in DOMAIN cs : Owned(cs[k]) \subseteq Held(cs)
  BY DEF Held
<1> QED
  BY <1>1 DEF Apart

LEMMA OwnerBuild ==
    ASSUME NEW h \in Seq(Nodes), NEW fr, NEW cs, NEW E, OneOwner(h, fr, cs, E),
           NEW node \in Nodes, Of(node.kids) \subseteq E, Injective(node.kids)
    PROVE  OneOwner(Append(h, node), fr, cs, (E \ Of(node.kids)) \cup {Len(h) + 1})
<1> DEFINE new == Len(h) + 1
<1>1. E \cap Held(cs) = {} /\ Held(cs) \subseteq Ids(h)
  BY HandApart
<1>2. new \notin Ids(h)
  <2>1. Len(h) \in Nat
    BY ElementType
  <2> QED
    BY <2>1 DEF Ids
<1> HIDE DEF new
<1>3. ((E \cup Held(cs)) \ Of(node.kids)) \cup {new} = ((E \ Of(node.kids)) \cup {new}) \cup Held(cs)
  BY <1>1
<1>4. Forest(Append(h, node), fr, ((E \cup Held(cs)) \ Of(node.kids)) \cup {new})
  BY ForestBuild DEF OneOwner, new
<1>5. Apart(cs, (E \ Of(node.kids)) \cup {new})
  <2>1. ((E \ Of(node.kids)) \cup {new}) \cap Held(cs) = {}
    BY <1>1, <1>2
  <2> QED
    BY <2>1, ApartOther DEF OneOwner
<1> QED
  BY <1>3, <1>4, <1>5 DEF OneOwner, new

LEMMA OwnerAdopt ==
    ASSUME NEW h \in Seq(Nodes), NEW fr, NEW cs, NEW E, OneOwner(h, fr, cs, E),
           NEW n \in E, NEW ks \in Seq(Nat), Of(ks) \subseteq E \ {n}, Injective(ks),
           NEW g, Len(g) = Len(h), \A m \in Ids(h) \ {n} : g[m].kids = h[m].kids,
           g[n].kids = h[n].kids \o ks
    PROVE  OneOwner(g, fr, cs, E \ Of(ks))
<1>1. E \cap Held(cs) = {}
  BY HandApart
<1>2. (E \cup Held(cs)) \ Of(ks) = (E \ Of(ks)) \cup Held(cs)
  BY <1>1
<1>3. Forest(g, fr, (E \cup Held(cs)) \ Of(ks))
  <2> DEFINE R == E \cup Held(cs)
  <2>1. Forest(h, fr, R) /\ n \in R /\ Of(ks) \subseteq R \ {n}
    BY DEF OneOwner
  <2> HIDE DEF R
  <2>2. Forest(g, fr, R \ Of(ks))
    BY <2>1, ForestAdopt
  <2> QED
    BY <2>2 DEF R
<1>4. Apart(cs, E \ Of(ks))
  <2>1. (E \ Of(ks)) \cap Held(cs) = {}
    BY <1>1
  <2> QED
    BY <2>1, ApartOther DEF OneOwner
<1> QED
  BY <1>2, <1>3, <1>4 DEF OneOwner

LEMMA OwnerFree ==
    ASSUME NEW h \in Seq(Nodes), NEW fr, NEW cs, NEW E, OneOwner(h, fr, cs, E),
           NEW ns, ns \subseteq E
    PROVE  OneOwner(h, fr \cup Visited(h, ns)[Len(h)], cs, E \ ns)
<1>1. E \cap Held(cs) = {} /\ Len(h) \in Nat
  BY HandApart, ElementType
<1>2. (E \cup Held(cs)) \ ns = (E \ ns) \cup Held(cs)
  BY <1>1
<1>3. Forest(h, fr \cup Visited(h, ns)[Len(h)], (E \cup Held(cs)) \ ns)
  BY <1>1, ForestFree DEF OneOwner
<1>4. Apart(cs, E \ ns)
  <2>1. (E \ ns) \cap Held(cs) = {}
    BY <1>1
  <2> QED
    BY <2>1, ApartOther DEF OneOwner
<1> QED
  BY <1>2, <1>3, <1>4 DEF OneOwner

\* One owner for each cell in use, as places that are counted.
LEMMA CountedOnce ==
    ASSUME OneOwner(heap, freed, calls, {val} \ {0}), Len(heap) \in Nat, Over => calls = <<>>
    PROVE  OwnedOnce
<1> DEFINE E == {val} \ {0}
           live == Cells \ freed
<1>1. /\ E \cap Held(calls) = {} /\ E \subseteq live
      /\ Held(calls) \subseteq live /\ freed \subseteq Cells
      /\ Forest(heap, freed, E \cup Held(calls)) /\ Apart(calls, E)
  BY HandApart DEF OneOwner, Ids, Cells
<1>2. /\ \A n \in live : Kids(heap, n) \subseteq live /\ Kids(heap, n) \cap (E \cup Held(calls)) = {}
                         /\ Injective(heap[n].kids)
      /\ \A n, m \in live : n # m => Kids(heap, n) \cap Kids(heap, m) = {}
      /\ \A c \in live : c \in E \/ c \in Held(calls) \/ \E n \in live : c \in Kids(heap, n)
  BY <1>1 DEF Forest, Ids, Cells
<1>3. \A c \in Cells : \A p : p \in NodeOwners(c) <=>
         \E n \in live : \E i \in DOMAIN heap[n].kids : p = <<n, i>> /\ heap[n].kids[i] = c
  <2> TAKE c \in Cells
  <2> TAKE p
  <2>1. ASSUME p \in NodeOwners(c)
        PROVE  \E n \in live : \E i \in DOMAIN heap[n].kids : p = <<n, i>> /\ heap[n].kids[i] = c
    BY <2>1 DEF NodeOwners
  <2>2. ASSUME NEW n \in live, NEW i \in DOMAIN heap[n].kids, p = <<n, i>>, heap[n].kids[i] = c
        PROVE  p \in NodeOwners(c)
    BY <2>2 DEF NodeOwners
  <2> QED
    BY <2>1, <2>2
<1>4. \A c \in Cells : \A p : p \in CallOwners(c) <=>
         \E k \in DOMAIN calls : \E i \in DOMAIN calls[k].own : p = <<k, i>> /\ calls[k].own[i] = c
  <2> TAKE c \in Cells
  <2> TAKE p
  <2>1. ASSUME p \in CallOwners(c)
        PROVE  \E k \in DOMAIN calls : \E i \in DOMAIN calls[k].own :
                  p = <<k, i>> /\ calls[k].own[i] = c
    BY <2>1 DEF CallOwners
  <2>2. ASSUME NEW k \in DOMAIN calls, NEW i \in DOMAIN calls[k].own, p = <<k, i>>, calls[k].own[i] = c
        PROVE  p \in CallOwners(c)
    BY <2>2 DEF CallOwners
  <2> QED
    BY <2>1, <2>2
<1> DEFINE One(S) == Cardinality(S) = 1
           None(S) == Cardinality(S) = 0
<1>5. /\ \A S : (\E p : S = {p}) => One(S)
      /\ None({})
  BY FS_Singleton, FS_EmptySet, Zenon
<1>6. \A c \in Cells : (\A n \in live : c \notin Kids(heap, n)) => None(NodeOwners(c))
  <2> SUFFICES ASSUME NEW c \in Cells, \A n \in live : c \notin Kids(heap, n) PROVE NodeOwners(c) = {}
    BY <1>5, Zenon
  <2> QED
    BY <1>3 DEF Kids
<1>7. \A c \in Cells : (\E n \in live : c \in Kids(heap, n)) => One(NodeOwners(c))
  <2> SUFFICES ASSUME NEW c \in Cells, NEW n \in live, c \in Kids(heap, n)
               PROVE  \E p : NodeOwners(c) = {p}
    BY <1>5, Zenon
  <2>1. PICK i \in DOMAIN heap[n].kids : heap[n].kids[i] = c
    BY DEF Kids
  <2>2. \A m \in live : \A j \in DOMAIN heap[m].kids : heap[m].kids[j] = c => m = n
    BY <1>2 DEF Kids
  <2>3. \A j \in DOMAIN heap[n].kids : heap[n].kids[j] = c => j = i
    BY <1>2, <2>1 DEF Injective
  <2>4. NodeOwners(c) = {<<n, i>>}
    BY <1>3, <2>1, <2>2, <2>3
  <2> QED
    BY <2>4
<1>8. \A c \in Cells : c \notin Held(calls) => None(CallOwners(c))
  <2> SUFFICES ASSUME NEW c \in Cells, c \notin Held(calls) PROVE CallOwners(c) = {}
    BY <1>5, Zenon
  <2>1. \A k \in DOMAIN calls : \A i \in DOMAIN calls[k].own : calls[k].own[i] \in Held(calls)
    BY DEF Held, Owned
  <2> QED
    BY <1>4, <2>1
<1>9. \A c \in Cells : c \in Held(calls) => One(CallOwners(c))
  <2> SUFFICES ASSUME NEW c \in Cells, c \in Held(calls) PROVE \E p : CallOwners(c) = {p}
    BY <1>5, Zenon
  <2>1. PICK k \in DOMAIN calls : \E i \in DOMAIN calls[k].own : calls[k].own[i] = c
    BY DEF Held, Owned
  <2>2. PICK i \in DOMAIN calls[k].own : calls[k].own[i] = c
    BY <2>1
  <2>3. \A l \in DOMAIN calls : \A j \in DOMAIN calls[l].own : calls[l].own[j] = c => l = k
    BY <1>1, <2>2 DEF Apart, Owned
  <2>4. \A j \in DOMAIN calls[k].own : calls[k].own[j] = c => j = i
    BY <1>1, <2>2 DEF Apart, Injective
  <2>5. CallOwners(c) = {<<k, i>>}
    BY <1>4, <2>2, <2>3, <2>4
  <2> QED
    BY <2>5
<1>10. \A c \in Cells : c \in E <=> val = c
  BY DEF Cells
<1>11. ASSUME NEW c \in Cells
       PROVE  Cardinality(NodeOwners(c)) + Cardinality(CallOwners(c)) + (IF val = c THEN 1 ELSE 0)
                  = IF c \in freed THEN 0 ELSE 1
  <2>1. CASE c \in freed
    <3>1. None(NodeOwners(c)) /\ None(CallOwners(c)) /\ val # c
      BY <1>1, <1>2, <1>6, <1>8, <1>10, <2>1
    <3> QED
      BY <2>1, <3>1
  <2>2. CASE c \in E
    <3>1. None(NodeOwners(c)) /\ None(CallOwners(c)) /\ val = c /\ c \notin freed
      BY <1>1, <1>2, <1>6, <1>8, <1>10, <2>2
    <3> QED
      BY <3>1
  <2>3. CASE c \in Held(calls)
    <3>1. None(NodeOwners(c)) /\ One(CallOwners(c)) /\ val # c /\ c \notin freed
      BY <1>1, <1>2, <1>6, <1>9, <1>10, <2>3
    <3> QED
      BY <3>1
  <2>4. CASE \E n \in live : c \in Kids(heap, n)
    <3>1. One(NodeOwners(c)) /\ None(CallOwners(c)) /\ val # c /\ c \notin freed
      BY <1>1, <1>2, <1>7, <1>8, <1>10, <2>4
    <3> QED
      BY <3>1
  <2> QED
    BY <1>2, <2>1, <2>2, <2>3, <2>4
<1>12. ASSUME Over
       PROVE  live = Reach(E)
  <2> DEFINE X == Reach(E)
  <2>1. Held(calls) = {}
    BY <1>12 DEF Held
  <2>2. Closed(heap, live) /\ live \subseteq 1 .. Len(heap) /\ E \subseteq live
    BY <1>1, <1>2 DEF Closed, Cells
  <2>3. E \subseteq X /\ X \subseteq live /\ Closed(heap, X)
    <3> HIDE DEF live, E
    <3> QED
      BY <2>2, ReachLeast DEF Reach
  <2>4. \A S \in SUBSET live : E \subseteq S /\ Closed(heap, S) => S = live
    BY <1>1, <2>1 DEF Forest, Ids, Cells
  <2> HIDE DEF X, live, E
  <2>5. X = live
    BY <2>3, <2>4
  <2> QED
    BY <2>5 DEF X
<1> QED
  BY <1>11, <1>12 DEF OwnedOnce

-----------------------------------------------------------------------------
(* Nodes.  Operators group by their binding powers; a step changes nothing  *)
(* of an older node that this depends on.                                   *)

NodeOK(h, node) ==
    /\ Of(node.kids) \subseteq Ids(h)
    /\ node.kind = "binary" => /\ Len(node.kids) = 2
                               /\ Binds(h[node.kids[1]]) >= Bp(node.op)
                               /\ Binds(h[node.kids[2]]) > Bp(node.op)

HeapOK(h) == h \in Seq(Nodes) /\ \A n \in Ids(h) : NodeOK(h, h[n])

Grows(h, g) == /\ Ids(h) \subseteq Ids(g)
               /\ \A n \in Ids(h) : g[n].kind = h[n].kind /\ Binds(g[n]) >= Binds(h[n])

LEMMA BpRange == \A t : Bp(t) \in 0 .. 6
BY DEF Bp

LEMMA BindsRange == \A node : Binds(node) \in 0 .. 7 /\ (node.kind # "binary" => Binds(node) = 7)
BY BpRange DEF Binds

LEMMA HeapFacts ==
    ASSUME NEW h, HeapOK(h)
    PROVE  /\ h \in Seq(Nodes) /\ Len(h) \in Nat /\ DOMAIN h = Ids(h)
           /\ \A n \in Ids(h) : h[n] \in Nodes /\ h[n].kids \in Seq(Nat) /\ h[n].first \in Nat
                                /\ h[n].last \in Nat
<1>1. h \in Seq(Nodes)
  BY DEF HeapOK
<1>2. Len(h) \in Nat /\ DOMAIN h = Ids(h) /\ \A n \in Ids(h) : h[n] \in Nodes
  BY <1>1, ElementType DEF Ids
<1>3. \A node \in Nodes : node.kids \in Seq(Nat) /\ node.first \in Nat /\ node.last \in Nat
  BY DEF Nodes
<1> QED
  BY <1>1, <1>2, <1>3

LEMMA NodeGrows ==
    ASSUME NEW h, NEW g, Grows(h, g), NEW node, NodeOK(h, node), node.kids \in Seq(Nat)
    PROVE  NodeOK(g, node)
<1>1. Of(node.kids) \subseteq Ids(g)
  BY DEF NodeOK, Grows
<1>2. CASE node.kind = "binary"
  <2>1. 1 \in DOMAIN node.kids /\ 2 \in DOMAIN node.kids
    BY <1>2, ElementType DEF NodeOK
  <2>2. node.kids[1] \in Ids(h) /\ node.kids[2] \in Ids(h)
    BY <2>1 DEF NodeOK, Of
  <2>3. /\ Binds(g[node.kids[1]]) >= Binds(h[node.kids[1]])
        /\ Binds(g[node.kids[2]]) >= Binds(h[node.kids[2]])
    BY <2>2 DEF Grows
  <2>4. \A n : Binds(g[n]) \in Nat /\ Binds(h[n]) \in Nat /\ Bp(node.op) \in Nat
    BY BpRange, BindsRange
  <2> QED
    BY <1>1, <1>2, <2>3, <2>4 DEF NodeOK
<1> QED
  BY <1>1, <1>2 DEF NodeOK

LEMMA GrowsBuild ==
    ASSUME NEW h, HeapOK(h), NEW node \in Nodes, NodeOK(h, node)
    PROVE  /\ Grows(h, Append(h, node)) /\ HeapOK(Append(h, node))
           /\ Append(h, node)[Len(h) + 1] = node /\ Len(Append(h, node)) = Len(h) + 1
           /\ \A n \in Ids(h) : Append(h, node)[n] = h[n]
           /\ Len(h) + 1 \in Ids(Append(h, node)) /\ Len(h) + 1 \notin Ids(h)
<1> DEFINE g == Append(h, node)
<1>1. h \in Seq(Nodes) /\ Len(h) \in Nat /\ \A n \in Ids(h) : h[n].kids \in Seq(Nat)
  BY HeapFacts
<1>2. /\ g \in Seq(Nodes) /\ Len(g) = Len(h) + 1 /\ g[Len(h) + 1] = node
      /\ \A n \in 1 .. Len(h) : g[n] = h[n]
  BY <1>1, StackPush
<1> HIDE DEF g
<1>3. /\ \A n \in Ids(g) : n \in Ids(h) \/ n = Len(h) + 1
      /\ Ids(h) \subseteq Ids(g) /\ Len(h) + 1 \in Ids(g) /\ Len(h) + 1 \notin Ids(h)
      /\ \A n \in Ids(h) : g[n] = h[n]
  BY <1>1, <1>2 DEF Ids
<1>4. Grows(h, g)
  <2>1. \A n \in Ids(h) : g[n].kind = h[n].kind /\ Binds(g[n]) = Binds(h[n])
    BY <1>3
  <2>2. \A n : Binds(h[n]) \in Nat
    BY BindsRange
  <2> QED
    BY <1>3, <2>1, <2>2 DEF Grows
<1>5. NodeOK(g, node)
  <2>1. node.kids \in Seq(Nat)
    BY DEF Nodes
  <2> QED
    BY <1>4, <2>1, NodeGrows
<1>6. \A n \in Ids(h) : NodeOK(g, g[n])
  BY <1>1, <1>3, <1>4, NodeGrows DEF HeapOK
<1>7. HeapOK(g)
  BY <1>2, <1>3, <1>5, <1>6 DEF HeapOK
<1> QED
  BY <1>2, <1>3, <1>4, <1>7 DEF g

\* A node that is no binary one takes kids, a mode or the end of its span;
\* any node is put in parentheses.
Edit(h, n, new) == [h EXCEPT ![n] = new]

LEMMA GrowsEdit ==
    ASSUME NEW h, HeapOK(h), NEW n \in Ids(h),
           NEW new \in Nodes, new.kind = h[n].kind, Of(new.kids) \subseteq Ids(h),
           new.kind = "binary" => new.op = h[n].op /\ new.kids = h[n].kids /\ (h[n].paren => new.paren)
    PROVE  LET g == Edit(h, n, new) IN
           /\ Grows(h, g) /\ HeapOK(g) /\ Len(g) = Len(h) /\ g[n] = new
           /\ \A m \in Ids(h) : m # n => g[m] = h[m]
<1> DEFINE g == Edit(h, n, new)
<1>1. h \in Seq(Nodes) /\ Len(h) \in Nat /\ DOMAIN h = Ids(h)
      /\ \A m \in Ids(h) : h[m] \in Nodes /\ h[m].kids \in Seq(Nat)
  BY HeapFacts
<1>2. g = [m \in Ids(h) |-> IF m = n THEN new ELSE h[m]]
  BY <1>1 DEF Edit
<1> HIDE DEF g
<1>3. /\ g[n] = new /\ \A m \in Ids(h) : m # n => g[m] = h[m]
      /\ \A m \in Ids(h) : g[m] \in Nodes
  BY <1>1, <1>2
<1>4. g \in Seq(Nodes) /\ Len(g) = Len(h)
  <2>1. DOMAIN g = 1 .. Len(h) /\ g = [m \in 1 .. Len(h) |-> g[m]]
    BY <1>2 DEF Ids
  <2> QED
    BY <1>1, <1>3, <2>1 DEF Ids
<1>5. Binds(new) >= Binds(h[n])
  BY BindsRange, BpRange DEF Binds
<1>6. Grows(h, g)
  <2>1. \A m \in Ids(h) : g[m].kind = h[m].kind /\ Binds(g[m]) >= Binds(h[m])
    <3> TAKE m \in Ids(h)
    <3>1. CASE m = n
      BY <1>3, <1>5, <3>1
    <3>2. CASE m # n
      <4>1. g[m] = h[m] /\ Binds(h[m]) \in Nat
        BY <1>3, <3>2, BindsRange
      <4> QED
        BY <4>1
    <3> QED
      BY <3>1, <3>2
  <2> QED
    BY <1>4, <2>1 DEF Grows, Ids
<1>7. NodeOK(g, new)
  <2>1. CASE new.kind = "binary"
    <3>1. NodeOK(h, h[n]) /\ h[n].kids \in Seq(Nat)
      BY <1>1 DEF HeapOK
    <3>2. NodeOK(g, h[n])
      BY <1>6, <3>1, NodeGrows
    <3> QED
      BY <2>1, <3>2 DEF NodeOK
  <2>2. CASE new.kind # "binary"
    BY <1>4, <2>2 DEF NodeOK, Ids
  <2> QED
    BY <2>1, <2>2
<1>8. \A m \in Ids(g) : NodeOK(g, g[m])
  <2>1. Ids(g) = Ids(h)
    BY <1>4 DEF Ids
  <2>2. \A m \in Ids(h) : m # n => NodeOK(g, g[m])
    BY <1>1, <1>3, <1>6, NodeGrows DEF HeapOK
  <2> QED
    BY <1>3, <1>7, <2>1, <2>2
<1> QED
  BY <1>3, <1>4, <1>6, <1>8 DEF HeapOK, g

-----------------------------------------------------------------------------
(* Activations. *)

\* Whether the stack cs may call f.
CallOK(s, cs, f) == IF cs = <<>> THEN f.fn = "expr"
                                 ELSE Waiting(Upper(cs)) /\ CallsOn(s, Upper(cs), f)

LEMMA CallSame ==
    ASSUME NEW s, NEW cs, NEW f, NEW g, CallOK(s, cs, f), g.fn = f.fn, g.bp = f.bp
    PROVE  CallOK(s, cs, g)
BY DEF CallOK, CallsOn

LEMMA StackOver ==
    ASSUME NEW s, NEW cs, StackOK(s, cs), NEW f \in Frames, FrameOK(s, f), CallOK(s, cs, f)
    PROVE  /\ StackOK(s, Append(cs, f)) /\ Append(cs, f) # <<>>
           /\ Upper(Append(cs, f)) = f /\ Under(Append(cs, f)) = cs
           /\ DOMAIN cs \subseteq DOMAIN Append(cs, f)
           /\ \A k \in DOMAIN Append(cs, f) :
                 (k \in DOMAIN cs /\ Append(cs, f)[k] = cs[k]) \/ Append(cs, f)[k] = f
<1> DEFINE t == Append(cs, f)
<1>1. /\ cs \in Seq(Frames) /\ Len(cs) \in Nat /\ DOMAIN cs = 1 .. Len(cs)
      /\ t \in Seq(Frames) /\ Len(t) = Len(cs) + 1 /\ t[Len(cs) + 1] = f
      /\ \A i \in 1 .. Len(cs) : t[i] = cs[i]
  BY ElementType, StackPush DEF StackOK
<1>2. DOMAIN t = 1 .. Len(cs) + 1 /\ t # <<>>
  BY <1>1, ElementType
<1>3. Under(t) = cs
  <2>1. SubSeq(t, 1, Len(t) - 1) = cs
    BY <1>1
  <2> QED
    BY <2>1 DEF Under
<1> HIDE DEF t
<1>4. Upper(t) = f
  BY <1>1 DEF Upper
<1>5. \A k \in DOMAIN t : (k \in DOMAIN cs /\ t[k] = cs[k]) \/ (k = Len(cs) + 1 /\ t[k] = f)
  <2>1. \A k \in 1 .. Len(cs) + 1 : k \in 1 .. Len(cs) \/ k = Len(cs) + 1
    BY <1>1
  <2>2. \A k \in 1 .. Len(cs) : k \in DOMAIN cs /\ t[k] = cs[k]
    BY <1>1
  <2>3. t[Len(cs) + 1] = f
    BY <1>1
  <2> QED
    BY <1>2, <2>1, <2>2, <2>3, Zenon
<1>6. \A k \in DOMAIN t : FrameOK(s, t[k])
  BY <1>5 DEF StackOK
<1>7. t[1].fn = "expr"
  <2>1. CASE cs = <<>>
    BY <1>1, <2>1 DEF CallOK
  <2>2. CASE cs # <<>>
    <3>1. 1 \in 1 .. Len(cs)
      BY <1>1, <2>2
    <3> QED
      BY <1>1, <2>2, <3>1 DEF StackOK
  <2> QED
    BY <2>1, <2>2
<1>8. \A k \in DOMAIN t : k > 1 => Waiting(t[k - 1]) /\ CallsOn(s, t[k - 1], t[k])
  <2> SUFFICES ASSUME NEW k \in 1 .. Len(cs) + 1, k > 1
               PROVE  Waiting(t[k - 1]) /\ CallsOn(s, t[k - 1], t[k])
    BY <1>2
  <2>1. k - 1 \in 1 .. Len(cs)
    BY <1>1
  <2>2. t[k - 1] = cs[k - 1]
    BY <1>1, <2>1
  <2>3. CASE k = Len(cs) + 1
    <3>1. t[k - 1] = Upper(cs) /\ t[k] = f /\ cs # <<>>
      BY <1>1, <2>1, <2>2, <2>3 DEF Upper
    <3> QED
      BY <3>1 DEF CallOK
  <2>4. CASE k # Len(cs) + 1
    <3>1. k \in 1 .. Len(cs)
      BY <1>1, <2>4
    <3>2. t[k] = cs[k] /\ k \in DOMAIN cs
      BY <1>1, <3>1
    <3> QED
      BY <2>2, <3>2 DEF StackOK
  <2> QED
    BY <2>3, <2>4
<1>9. StackOK(s, t)
  BY <1>1, <1>6, <1>7, <1>8 DEF StackOK
<1>10. DOMAIN cs \subseteq DOMAIN t
  BY <1>1, <1>2
<1> QED
  BY <1>2, <1>3, <1>4, <1>5, <1>9, <1>10 DEF t

LEMMA StackUnder ==
    ASSUME NEW s, NEW cs, StackOK(s, cs), cs # <<>>
    PROVE  /\ StackOK(s, Under(cs)) /\ CallOK(s, Under(cs), Upper(cs))
           /\ Upper(cs) \in Frames /\ FrameOK(s, Upper(cs)) /\ Len(cs) \in DOMAIN cs
           /\ \A k \in DOMAIN Under(cs) : k \in DOMAIN cs /\ Under(cs)[k] = cs[k]
<1> DEFINE t == Under(cs)
<1>1. /\ cs \in Seq(Frames) /\ Len(cs) \in Nat /\ Len(cs) >= 1 /\ DOMAIN cs = 1 .. Len(cs)
      /\ t \in Seq(Frames) /\ Len(t) = Len(cs) - 1 /\ \A i \in 1 .. Len(cs) - 1 : t[i] = cs[i]
  BY StackTop, StackPop DEF Under, StackOK
<1>2. DOMAIN t = 1 .. Len(cs) - 1
  BY <1>1, ElementType
<1> HIDE DEF t
<1>3. \A k \in DOMAIN t : k \in DOMAIN cs /\ t[k] = cs[k]
  BY <1>1, <1>2
<1>4. Len(cs) \in DOMAIN cs /\ 1 \in DOMAIN cs
  BY <1>1
<1>5. Upper(cs) \in Frames /\ FrameOK(s, Upper(cs))
  BY <1>1, <1>4, StackTop DEF StackOK, Upper
<1>6. t # <<>> => Len(cs) - 1 \in DOMAIN t /\ 1 \in DOMAIN t /\ Len(cs) > 1
                  /\ Len(t) = Len(cs) - 1
  BY <1>1, <1>2
<1>7. StackOK(s, t)
  <2>1. \A k \in DOMAIN t : k > 1 => k - 1 \in DOMAIN t
    BY <1>1, <1>2
  <2>2. \A k \in DOMAIN t : k > 1 => Waiting(t[k - 1]) /\ CallsOn(s, t[k - 1], t[k])
    BY <1>3, <2>1 DEF StackOK
  <2>3. t # <<>> => t[1].fn = "expr"
    BY <1>3, <1>6 DEF StackOK
  <2> QED
    BY <1>1, <1>3, <2>2, <2>3 DEF StackOK
<1>8. CallOK(s, t, Upper(cs))
  <2>1. CASE t = <<>>
    <3>1. Len(cs) = 1
      <4>1. Len(t) = 0 /\ Len(t) = Len(cs) - 1 /\ Len(cs) \in Nat
        BY <1>1, <2>1
      <4> QED
        BY <4>1
    <3> QED
      BY <2>1, <3>1 DEF CallOK, StackOK, Upper
  <2>2. CASE t # <<>>
    <3>1. Upper(t) = cs[Len(cs) - 1]
      BY <1>3, <1>6, <2>2 DEF Upper
    <3> QED
      BY <1>4, <1>6, <2>2, <3>1 DEF CallOK, StackOK, Upper
  <2> QED
    BY <2>1, <2>2
<1> QED
  BY <1>3, <1>4, <1>5, <1>7, <1>8 DEF t

-----------------------------------------------------------------------------
(* The state between two moves of a step: h the heap, fr the cells given    *)
(* back, cs the activations, E the roots in hand.                           *)

\* What the cells of an activation are.
Lists(f) == \/ f.fn \in ListFns \cup {"object"}
            \/ f.fn = "for" /\ f.at \in {"key", "value", "filter"}

HoldOK(s, h, f) ==
    /\ Lists(f) => h[f.own[1]].kind \in ListKinds
    /\ f.at = "right" => Binds(h[f.own[1]]) >= Bp(At(s, f.tok))
    /\ f.fn = "postfix" /\ f.at # "inner" => Binds(h[f.own[1]]) = 7

Good(s, h, fr, cs, E) ==
    /\ StackOK(s, cs)
    /\ HeapOK(h)
    /\ \A k \in DOMAIN cs : HoldOK(s, h, cs[k])
    /\ OneOwner(h, fr, cs, E)

\* Lengths and members of the cells an activation owns.
LEMMA Owns ==
    ASSUME NEW f \in Frames
    PROVE  /\ f.own \in Seq(Nat) /\ f.bp \in 0 .. 7 /\ f.tok \in Nat
           /\ f.fn \in Fns
           /\ Owned(f) = Of(f.own)
           /\ Len(f.own) = 0 => f.own = <<>> /\ Owned(f) = {}
           /\ Len(f.own) = 1 => f.own = <<f.own[1]>> /\ Owned(f) = {f.own[1]} /\ f.own[1] \in Nat
           /\ Len(f.own) = 2 => /\ f.own = <<f.own[1], f.own[2]>> /\ Owned(f) = {f.own[1], f.own[2]}
                                /\ Injective(f.own) => f.own[1] # f.own[2]
                                /\ f.own[1] \in Nat /\ f.own[2] \in Nat
<1>1. /\ f.own \in Seq(Nat) /\ f.bp \in 0 .. 7 /\ f.tok \in Nat
      /\ f.fn \in Fns
  BY DEF Frames
<1> DEFINE own == f.own
<1>2. own \in Seq(Nat) /\ DOMAIN own = 1 .. Len(own)
  BY <1>1
<1>3. Owned(f) = {own[i] : i \in 1 .. Len(own)} /\ Owned(f) = Of(own)
  BY <1>2 DEF Owned, Of
<1> HIDE DEF own
<1>4. Len(own) = 0 => own = <<>> /\ Owned(f) = {}
  BY <1>2, <1>3
<1>5. Len(own) = 1 => own = <<own[1]>> /\ Owned(f) = {own[1]} /\ own[1] \in Nat
  BY <1>2, <1>3
<1>6. Len(own) = 2 => /\ own = <<own[1], own[2]>> /\ Owned(f) = {own[1], own[2]}
                      /\ own[1] \in Nat /\ own[2] \in Nat
  BY <1>2, <1>3
<1>7. Len(own) = 2 /\ Injective(own) => own[1] # own[2]
  BY <1>2 DEF Injective
<1> QED
  BY <1>1, <1>3, <1>4, <1>5, <1>6, <1>7 DEF own

LEMMA HoldGrows ==
    ASSUME NEW s, NEW h, NEW g, Grows(h, g), NEW f \in Frames, FrameOK(s, f), HoldOK(s, h, f),
           Owned(f) \subseteq Ids(h)
    PROVE  HoldOK(s, g, f)
<1>1. /\ f.own \in Seq(Nat) /\ (Len(f.own) \in {1, 2} => f.own[1] \in Ids(h))
  BY Owns
<1>2. Lists(f) \/ f.at = "right" \/ (f.fn = "postfix" /\ f.at # "inner") => Len(f.own) \in {1, 2}
  BY Owns DEF FrameOK, Lists, ListFns, Fns
<1>3. CASE Len(f.own) \in {1, 2}
  <2>1. g[f.own[1]].kind = h[f.own[1]].kind /\ Binds(g[f.own[1]]) >= Binds(h[f.own[1]])
    BY <1>1, <1>3 DEF Grows
  <2>2. Binds(g[f.own[1]]) \in 0 .. 7 /\ Binds(h[f.own[1]]) \in 0 .. 7 /\ Bp(At(s, f.tok)) \in 0 .. 6
    BY BindsRange, BpRange
  <2> QED
    BY <2>1, <2>2 DEF HoldOK
<1>4. CASE Len(f.own) \notin {1, 2}
  BY <1>2, <1>4 DEF HoldOK
<1> QED
  BY <1>3, <1>4

LEMMA GoodPop ==
    ASSUME NEW s, NEW h, NEW fr, NEW cs, NEW E, Good(s, h, fr, cs, E), cs # <<>>
    PROVE  LET f == Upper(cs) IN
           /\ Good(s, h, fr, Under(cs), E \cup Owned(f))
           /\ CallOK(s, Under(cs), f) /\ f \in Frames /\ FrameOK(s, f) /\ HoldOK(s, h, f)
           /\ Injective(f.own) /\ Owned(f) \cap E = {} /\ Owned(f) \subseteq Ids(h) \ fr
<1>1. /\ StackOK(s, Under(cs)) /\ CallOK(s, Under(cs), Upper(cs))
      /\ Upper(cs) \in Frames /\ FrameOK(s, Upper(cs)) /\ Len(cs) \in DOMAIN cs
      /\ \A k \in DOMAIN Under(cs) : k \in DOMAIN cs /\ Under(cs)[k] = cs[k]
  BY StackUnder DEF Good
<1>2. cs \in Seq(Frames) /\ OneOwner(h, fr, cs, E)
  BY DEF Good, StackOK
<1>3. /\ OneOwner(h, fr, Under(cs), E \cup Owned(Upper(cs)))
      /\ Injective(Upper(cs).own) /\ Owned(Upper(cs)) \cap E = {}
  BY <1>2, OwnerPop
<1>4. Owned(Upper(cs)) \subseteq Ids(h) \ fr
  BY <1>3, HandApart
<1>5. HoldOK(s, h, Upper(cs)) /\ \A k \in DOMAIN Under(cs) : HoldOK(s, h, Under(cs)[k])
  BY <1>1 DEF Good, Upper
<1>6. Good(s, h, fr, Under(cs), E \cup Owned(Upper(cs)))
  BY <1>1, <1>3, <1>5 DEF Good
<1> QED
  BY <1>1, <1>3, <1>4, <1>5, <1>6

LEMMA GoodPush ==
    ASSUME NEW s, NEW h, NEW fr, NEW cs, NEW E, Good(s, h, fr, cs, E),
           NEW f \in Frames, FrameOK(s, f), CallOK(s, cs, f), HoldOK(s, h, f),
           Owned(f) \subseteq E, Injective(f.own)
    PROVE  /\ Good(s, h, fr, Append(cs, f), E \ Owned(f))
           /\ Append(cs, f) # <<>> /\ Upper(Append(cs, f)) = f /\ Under(Append(cs, f)) = cs
<1>1. /\ StackOK(s, Append(cs, f)) /\ Append(cs, f) # <<>>
      /\ Upper(Append(cs, f)) = f /\ Under(Append(cs, f)) = cs
      /\ \A k \in DOMAIN Append(cs, f) :
            (k \in DOMAIN cs /\ Append(cs, f)[k] = cs[k]) \/ Append(cs, f)[k] = f
  BY StackOver DEF Good
<1>2. OneOwner(h, fr, Append(cs, f), E \ Owned(f))
  BY OwnerPush DEF Good, StackOK
<1>3. \A k \in DOMAIN Append(cs, f) : HoldOK(s, h, Append(cs, f)[k])
  BY <1>1 DEF Good
<1> QED
  BY <1>1, <1>2, <1>3 DEF Good

LEMMA GoodHand ==
    ASSUME NEW s, NEW h, NEW fr, NEW cs, NEW E, Good(s, h, fr, cs, E)
    PROVE  /\ E \cap Held(cs) = {} /\ E \subseteq Ids(h) \ fr /\ fr \subseteq Ids(h)
           /\ h \in Seq(Nodes) /\ HeapOK(h) /\ cs \in Seq(Frames)
           /\ \A k \in DOMAIN cs : Owned(cs[k]) \subseteq Ids(h) \ fr
<1>1. \A k \in DOMAIN cs : Owned(cs[k]) \subseteq Held(cs)
  BY DEF Held
<1> QED
  BY <1>1, HandApart DEF Good, HeapOK, StackOK

LEMMA HoldsGrow ==
    ASSUME NEW s, NEW h, NEW fr, NEW cs, NEW E, Good(s, h, fr, cs, E), NEW g, Grows(h, g)
    PROVE  \A k \in DOMAIN cs : HoldOK(s, g, cs[k])
<1> TAKE k \in DOMAIN cs
<1>1. cs[k] \in Frames
  BY ElementType DEF Good, StackOK
<1>2. FrameOK(s, cs[k]) /\ HoldOK(s, h, cs[k]) /\ Owned(cs[k]) \subseteq Ids(h)
  BY GoodHand DEF Good, StackOK
<1> QED
  BY <1>1, <1>2, HoldGrows

\* A new node takes roots in hand as its kids.
Takes(h, E, node) ==
    /\ node \in Nodes /\ Of(node.kids) \subseteq E /\ Injective(node.kids)
    /\ node.kind = "binary" => /\ Len(node.kids) = 2
                               /\ Binds(h[node.kids[1]]) >= Bp(node.op)
                               /\ Binds(h[node.kids[2]]) > Bp(node.op)

LEMMA Builds ==
    ASSUME NEW s, NEW h, NEW fr, NEW cs, NEW E, Good(s, h, fr, cs, E), NEW node, Takes(h, E, node)
    PROVE  LET g == Append(h, node)
               new == Len(h) + 1
           IN  /\ Good(s, g, fr, cs, (E \ Of(node.kids)) \cup {new})
               /\ Grows(h, g) /\ g[new] = node /\ Len(g) = new /\ new \notin E /\ new \in Ids(g)
               /\ new \in Nat \ {0} /\ \A n \in E : g[n] = h[n]
<1> DEFINE g == Append(h, node)
           new == Len(h) + 1
<1>1. /\ E \subseteq Ids(h) /\ h \in Seq(Nodes) /\ HeapOK(h)
      /\ node \in Nodes /\ Of(node.kids) \subseteq E /\ Injective(node.kids)
  BY GoodHand DEF Takes
<1>2. NodeOK(h, node)
  BY <1>1 DEF NodeOK, Takes
<1>3. /\ Grows(h, g) /\ HeapOK(g) /\ g[new] = node /\ Len(g) = new
      /\ \A n \in Ids(h) : g[n] = h[n]
      /\ new \in Ids(g) /\ new \notin Ids(h)
  BY <1>1, <1>2, GrowsBuild
<1>4. OneOwner(g, fr, cs, (E \ Of(node.kids)) \cup {new})
  BY <1>1, OwnerBuild DEF Good
<1>5. \A k \in DOMAIN cs : HoldOK(s, g, cs[k])
  BY <1>3, HoldsGrow
<1>6. new \in Nat \ {0}
  BY <1>1, HeapFacts
<1> HIDE DEF g, new
<1>7. Good(s, g, fr, cs, (E \ Of(node.kids)) \cup {new})
  BY <1>3, <1>4, <1>5 DEF Good
<1> QED
  BY <1>1, <1>3, <1>6, <1>7 DEF g, new

\* A root in hand that is no binary node adopts others.
LEMMA GoodAdopt ==
    ASSUME NEW s, NEW h, NEW fr, NEW cs, NEW E, Good(s, h, fr, cs, E),
           NEW n \in E, NEW ks \in Seq(Nat), Of(ks) \subseteq E \ {n}, Injective(ks),
           h[n].kind # "binary",
           NEW new \in Nodes, new.kind = h[n].kind, new.kids = h[n].kids \o ks
    PROVE  LET g == Edit(h, n, new) IN
           /\ Good(s, g, fr, cs, E \ Of(ks))
           /\ Grows(h, g) /\ g[n] = new /\ Len(g) = Len(h) /\ \A m \in E : m # n => g[m] = h[m]
<1> DEFINE g == Edit(h, n, new)
<1>1. E \subseteq Ids(h) /\ h \in Seq(Nodes) /\ HeapOK(h) /\ n \in Ids(h)
  BY GoodHand
<1>2. Of(new.kids) \subseteq Ids(h)
  <2>1. h[n].kids \in Seq(Nat) /\ Of(h[n].kids) \subseteq Ids(h)
    BY <1>1, HeapFacts DEF HeapOK, NodeOK
  <2>2. Of(new.kids) = Of(h[n].kids) \cup Of(ks)
    BY <2>1, OfJoined
  <2> QED
    BY <1>1, <2>1, <2>2
<1>3. /\ Grows(h, g) /\ HeapOK(g) /\ Len(g) = Len(h) /\ g[n] = new
      /\ \A m \in Ids(h) : m # n => g[m] = h[m]
  <2>1. new.kind = "binary" => new.op = h[n].op /\ new.kids = h[n].kids /\ (h[n].paren => new.paren)
    OBVIOUS
  <2>2. HeapOK(h) /\ n \in Ids(h) /\ new \in Nodes /\ new.kind = h[n].kind
    BY <1>1
  <2> QED
    BY <1>2, <2>1, <2>2, GrowsEdit
<1> HIDE DEF g
<1>4. OneOwner(g, fr, cs, E \ Of(ks))
  <2>1. OneOwner(h, fr, cs, E) /\ \A m \in Ids(h) \ {n} : g[m].kids = h[m].kids
    BY <1>3 DEF Good
  <2>2. g[n].kids = h[n].kids \o ks
    BY <1>3
  <2> QED
    BY <1>1, <1>3, <2>1, <2>2, OwnerAdopt, ZenonT(30)
<1>5. \A k \in DOMAIN cs : HoldOK(s, g, cs[k])
  BY <1>3, HoldsGrow
<1> QED
  BY <1>1, <1>3, <1>4, <1>5 DEF Good, g

\* A node changes, its kids do not.
LEMMA GoodTouch ==
    ASSUME NEW s, NEW h, NEW fr, NEW cs, NEW E, Good(s, h, fr, cs, E), NEW n \in E,
           NEW new \in Nodes, new.kind = h[n].kind, new.kids = h[n].kids, new.op = h[n].op,
           h[n].paren => new.paren
    PROVE  LET g == Edit(h, n, new) IN
           /\ Good(s, g, fr, cs, E)
           /\ Grows(h, g) /\ g[n] = new /\ Len(g) = Len(h)
<1> DEFINE g == Edit(h, n, new)
<1>1. E \subseteq Ids(h) /\ h \in Seq(Nodes) /\ HeapOK(h) /\ n \in Ids(h)
  BY GoodHand
<1>2. Of(new.kids) \subseteq Ids(h)
  BY <1>1 DEF HeapOK, NodeOK
<1>3. /\ Grows(h, g) /\ HeapOK(g) /\ Len(g) = Len(h) /\ g[n] = new
      /\ \A m \in Ids(h) : m # n => g[m] = h[m]
  <2>1. new.kind = "binary" => new.op = h[n].op /\ new.kids = h[n].kids /\ (h[n].paren => new.paren)
    OBVIOUS
  <2>2. HeapOK(h) /\ n \in Ids(h) /\ new \in Nodes /\ new.kind = h[n].kind
    BY <1>1
  <2> QED
    BY <1>2, <2>1, <2>2, GrowsEdit
<1> HIDE DEF g
<1>4. OneOwner(g, fr, cs, E)
  <2>1. \A m \in Ids(h) : g[m].kids = h[m].kids
    BY <1>3
  <2> QED
    BY <1>3, <2>1, ForestTouch DEF Good, OneOwner
<1>5. \A k \in DOMAIN cs : HoldOK(s, g, cs[k])
  BY <1>3, HoldsGrow
<1> QED
  BY <1>3, <1>4, <1>5 DEF Good, g

LEMMA GoodFree ==
    ASSUME NEW s, NEW h, NEW fr, NEW cs, NEW E, Good(s, h, fr, cs, E), NEW ns, ns \subseteq E
    PROVE  Good(s, h, fr \cup Visited(h, ns)[Len(h)], cs, E \ ns)
<1>1. h \in Seq(Nodes) /\ OneOwner(h, fr, cs, E)
  BY GoodHand DEF Good
<1>2. OneOwner(h, fr \cup Visited(h, ns)[Len(h)], cs, E \ ns)
  BY <1>1, OwnerFree
<1> QED
  BY <1>2 DEF Good

-----------------------------------------------------------------------------
(* The inductive invariant.  What a function returns fits the one that      *)
(* called it, and the node ends where the parser stands.                    *)

EndsAt(s, p, node) == At(s, p - 1) = ")" \/ node.last = p - 1

Fits(s, p, node, f) ==
    /\ f.at = "left" => Binds(node) >= f.bp /\ Binds(node) >= Bp(At(s, p))
    /\ f.at = "right" => Binds(node) > Bp(At(s, f.tok)) /\ Bp(At(s, p)) <= Bp(At(s, f.tok))
    /\ f.at = "operand" \/ (f.fn = "postfix" /\ f.at = "inner") => Binds(node) = 7

Turn(s, p, r, v, cs, h) ==
    /\ r \in {"unary", "run", "ok", "fail", "accepted", "rejected"}
    /\ r = "unary" => cs # <<>> /\ WantsUnary(Upper(cs))
    /\ r = "run" => /\ cs # <<>> /\ Running(Upper(cs))
                    /\ Upper(cs).fn = "postfix" => EndsAt(s, p, h[Upper(cs).own[1]])
    /\ r \in {"ok", "fail"} /\ cs # <<>> => Waiting(Upper(cs))
    /\ r = "ok" /\ cs # <<>> => Fits(s, p, h[v], Upper(cs))
    /\ IF r \in {"ok", "accepted"} THEN v \in Ids(h) /\ EndsAt(s, p, h[v]) ELSE v = 0
    /\ r \in {"accepted", "rejected"} => cs = <<>>
    /\ r = "accepted" => At(s, p) = "eof"

IInv ==
    /\ src \in Sources /\ pos \in 1 .. Len(src) + 1 /\ faults \in 0 .. MaxFaults
    /\ Good(src, heap, freed, calls, {val} \ {0})
    /\ Turn(src, pos, ret, val, calls, heap)

LEMMA Braces == LBrace # "eof" /\ RBrace # "eof" /\ LBrace # ")" /\ RBrace # ")"
BY Zenon DEF LBrace, RBrace

LEMMA SourceFacts ==
    ASSUME src \in Sources
    PROVE  /\ Len(src) \in Nat /\ DOMAIN src = 1 .. Len(src)
           /\ \A i : Tok(i) \in Kinds /\ (Tok(i) = "eof" <=> i \notin DOMAIN src)
<1>1. src \in Seq(Kinds \ {"eof"})
  BY SourcesAreTokens
<1> DEFINE K == Kinds \ {"eof"}
<1> HIDE DEF K
<1>2. Len(src) \in Nat /\ DOMAIN src = 1 .. Len(src) /\ \A i \in DOMAIN src : src[i] \in K
  <2>1. src \in Seq(K)
    BY <1>1 DEF K
  <2> QED
    BY <2>1, ElementType
<1>3. "eof" \in Kinds
  BY DEF Kinds
<1> QED
  BY <1>2, <1>3 DEF K, Tok, At

\* The lexer's next token.
LEMMA Positions ==
    ASSUME src \in Sources, NEW i \in 1 .. Len(src) + 1
    PROVE  /\ After(i) \in 1 .. Len(src) + 1 /\ i \in Nat /\ i >= 1
           /\ Tok(i) # "eof" => i \in 1 .. Len(src) /\ After(i) = i + 1 /\ After(i) >= 2
                                /\ i + 1 \in 1 .. Len(src) + 1 /\ After(i) - 1 = i
<1>1. Len(src) \in Nat /\ DOMAIN src = 1 .. Len(src) /\ (Tok(i) = "eof" <=> i \notin DOMAIN src)
  BY SourceFacts
<1> QED
  BY <1>1 DEF After

LEMMA TopFacts ==
    ASSUME IInv, calls # <<>>
    PROVE  LET f == Upper(calls)
               E == {val} \ {0}
           IN  /\ Top = f /\ Below = Under(calls)
               /\ Good(src, heap, freed, Under(calls), E \cup Owned(f))
               /\ CallOK(src, Under(calls), f) /\ f \in Frames /\ FrameOK(src, f) /\ HoldOK(src, heap, f)
               /\ Injective(f.own) /\ Owned(f) \cap E = {} /\ Owned(f) \subseteq Ids(heap) \ freed
               /\ heap \in Seq(Nodes) /\ HeapOK(heap) /\ src \in Sources
<1>1. Top = Upper(calls) /\ Below = Under(calls)
  BY DEF Top, Below, Depth, Upper, Under
<1>2. Good(src, heap, freed, calls, {val} \ {0}) /\ src \in Sources
  BY DEF IInv
<1>3. heap \in Seq(Nodes) /\ HeapOK(heap)
  BY <1>2, GoodHand
<1> DEFINE f == Upper(calls)
           E == {val} \ {0}
<1>4. Good(src, heap, freed, calls, E) /\ calls # <<>>
  BY <1>2
<1> HIDE DEF E
<1>5. Good(src, heap, freed, Under(calls), E \cup Owned(f))
  BY <1>4, GoodPop
<1>6. CallOK(src, Under(calls), f) /\ f \in Frames /\ FrameOK(src, f) /\ HoldOK(src, heap, f)
  BY <1>4, GoodPop
<1>7. Injective(f.own) /\ Owned(f) \cap E = {} /\ Owned(f) \subseteq Ids(heap) \ freed
  BY <1>4, GoodPop
<1> QED
  BY <1>1, <1>2, <1>3, <1>5, <1>6, <1>7 DEF E

LEMMA ReturnedFacts ==
    ASSUME IInv, ret = "ok"
    PROVE  /\ val \in Ids(heap) \ freed /\ {val} \ {0} = {val} /\ val \in Nat /\ val # 0
           /\ EndsAt(src, pos, heap[val])
           /\ calls # <<>> => Waiting(Upper(calls)) /\ Fits(src, pos, heap[val], Upper(calls))
                              /\ val \notin Owned(Upper(calls))
<1>1. val \in Ids(heap) /\ Good(src, heap, freed, calls, {val} \ {0})
  BY DEF IInv, Turn
<1>2. val \in Nat /\ val # 0
  BY <1>1 DEF Ids
<1>3. {val} \ {0} = {val}
  BY <1>2
<1>4. val \notin freed
  BY <1>1, <1>3, GoodHand
<1>5. calls # <<>> => val \notin Owned(Upper(calls))
  BY <1>3, TopFacts
<1> QED
  BY <1>1, <1>2, <1>3, <1>4, <1>5 DEF IInv, Turn

LEMMA QuietFacts ==
    ASSUME IInv, ret \notin {"ok", "accepted"}
    PROVE  val = 0 /\ {val} \ {0} = {}
BY DEF IInv, Turn

LEMMA FaultCount ==
    ASSUME IInv, Fault \/ UNCHANGED faults
    PROVE  faults' \in 0 .. MaxFaults
<1>1. faults \in 0 .. MaxFaults /\ MaxFaults \in Nat
  BY FaultsAreCounted DEF IInv
<1> QED
  BY <1>1 DEF Fault

-----------------------------------------------------------------------------
(* How a step ends. *)

LEMMA ToOperand ==
    ASSUME IInv, NEW stack, NEW i \in 1 .. Len(src) + 1, Operand(stack, i),
           Good(src, heap', freed', stack, {}), stack # <<>>, WantsUnary(Upper(stack)),
           faults' \in 0 .. MaxFaults
    PROVE  IInv'
<1>1. /\ src' = src /\ calls' = stack /\ ret' = "unary" /\ val' = 0 /\ pos' = i
      /\ {val'} \ {0} = {} /\ src \in Sources
  BY DEF Operand, IInv
<1>2. Good(src', heap', freed', calls', {val'} \ {0})
  BY <1>1
<1>3. Turn(src', pos', ret', val', calls', heap')
  BY <1>1 DEF Turn
<1> QED
  BY <1>1, <1>2, <1>3 DEF IInv

LEMMA FrameIs ==
    ASSUME NEW fn \in Fns, NEW at \in Ats, NEW bp \in 0 .. 7, NEW tok \in Nat, NEW own \in Seq(Nat)
    PROVE  Frame(fn, at, bp, tok, own) \in Frames
BY DEF Frame, Frames

LEMMA Known ==
    /\ "expr" \in Fns /\ "binary" \in Fns /\ "unary" \in Fns /\ "paren" \in Fns
    /\ "call" \in Fns /\ "tuple" \in Fns /\ "object" \in Fns /\ "for" \in Fns
    /\ "postfix" \in Fns /\ "splat" \in Fns
    /\ "cond" \in Ats /\ "then" \in Ats /\ "else" \in Ats /\ "left" \in Ats
    /\ "right" \in Ats /\ "operand" \in Ats /\ "inner" \in Ats /\ "item" \in Ats
    /\ "close" \in Ats /\ "coll" \in Ats /\ "key" \in Ats /\ "value" \in Ats
    /\ "filter" \in Ats /\ "rel" \in Ats /\ "index" \in Ats
BY DEF Fns, Ats

LEMMA NoneOwned ==
    /\ <<>> \in Seq(Nat) /\ Len(<<>>) = 0 /\ Of(<<>>) = {} /\ Injective(<<>>)
    /\ \A f : f.own = <<>> => Owned(f) = {} /\ Injective(f.own) /\ Len(f.own) = 0
BY DEF Of, Owned, Injective

LEMMA OneOwned ==
    \A n \in Nat : /\ <<n>> \in Seq(Nat) /\ Len(<<n>>) = 1 /\ Of(<<n>>) = {n} /\ Injective(<<n>>)
                   /\ <<n>>[1] = n
                   /\ \A f : f.own = <<n>> => Owned(f) = {n}
BY DEF Of, Owned, Injective

LEMMA TwoOwned ==
    \A n, m \in Nat : /\ <<n, m>> \in Seq(Nat) /\ Len(<<n, m>>) = 2 /\ Of(<<n, m>>) = {n, m}
                      /\ n # m => Injective(<<n, m>>)
                      /\ <<n, m>>[1] = n /\ <<n, m>>[2] = m
                      /\ \A f : f.own = <<n, m>> => Owned(f) = {n, m}
BY DEF Of, Owned, Injective

\* A function that holds nothing is called.
LEMMA GoodCall ==
    ASSUME NEW s, NEW h, NEW fr, NEW cs, NEW E, Good(s, h, fr, cs, E),
           NEW f \in Frames, f.own = <<>>, FrameOK(s, f), CallOK(s, cs, f),
           f.at \in {"cond", "left", "operand", "inner"}, f.fn \in {"expr", "binary", "unary", "paren"}
    PROVE  /\ Good(s, h, fr, Append(cs, f), E)
           /\ Append(cs, f) # <<>> /\ Upper(Append(cs, f)) = f
<1>1. HoldOK(s, h, f)
  BY DEF HoldOK, Lists, ListFns
<1>2. Owned(f) = {} /\ Injective(f.own) /\ E \ Owned(f) = E /\ Owned(f) \subseteq E
  BY NoneOwned
<1> QED
  BY <1>1, <1>2, GoodPush

\* parse_binary(bp) begins.
LEMMA BinaryBegins ==
    ASSUME NEW s, NEW bp \in 1 .. 7
    PROVE  LET f == BinaryFrame(bp) IN
           /\ f \in Frames /\ f.own = <<>> /\ FrameOK(s, f)
           /\ f.fn = "binary" /\ f.at = "left" /\ f.bp = bp
           /\ WantsUnary(f) /\ Waiting(f)
<1> DEFINE f == Frame("binary", "left", bp, 0, <<>>)
<1>1. /\ f.fn = "binary" /\ f.at = "left" /\ f.bp = bp /\ f.own = <<>>
      /\ f \in Frames
  <2>1. "binary" \in Fns /\ "left" \in Ats /\ bp \in 0 .. 7 /\ 0 \in Nat /\ <<>> \in Seq(Nat)
    BY Known
  <2> QED
    BY <2>1, FrameIs DEF Frame
<1>2. BinaryFrame(bp) = f
  BY DEF BinaryFrame
<1> HIDE DEF f
<1>3. FrameOK(s, f)
  BY <1>1, NoneOwned DEF FrameOK, ListFns
<1> QED
  BY <1>1, <1>2, <1>3 DEF WantsUnary, Waiting

\* parse_expr begins.
LEMMA ExprBegins ==
    ASSUME NEW s, NEW h, NEW fr, NEW cs, Good(s, h, fr, cs, {}),
           cs # <<>> => Waiting(Upper(cs)) /\ Hosts(Upper(cs))
    PROVE  /\ Good(s, h, fr, cs \o ExprFrames, {})
           /\ cs \o ExprFrames # <<>> /\ WantsUnary(Upper(cs \o ExprFrames))
<1> DEFINE e == Frame("expr", "cond", 0, 0, <<>>)
           b == BinaryFrame(1)
           t == Append(cs, e)
<1>1. /\ e.fn = "expr" /\ e.at = "cond" /\ e.own = <<>> /\ e \in Frames
  <2>1. "expr" \in Fns /\ "cond" \in Ats /\ 0 \in 0 .. 7 /\ 0 \in Nat /\ <<>> \in Seq(Nat)
    BY Known
  <2> QED
    BY <2>1, FrameIs DEF Frame
<1> HIDE DEF e
<1>2. FrameOK(s, e)
  BY <1>1, NoneOwned DEF FrameOK, ListFns
<1>3. CallOK(s, cs, e)
  BY <1>1 DEF CallOK, CallsOn
<1>4. Good(s, h, fr, t, {}) /\ t # <<>> /\ Upper(t) = e
  BY <1>1, <1>2, <1>3, GoodCall
<1>5. /\ b \in Frames /\ b.own = <<>> /\ FrameOK(s, b) /\ b.fn = "binary" /\ b.at = "left" /\ b.bp = 1
      /\ WantsUnary(b)
  BY BinaryBegins
<1>6. cs \in Seq(Frames) /\ t \in Seq(Frames)
  BY <1>4, GoodHand
<1> HIDE DEF b
<1>7. CallOK(s, t, b)
  BY <1>1, <1>4, <1>5 DEF CallOK, CallsOn, Waiting
<1>8. Good(s, h, fr, Append(t, b), {}) /\ Append(t, b) # <<>> /\ Upper(Append(t, b)) = b
  <2> HIDE DEF t
  <2> QED
    BY <1>4, <1>5, <1>7, GoodCall
<1>9. Append(t, b) = cs \o <<e, b>>
  BY <1>1, <1>5, <1>6
<1>10. ExprFrames = <<e, b>>
  BY DEF ExprFrames, e, b
<1> QED
  BY <1>5, <1>8, <1>9, <1>10

LEMMA ToExpr ==
    ASSUME IInv, NEW stack, NEW i \in 1 .. Len(src) + 1, Expr(stack, i),
           Good(src, heap', freed', stack, {}),
           stack # <<>> => Waiting(Upper(stack)) /\ Hosts(Upper(stack)),
           faults' \in 0 .. MaxFaults
    PROVE  IInv'
<1>1. /\ Good(src, heap', freed', stack \o ExprFrames, {})
      /\ stack \o ExprFrames # <<>> /\ WantsUnary(Upper(stack \o ExprFrames))
  BY ExprBegins
<1>2. Operand(stack \o ExprFrames, i)
  BY DEF Expr
<1> QED
  BY <1>1, <1>2, ToOperand

LEMMA ToRun ==
    ASSUME IInv, NEW stack, NEW i \in 1 .. Len(src) + 1, GoOn(stack, i),
           Good(src, heap', freed', stack, {}), stack # <<>>, Running(Upper(stack)),
           Upper(stack).fn = "postfix" => EndsAt(src, i, heap'[Upper(stack).own[1]]),
           faults' \in 0 .. MaxFaults
    PROVE  IInv'
<1>1. /\ src' = src /\ calls' = stack /\ ret' = "run" /\ val' = 0 /\ pos' = i
      /\ {val'} \ {0} = {} /\ src \in Sources
  BY DEF GoOn, IInv
<1>2. Good(src', heap', freed', calls', {val'} \ {0})
  BY <1>1
<1>3. Turn(src', pos', ret', val', calls', heap')
  BY <1>1 DEF Turn
<1> QED
  BY <1>1, <1>2, <1>3 DEF IInv

\* The primary n is complete, and parse_postfix goes on with it.
LEMMA ToPostfix ==
    ASSUME IInv, NEW stack, NEW n, NEW i \in 1 .. Len(src) + 1, PostfixOf(stack, n, i),
           Good(src, heap', freed', stack, {n}), stack # <<>>,
           Waiting(Upper(stack)), WantsUnary(Upper(stack)),
           Binds(heap'[n]) = 7, EndsAt(src, i, heap'[n]),
           faults' \in 0 .. MaxFaults
    PROVE  IInv'
<1> DEFINE f == Frame("postfix", "rel", 0, 0, <<n>>)
<1>1. n \in Nat
  <2>1. {n} \subseteq 1 .. Len(heap')
    BY GoodHand DEF Ids
  <2> QED
    BY <2>1
<1>2. <<n>> \in Seq(Nat) /\ Len(<<n>>) = 1 /\ Injective(<<n>>) /\ <<n>>[1] = n
  BY <1>1, OneOwned
<1>3. /\ f.fn = "postfix" /\ f.at = "rel" /\ f.own = <<n>> /\ f \in Frames
  <2>1. "postfix" \in Fns /\ "rel" \in Ats /\ 0 \in 0 .. 7 /\ 0 \in Nat
    BY Known
  <2> QED
    BY <1>2, <2>1, FrameIs DEF Frame
<1>4. PostfixOf(stack, n, i) <=> GoOn(Append(stack, f), i)
  BY DEF PostfixOf
<1> HIDE DEF f
<1>5. FrameOK(src, f) /\ HoldOK(src, heap', f) /\ Running(f) /\ CallOK(src, stack, f)
  BY <1>2, <1>3 DEF FrameOK, HoldOK, Running, CallOK, CallsOn, Lists, ListFns
<1>6. Owned(f) = {n} /\ Injective(f.own) /\ {n} \ Owned(f) = {}
  BY <1>1, <1>2, <1>3, OneOwned
<1>7. /\ Good(src, heap', freed', Append(stack, f), {}) /\ Append(stack, f) # <<>>
      /\ Upper(Append(stack, f)) = f
  BY <1>3, <1>5, <1>6, GoodPush
<1>8. Upper(Append(stack, f)).own[1] = n
  BY <1>2, <1>3, <1>7
<1> QED
  BY <1>4, <1>5, <1>7, <1>8, ToRun

LEMMA ToReturn ==
    ASSUME IInv, calls # <<>>, NEW n, NEW i \in 1 .. Len(src) + 1, Return(n, i),
           Good(src, heap', freed', Under(calls), {n}),
           EndsAt(src, i, heap'[n]),
           Under(calls) # <<>> => Fits(src, i, heap'[n], Upper(Under(calls))),
           faults' \in 0 .. MaxFaults
    PROVE  IInv'
<1>1. /\ src' = src /\ calls' = Under(calls) /\ ret' = "ok" /\ val' = n /\ pos' = i
      /\ src \in Sources
  BY TopFacts DEF Return, IInv
<1>2. n \in Ids(heap') /\ {n} \ {0} = {n}
  <2>1. {n} \subseteq Ids(heap')
    BY GoodHand
  <2> QED
    BY <2>1 DEF Ids
<1>3. Good(src', heap', freed', calls', {val'} \ {0})
  BY <1>1, <1>2
<1>4. calls' # <<>> => Waiting(Upper(calls'))
  BY <1>1, TopFacts DEF CallOK
<1>5. Turn(src', pos', ret', val', calls', heap')
  BY <1>1, <1>2, <1>4 DEF Turn
<1> QED
  BY <1>1, <1>3, <1>5 DEF IInv

\* An error: what the function owns and what it was given goes back.
LEMMA ToFail ==
    ASSUME IInv, calls # <<>>, Fails(({val} \ {0}) \cup Owned(Upper(calls))),
           faults' \in 0 .. MaxFaults
    PROVE  IInv'
<1> DEFINE ns == ({val} \ {0}) \cup Owned(Upper(calls))
<1>1. /\ src' = src /\ heap' = heap /\ calls' = Under(calls) /\ ret' = "fail" /\ val' = 0 /\ pos' = pos
      /\ freed' = freed \cup Visited(heap, ns)[Len(heap)]
      /\ src \in Sources /\ pos \in 1 .. Len(src) + 1
      /\ {val'} \ {0} = {}
  BY TopFacts DEF Fails, IInv, Reach
<1>2. Good(src, heap, freed, Under(calls), ns)
  BY TopFacts
<1>3. Good(src, heap, freed', Under(calls), {})
  <2> HIDE DEF ns
  <2>1. ns \ ns = {}
    OBVIOUS
  <2> QED
    BY <1>1, <1>2, <2>1, GoodFree
<1>4. Good(src', heap', freed', calls', {val'} \ {0})
  BY <1>1, <1>3
<1>5. calls' # <<>> => Waiting(Upper(calls'))
  BY <1>1, TopFacts DEF CallOK
<1>6. Turn(src', pos', ret', val', calls', heap')
  BY <1>1, <1>5 DEF Turn
<1> QED
  BY <1>1, <1>4, <1>6 DEF IInv

LEMMA HereIs ==
    ASSUME Top \in Frames, NEW at, NEW own
    PROVE  LET f == Here(at, own) IN
           /\ f.fn = Top.fn /\ f.at = at /\ f.bp = Top.bp /\ f.tok = Top.tok /\ f.own = own
           /\ at \in Ats /\ own \in Seq(Nat) => f \in Frames
BY DEF Here, Frames

LEMMA HereOne ==
    ASSUME Top \in Frames, NEW at \in Ats, NEW n \in Nat
    PROVE  LET f == Here(at, <<n>>) IN
           /\ f \in Frames /\ f.fn = Top.fn /\ f.bp = Top.bp /\ f.tok = Top.tok /\ f.at = at
           /\ Len(f.own) = 1 /\ f.own[1] = n /\ Of(f.own) = {n} /\ Injective(f.own)
<1> DEFINE f == Here(at, <<n>>)
<1>1. <<n>> \in Seq(Nat) /\ Len(<<n>>) = 1 /\ <<n>>[1] = n /\ Of(<<n>>) = {n} /\ Injective(<<n>>)
  BY OneOwned
<1>2. f.fn = Top.fn /\ f.at = at /\ f.bp = Top.bp /\ f.tok = Top.tok /\ f.own = <<n>> /\ f \in Frames
  BY <1>1 DEF Here, Frames
<1> HIDE DEF f
<1> QED
  BY <1>1, <1>2 DEF f

\* The function on top goes on as g, with cells of those in hand.
Resumed(h, E, g) ==
    /\ g \in Frames /\ g.fn = Top.fn /\ g.bp = Top.bp
    /\ Of(g.own) \subseteq E /\ Injective(g.own)
    /\ FrameOK(src, g) /\ HoldOK(src, h, g)

LEMMA Resumes ==
    ASSUME IInv, calls # <<>>, NEW h, NEW fr, NEW E, Good(src, h, fr, Under(calls), E),
           NEW g, Resumed(h, E, g)
    PROVE  LET t == Append(Below, g) IN
           Good(src, h, fr, t, E \ Of(g.own)) /\ t # <<>> /\ Upper(t) = g
<1>1. CallOK(src, Under(calls), Top) /\ Below = Under(calls)
  BY TopFacts
<1>2. /\ g \in Frames /\ g.fn = Top.fn /\ g.bp = Top.bp
      /\ Of(g.own) \subseteq E /\ Injective(g.own)
      /\ FrameOK(src, g) /\ HoldOK(src, h, g)
  BY DEF Resumed
<1>3. CallOK(src, Under(calls), g)
  BY <1>1, <1>2, CallSame
<1>4. Owned(g) = Of(g.own)
  BY DEF Owned, Of
<1> QED
  BY <1>1, <1>2, <1>3, <1>4, GoodPush

-----------------------------------------------------------------------------
(* The steps. *)

\* What is known when a function has returned to the one on top.
LEMMA Returns ==
    ASSUME IInv, ret = "ok", calls # <<>>
    PROVE  /\ Top = Upper(calls) /\ Below = Under(calls) /\ Top \in Frames /\ FrameOK(src, Top)
           /\ Good(src, heap, freed, Under(calls), {val} \cup Owned(Top))
           /\ CallOK(src, Under(calls), Top) /\ HoldOK(src, heap, Top) /\ Injective(Top.own)
           /\ val \notin Owned(Top) /\ Owned(Top) \subseteq Ids(heap) \ freed
           /\ val \in Ids(heap) /\ val \in Nat /\ ({val} \ {0}) \cup Owned(Upper(calls)) = {val} \cup Owned(Top)
           /\ EndsAt(src, pos, heap[val]) /\ Fits(src, pos, heap[val], Top)
           /\ src \in Sources /\ pos \in 1 .. Len(src) + 1 /\ heap \in Seq(Nodes) /\ HeapOK(heap)
<1>1. pos \in 1 .. Len(src) + 1
  BY DEF IInv
<1> QED
  BY <1>1, TopFacts, ReturnedFacts

LEMMA StepNext ==
    ASSUME IInv
    PROVE  /\ pos \in 1 .. Len(src) + 1 /\ Next1 \in 1 .. Len(src) + 1 /\ Next2 \in 1 .. Len(src) + 1
           /\ pos \in Nat /\ Next1 \in Nat
BY Positions DEF IInv, Next1, Next2

LEMMA HereTwo ==
    ASSUME Top \in Frames, NEW at \in Ats, NEW n \in Nat, NEW m \in Nat, n # m
    PROVE  LET f == Here(at, <<n, m>>) IN
           /\ f \in Frames /\ f.fn = Top.fn /\ f.bp = Top.bp /\ f.tok = Top.tok /\ f.at = at
           /\ Len(f.own) = 2 /\ f.own[1] = n /\ f.own[2] = m /\ Of(f.own) = {n, m} /\ Injective(f.own)
<1> DEFINE f == Here(at, <<n, m>>)
<1>1. /\ <<n, m>> \in Seq(Nat) /\ Len(<<n, m>>) = 2 /\ <<n, m>>[1] = n /\ <<n, m>>[2] = m
      /\ Of(<<n, m>>) = {n, m} /\ Injective(<<n, m>>)
  BY TwoOwned
<1>2. f.fn = Top.fn /\ f.at = at /\ f.bp = Top.bp /\ f.tok = Top.tok /\ f.own = <<n, m>> /\ f \in Frames
  BY <1>1 DEF Here, Frames
<1> HIDE DEF f
<1> QED
  BY <1>1, <1>2 DEF f

LEMMA HereNone ==
    ASSUME Top \in Frames, NEW at \in Ats
    PROVE  LET f == Here(at, <<>>) IN
           /\ f \in Frames /\ f.fn = Top.fn /\ f.bp = Top.bp /\ f.tok = Top.tok /\ f.at = at
           /\ Len(f.own) = 0 /\ f.own = <<>> /\ Of(f.own) = {} /\ Injective(f.own)
<1> DEFINE f == Here(at, <<>>)
<1>1. <<>> \in Seq(Nat) /\ Len(<<>>) = 0 /\ Of(<<>>) = {} /\ Injective(<<>>)
  BY NoneOwned
<1>2. f.fn = Top.fn /\ f.at = at /\ f.bp = Top.bp /\ f.tok = Top.tok /\ f.own = <<>> /\ f \in Frames
  BY <1>1 DEF Here, Frames
<1> HIDE DEF f
<1> QED
  BY <1>1, <1>2 DEF f

LEMMA ResumeExpr ==
    ASSUME IInv, calls # <<>>, NEW g, NEW i \in 1 .. Len(src) + 1, NEW E,
           Good(src, heap', freed', Under(calls), E), Resumed(heap', E, g), E \subseteq Of(g.own),
           Waiting(g), Hosts(g), Expr(Append(Below, g), i), faults' \in 0 .. MaxFaults
    PROVE  IInv'
<1> DEFINE t == Append(Below, g)
<1>1. E \ Of(g.own) = {}
  OBVIOUS
<1>2. Good(src, heap', freed', t, E \ Of(g.own)) /\ t # <<>> /\ Upper(t) = g
  BY Resumes
<1>3. Good(src, heap', freed', t, {})
  BY <1>1, <1>2
<1> QED
  BY <1>2, <1>3, ToExpr

LEMMA ResumeRun ==
    ASSUME IInv, calls # <<>>, NEW g, NEW i \in 1 .. Len(src) + 1, NEW E,
           Good(src, heap', freed', Under(calls), E), Resumed(heap', E, g), E \subseteq Of(g.own),
           Running(g), g.fn = "postfix" => EndsAt(src, i, heap'[g.own[1]]),
           GoOn(Append(Below, g), i), faults' \in 0 .. MaxFaults
    PROVE  IInv'
<1> DEFINE t == Append(Below, g)
<1>1. E \ Of(g.own) = {}
  OBVIOUS
<1>2. Good(src, heap', freed', t, E \ Of(g.own)) /\ t # <<>> /\ Upper(t) = g
  BY Resumes
<1>3. Good(src, heap', freed', t, {})
  BY <1>1, <1>2
<1> QED
  BY <1>2, <1>3, ToRun

LEMMA FailsReturned ==
    ASSUME IInv, ret = "ok", calls # <<>>, NEW ns, Fails(ns), ns = Owned(Top) \cup {val},
           Fault \/ UNCHANGED faults
    PROVE  IInv'
<1>1. ns = ({val} \ {0}) \cup Owned(Upper(calls))
  BY Returns
<1> QED
  BY <1>1, FaultCount, ToFail

LEMMA FailsRunning ==
    ASSUME IInv, ret \in {"run", "fail"}, calls # <<>>, NEW ns, Fails(ns), ns = Owned(Top),
           Fault \/ UNCHANGED faults
    PROVE  IInv'
<1>1. ns = ({val} \ {0}) \cup Owned(Upper(calls))
  BY TopFacts, QuietFacts
<1> QED
  BY <1>1, FaultCount, ToFail

LEMMA NodeIs ==
    ASSUME NEW kind \in NodeKinds, NEW op \in Kinds \cup {NoOp}, NEW kids \in Seq(Nat),
           NEW first \in Nat, NEW last \in Nat
    PROVE  Node(kind, op, kids, first, last) \in Nodes
BY DEF Node, Nodes

LEMMA Appended ==
    \A a, b, v : /\ Append(<<>>, v) = <<v>> /\ Append(<<a>>, v) = <<a, v>>
                 /\ Append(<<a, b>>, v) = <<a, b, v>>
<1> SUFFICES ASSUME NEW a, NEW b, NEW v
             PROVE  /\ Append(<<>>, v) = <<v>> /\ Append(<<a>>, v) = <<a, v>>
                    /\ Append(<<a, b>>, v) = <<a, b, v>>
  OBVIOUS
<1> DEFINE S == {a, b, v}
           x == Append(<<a>>, v)
           y == Append(<<a, b>>, v)
<1>1. /\ <<>> \in Seq(S) /\ <<a>> \in Seq(S) /\ <<a, b>> \in Seq(S) /\ v \in S
      /\ Len(<<a>>) = 1 /\ Len(<<a, b>>) = 2
  OBVIOUS
<1> HIDE DEF S
<1>2. Append(<<>>, v) = <<v>>
  BY <1>1
<1>3. /\ x \in Seq(S) /\ Len(x) = Len(<<a>>) + 1 /\ x[Len(<<a>>) + 1] = v
      /\ \A i \in 1 .. Len(<<a>>) : x[i] = <<a>>[i]
  BY <1>1, StackPush
<1>4. /\ y \in Seq(S) /\ Len(y) = Len(<<a, b>>) + 1 /\ y[Len(<<a, b>>) + 1] = v
      /\ \A i \in 1 .. Len(<<a, b>>) : y[i] = <<a, b>>[i]
  BY <1>1, StackPush
<1> HIDE DEF x, y
<1>5. x = <<a, v>>
  <2>1. Len(x) = 2 /\ x[1] = a /\ x[2] = v
    BY <1>1, <1>3
  <2> QED
    BY <1>3, <2>1
<1>6. y = <<a, b, v>>
  <2>1. Len(y) = 3 /\ y[1] = a /\ y[2] = b /\ y[3] = v
    BY <1>1, <1>4
  <2> QED
    BY <1>4, <2>1
<1> QED
  BY <1>2, <1>5, <1>6 DEF x, y

\* One string or node, then another: what a step that allocates two does.
LEMMA Joined ==
    ASSUME NEW h \in Seq(Nodes), NEW a \in Nodes, NEW b \in Nodes
    PROVE  /\ h \o <<a>> = Append(h, a) /\ h \o <<a, b>> = Append(Append(h, a), b)
           /\ Len(Append(h, a)) = Len(h) + 1 /\ Len(h) \in Nat
OBVIOUS

\* The function below the one on top.
LEMMA CallerFacts ==
    ASSUME IInv, calls # <<>>, Under(calls) # <<>>
    PROVE  LET f == Upper(Under(calls)) IN
           f \in Frames /\ FrameOK(src, f) /\ Waiting(f) /\ CallsOn(src, f, Top)
<1>1. StackOK(src, Under(calls)) /\ CallOK(src, Under(calls), Top)
  BY TopFacts DEF Good
<1>2. Upper(Under(calls)) \in Frames /\ FrameOK(src, Upper(Under(calls)))
  BY <1>1, StackUnder
<1> QED
  BY <1>1, <1>2 DEF CallOK

-----------------------------------------------------------------------------
(* parse_expr. *)

LEMMA CondOpens ==
    ASSUME IInv, CondBegins
    PROVE  IInv'
<1>1. /\ ret = "ok" /\ calls # <<>> /\ Top.fn = "expr" /\ Top.at = "cond"
      /\ Expr(Append(Below, Here("then", <<val>>)), Next1) /\ Same
  BY DEF CondBegins, Returned, In
<1>2. Top \in Frames /\ FrameOK(src, Top) /\ val \in Nat
  BY <1>1, Returns
<1>3. Owned(Top) = {}
  BY <1>1, <1>2, Owns DEF FrameOK
<1> DEFINE f == Here("then", <<val>>)
<1>4. /\ f \in Frames /\ f.fn = Top.fn /\ f.bp = Top.bp /\ f.at = "then"
      /\ Len(f.own) = 1 /\ Of(f.own) = {val} /\ Injective(f.own)
  <2>1. "then" \in Ats
    BY Known
  <2> QED
    BY <1>2, <2>1, HereOne
<1> HIDE DEF f
<1>5. /\ FrameOK(src, f) /\ HoldOK(src, heap, f) /\ Waiting(f) /\ Hosts(f)
  BY <1>1, <1>4 DEF FrameOK, HoldOK, Lists, ListFns, Waiting, Hosts
<1>6. heap' = heap /\ freed' = freed /\ faults' \in 0 .. MaxFaults /\ Next1 \in 1 .. Len(src) + 1
  BY <1>1, FaultCount, StepNext DEF Same
<1>7. Good(src, heap', freed', Under(calls), {val}) /\ Resumed(heap', {val}, f) /\ {val} \subseteq Of(f.own)
  BY <1>1, <1>3, <1>4, <1>5, <1>6, Returns DEF Resumed
<1> QED
  BY <1>1, <1>5, <1>6, <1>7, ResumeExpr DEF f

LEMMA CondGoesOn ==
    ASSUME IInv, CondElse
    PROVE  IInv'
<1>1. /\ ret = "ok" /\ calls # <<>> /\ Top.fn = "expr" /\ Top.at = "then"
      /\ Expr(Append(Below, Here("else", Append(Top.own, val))), Next1) /\ Same
  BY DEF CondElse, Returned, In
<1>2. Top \in Frames /\ FrameOK(src, Top) /\ val \in Nat /\ val \notin Owned(Top)
  BY <1>1, Returns
<1> DEFINE a == Top.own[1]
<1>3. Top.own = <<a>> /\ Owned(Top) = {a} /\ a \in Nat /\ a # val
  BY <1>1, <1>2, Owns DEF FrameOK
<1> HIDE DEF a
<1>4. Append(Top.own, val) = <<a, val>>
  BY <1>3, Appended
<1> DEFINE f == Here("else", <<a, val>>)
<1>5. /\ f \in Frames /\ f.fn = Top.fn /\ f.bp = Top.bp /\ f.at = "else"
      /\ Len(f.own) = 2 /\ Of(f.own) = {a, val} /\ Injective(f.own)
  <2>1. "else" \in Ats
    BY Known
  <2> QED
    BY <1>2, <1>3, <2>1, HereTwo
<1> HIDE DEF f
<1>6. /\ FrameOK(src, f) /\ HoldOK(src, heap, f) /\ Waiting(f) /\ Hosts(f)
  BY <1>1, <1>5 DEF FrameOK, HoldOK, Lists, ListFns, Waiting, Hosts
<1>7. heap' = heap /\ freed' = freed /\ faults' \in 0 .. MaxFaults /\ Next1 \in 1 .. Len(src) + 1
  BY <1>1, FaultCount, StepNext DEF Same
<1> DEFINE E == {a, val}
<1>8. Good(src, heap', freed', Under(calls), E)
  <2>1. {val} \cup Owned(Top) = E
    BY <1>3
  <2> HIDE DEF E
  <2> QED
    BY <1>1, <1>7, <2>1, Returns
<1>9. Resumed(heap', E, f) /\ E \subseteq Of(f.own)
  BY <1>5, <1>6, <1>7 DEF Resumed
<1>10. Expr(Append(Below, f), Next1)
  BY <1>1, <1>4 DEF f
<1> HIDE DEF E
<1> QED
  BY <1>1, <1>6, <1>7, <1>8, <1>9, <1>10, ResumeExpr

\* parse_expr returns only to those that want an expression.
LEMMA ExprFits ==
    ASSUME IInv, calls # <<>>, Top.fn = "expr", NEW p, NEW node
    PROVE  Under(calls) # <<>> => Fits(src, p, node, Upper(Under(calls)))
<1> DEFINE f == Upper(Under(calls))
<1> SUFFICES ASSUME Under(calls) # <<>> PROVE Fits(src, p, node, f)
  OBVIOUS
<1>1. f \in Frames /\ FrameOK(src, f) /\ Hosts(f)
  BY CallerFacts DEF CallsOn
<1> HIDE DEF f
<1>2. f.fn \in Fns
  BY <1>1, Owns
<1>3. f.at \notin {"left", "right", "operand"} /\ ~(f.fn = "postfix" /\ f.at = "inner")
  BY <1>1, <1>2 DEF Hosts, FrameOK, Fns, ListFns
<1> QED
  BY <1>3 DEF Fits

LEMMA ExprReturns ==
    ASSUME IInv, ExprDone
    PROVE  IInv'
<1>1. /\ ret = "ok" /\ calls # <<>> /\ Top.fn = "expr" /\ Top.at = "cond"
      /\ Return(val, pos) /\ Same
  BY DEF ExprDone, Returned, In
<1>2. /\ Top \in Frames /\ FrameOK(src, Top) /\ val \in Nat /\ EndsAt(src, pos, heap[val])
      /\ Good(src, heap, freed, Under(calls), {val} \cup Owned(Top))
  BY <1>1, Returns
<1>3. Owned(Top) = {}
  BY <1>1, <1>2, Owns DEF FrameOK
<1>4. heap' = heap /\ freed' = freed /\ faults' \in 0 .. MaxFaults /\ pos \in 1 .. Len(src) + 1
  BY <1>1, FaultCount, StepNext DEF Same
<1>5. Good(src, heap', freed', Under(calls), {val}) /\ EndsAt(src, pos, heap'[val])
  BY <1>2, <1>3, <1>4
<1>6. Under(calls) # <<>> => Fits(src, pos, heap'[val], Upper(Under(calls)))
  BY <1>1, ExprFits
<1> QED
  BY <1>1, <1>4, <1>5, <1>6, ToReturn

LEMMA CondReturns ==
    ASSUME IInv, CondDone
    PROVE  IInv'
<1> DEFINE a == Top.own[1]
           b == Top.own[2]
           node == Node("cond", NoOp, <<a, b, val>>, heap[a].first, heap[val].last)
           E == {a, b, val}
           new == Len(heap) + 1
<1>1. /\ ret = "ok" /\ calls # <<>> /\ Top.fn = "expr" /\ Top.at = "else"
      /\ Return(new, pos)
  BY DEF CondDone, Returned, In, Fresh
<1>2. /\ Top \in Frames /\ FrameOK(src, Top) /\ val \in Nat /\ EndsAt(src, pos, heap[val])
      /\ val \notin Owned(Top) /\ Owned(Top) \subseteq Ids(heap) \ freed /\ Injective(Top.own)
      /\ Good(src, heap, freed, Under(calls), {val} \cup Owned(Top)) /\ HeapOK(heap)
      /\ val \in Ids(heap) /\ heap \in Seq(Nodes)
  BY <1>1, Returns
<1>3. Top.own = <<a, b>> /\ Owned(Top) = {a, b} /\ a \in Nat /\ b \in Nat /\ a # b
  BY <1>1, <1>2, Owns DEF FrameOK
<1> HIDE DEF a, b
<1>4. Append(Top.own, val) = <<a, b, val>> /\ a # val /\ b # val /\ a \in Ids(heap)
  BY <1>2, <1>3, Appended
<1>5. heap' = heap \o <<node>> /\ freed' = freed /\ UNCHANGED faults
  BY <1>4 DEF CondDone, Allocates, a
<1>6. /\ <<a, b, val>> \in Seq(Nat) /\ Of(<<a, b, val>>) = E /\ Injective(<<a, b, val>>)
  BY <1>2, <1>3, <1>4 DEF Of, Injective
<1>7. /\ node \in Nodes /\ node.kind = "cond" /\ node.kids = <<a, b, val>> /\ node.last = heap[val].last
  <2>1. "cond" \in NodeKinds /\ NoOp \in Kinds \cup {NoOp}
    BY DEF NodeKinds
  <2>2. heap[a].first \in Nat /\ heap[val].last \in Nat
    BY <1>2, <1>4, HeapFacts
  <2> QED
    BY <1>6, <2>1, <2>2, NodeIs DEF Node
<1> HIDE DEF node
<1>8. Takes(heap, E, node) /\ E \ Of(node.kids) = {}
  BY <1>6, <1>7 DEF Takes
<1>9. Good(src, heap, freed, Under(calls), E)
  <2>1. {val} \cup Owned(Top) = E
    BY <1>3
  <2> HIDE DEF E
  <2> QED
    BY <1>2, <2>1
<1> HIDE DEF E
<1>10. /\ Good(src, Append(heap, node), freed, Under(calls), (E \ Of(node.kids)) \cup {new})
       /\ Append(heap, node)[new] = node
  BY <1>8, <1>9, Builds
<1>11. heap' = Append(heap, node)
  BY <1>2, <1>5, <1>7, Joined
<1>12. Good(src, heap', freed', Under(calls), {new}) /\ heap'[new] = node
  <2>1. (E \ Of(node.kids)) \cup {new} = {new}
    BY <1>8
  <2> QED
    BY <1>5, <1>10, <1>11, <2>1
<1>13. EndsAt(src, pos, heap'[new])
  BY <1>2, <1>7, <1>12 DEF EndsAt
<1>14. faults' \in 0 .. MaxFaults /\ pos \in 1 .. Len(src) + 1
  BY <1>5, FaultCount, StepNext
<1>15. Under(calls) # <<>> => Fits(src, pos, heap'[new], Upper(Under(calls)))
  BY <1>1, ExprFits
<1> QED
  BY <1>1, <1>12, <1>13, <1>14, <1>15, ToReturn

LEMMA ExprKeeps ==
    ASSUME IInv, ExprStep
    PROVE  IInv'
<1>1. CASE CondWithoutElse
  <2>1. ret = "ok" /\ calls # <<>> /\ Fails(Owned(Top) \cup {val}) /\ UNCHANGED faults
    BY <1>1 DEF CondWithoutElse, Returned, In
  <2> QED
    BY <2>1, FailsReturned
<1>2. CASE CondLost
  <2>1. ret = "ok" /\ calls # <<>> /\ Fails(Owned(Top) \cup {val}) /\ Fault
    BY <1>2 DEF CondLost, Returned, In
  <2> QED
    BY <2>1, FailsReturned
<1> QED
  BY <1>1, <1>2, CondOpens, CondGoesOn, CondReturns, ExprReturns DEF ExprStep

-----------------------------------------------------------------------------
(* parse_binary. *)

LEMMA OperatorRead ==
    ASSUME IInv, BinaryOperator
    PROVE  IInv'
<1> DEFINE f == [Here("right", <<val>>) EXCEPT !.tok = pos]
           g == BinaryFrame(Bp(T) + 1)
           t == Append(Below, f)
<1>1. /\ ret = "ok" /\ calls # <<>> /\ Top.fn = "binary" /\ Top.at = "left"
      /\ Bp(T) > 0 /\ Bp(T) >= Top.bp /\ Operand(Below \o <<f, g>>, Next1) /\ Same
  BY DEF BinaryOperator, Returned, In
<1>2. /\ Top \in Frames /\ FrameOK(src, Top) /\ val \in Nat /\ Fits(src, pos, heap[val], Top)
      /\ Below = Under(calls) /\ CallOK(src, Under(calls), Top)
      /\ Good(src, heap, freed, Under(calls), {val} \cup Owned(Top))
  BY <1>1, Returns
<1>3. Owned(Top) = {} /\ Top.bp >= 1 /\ Top.bp \in 0 .. 7
  BY <1>1, <1>2, Owns DEF FrameOK
<1>4. /\ <<val>> \in Seq(Nat) /\ Len(<<val>>) = 1 /\ <<val>>[1] = val /\ Injective(<<val>>)
  BY <1>2, OneOwned
<1>5. pos \in Nat /\ Next1 \in 1 .. Len(src) + 1
  BY StepNext
<1>6. /\ f \in Frames /\ f.fn = "binary" /\ f.bp = Top.bp /\ f.at = "right" /\ f.tok = pos
      /\ f.own = <<val>>
  <2>1. "right" \in Ats
    BY Known
  <2> QED
    BY <1>1, <1>2, <1>4, <1>5, <2>1 DEF Here, Frames
<1> HIDE DEF f
<1>7. Bp(At(src, f.tok)) = Bp(T) /\ Bp(T) \in 1 .. 6
  <2>1. At(src, f.tok) = T
    BY <1>6 DEF T, Tok
  <2>2. Bp(T) \in 0 .. 6
    BY BpRange
  <2> QED
    BY <1>1, <2>1, <2>2
<1>8. FrameOK(src, f)
  BY <1>1, <1>3, <1>4, <1>6, <1>7 DEF FrameOK, ListFns
<1>9. HoldOK(src, heap, f)
  <2>1. Binds(heap[val]) >= Bp(At(src, f.tok))
    BY <1>1, <1>2, <1>6 DEF Fits
  <2> QED
    BY <1>4, <1>6, <2>1 DEF HoldOK, Lists, ListFns
<1>10. CallOK(src, Under(calls), f)
  BY <1>1, <1>2, <1>6, CallSame
<1>11. Good(src, heap, freed, Under(calls), {val})
  BY <1>2, <1>3
<1>12. Owned(f) = {val} /\ Injective(f.own) /\ {val} \ Owned(f) = {}
  BY <1>2, <1>4, <1>6, OneOwned
<1>13. Good(src, heap, freed, t, {}) /\ t # <<>> /\ Upper(t) = f
  <2>1. /\ f \in Frames /\ FrameOK(src, f) /\ HoldOK(src, heap, f) /\ CallOK(src, Under(calls), f)
        /\ Good(src, heap, freed, Under(calls), {val}) /\ Owned(f) \subseteq {val} /\ Injective(f.own)
    BY <1>6, <1>8, <1>9, <1>10, <1>11, <1>12
  <2>2. /\ Good(src, heap, freed, Append(Under(calls), f), {val} \ Owned(f))
        /\ Append(Under(calls), f) # <<>> /\ Upper(Append(Under(calls), f)) = f
    BY <2>1, GoodPush
  <2> QED
    BY <1>2, <1>12, <2>2
<1>14. /\ g \in Frames /\ g.own = <<>> /\ FrameOK(src, g) /\ g.fn = "binary" /\ g.at = "left"
       /\ g.bp = Bp(T) + 1 /\ WantsUnary(g)
  <2>1. Bp(T) + 1 \in 1 .. 7
    BY <1>7
  <2> QED
    BY <2>1, BinaryBegins
<1> HIDE DEF g
<1>15. CallOK(src, t, g)
  BY <1>6, <1>7, <1>13, <1>14 DEF CallOK, CallsOn, Waiting
<1>16. Below \o <<f, g>> = Append(t, g)
  <2>1. Below \in Seq(Frames)
    BY <1>2, <1>11, GoodHand
  <2> QED
    BY <1>6, <1>14, <2>1
<1> HIDE DEF t
<1>17. Good(src, heap, freed, Append(t, g), {}) /\ Append(t, g) # <<>> /\ Upper(Append(t, g)) = g
  BY <1>13, <1>14, <1>15, GoodCall
<1>18. heap' = heap /\ freed' = freed /\ faults' \in 0 .. MaxFaults
  BY <1>1, FaultCount DEF Same
<1>19. Operand(Append(t, g), Next1) /\ Good(src, heap', freed', Append(t, g), {})
       /\ WantsUnary(Upper(Append(t, g)))
  BY <1>1, <1>14, <1>16, <1>17, <1>18
<1> QED
  BY <1>5, <1>17, <1>18, <1>19, ToOperand

LEMMA OperatorApplied ==
    ASSUME IInv, BinaryBuilt
    PROVE  IInv'
<1> DEFINE a == Top.own[1]
           op == Tok(Top.tok)
           node == Node("binary", op, <<a, val>>, Top.tok, heap[val].last)
           E == {a, val}
           new == Len(heap) + 1
           f == Here("left", <<>>)
           t == Append(Below, f)
<1>1. /\ ret = "ok" /\ calls # <<>> /\ Top.fn = "binary" /\ Top.at = "right"
      /\ heap' = heap \o <<node>> /\ freed' = freed /\ UNCHANGED faults
      /\ calls' = t /\ val' = new /\ src' = src /\ ret' = "ok" /\ pos' = pos
  BY DEF BinaryBuilt, Returned, In, Fresh, Allocates
<1>2. /\ Top \in Frames /\ FrameOK(src, Top) /\ val \in Nat /\ EndsAt(src, pos, heap[val])
      /\ val \notin Owned(Top) /\ HoldOK(src, heap, Top) /\ Fits(src, pos, heap[val], Top)
      /\ Good(src, heap, freed, Under(calls), {val} \cup Owned(Top)) /\ HeapOK(heap)
      /\ val \in Ids(heap) /\ heap \in Seq(Nodes) /\ src \in Sources
  BY <1>1, Returns
<1>3. /\ Top.own = <<a>> /\ Owned(Top) = {a} /\ a \in Nat /\ Bp(op) >= Top.bp /\ Top.bp >= 1
      /\ Top.bp \in 0 .. 7 /\ Top.tok \in Nat
  BY <1>1, <1>2, Owns DEF FrameOK, Tok
<1>4. /\ Binds(heap[a]) >= Bp(op) /\ Binds(heap[val]) > Bp(op) /\ Bp(T) <= Bp(op)
  BY <1>1, <1>2 DEF HoldOK, Fits, T, Tok
<1>5. a # val
  BY <1>2, <1>3
<1>6. op \in Kinds
  BY <1>2, SourceFacts
<1> HIDE DEF a, op
<1>7. <<a, val>> \in Seq(Nat) /\ Len(<<a, val>>) = 2 /\ Of(<<a, val>>) = E /\ Injective(<<a, val>>)
      /\ <<a, val>>[1] = a /\ <<a, val>>[2] = val
  BY <1>2, <1>3, <1>5, TwoOwned
<1>8. /\ node \in Nodes /\ node.kind = "binary" /\ node.kids = <<a, val>> /\ node.op = op
      /\ node.last = heap[val].last /\ Binds(node) = Bp(op)
  <2>1. "binary" \in NodeKinds /\ op \in Kinds \cup {NoOp}
    BY <1>6 DEF NodeKinds
  <2>2. heap[val].last \in Nat
    BY <1>2, HeapFacts
  <2> QED
    BY <1>3, <1>7, <2>1, <2>2, NodeIs DEF Node, Binds
<1> HIDE DEF node
<1>9. Takes(heap, E, node) /\ E \ Of(node.kids) = {}
  BY <1>4, <1>7, <1>8 DEF Takes
<1>10. Good(src, heap, freed, Under(calls), E)
  <2>1. {val} \cup Owned(Top) = E
    BY <1>3
  <2> HIDE DEF E
  <2> QED
    BY <1>2, <2>1
<1> HIDE DEF E
<1>11. /\ Good(src, Append(heap, node), freed, Under(calls), (E \ Of(node.kids)) \cup {new})
       /\ Append(heap, node)[new] = node /\ new \in Ids(Append(heap, node)) /\ new \in Nat \ {0}
  BY <1>9, <1>10, Builds
<1>12. heap' = Append(heap, node)
  BY <1>1, <1>2, <1>8, Joined
<1>13. Good(src, heap', freed', Under(calls), {new}) /\ heap'[new] = node /\ new \in Ids(heap')
  <2>1. (E \ Of(node.kids)) \cup {new} = {new}
    BY <1>9
  <2> QED
    BY <1>1, <1>11, <1>12, <2>1
<1>14. /\ f \in Frames /\ f.fn = Top.fn /\ f.bp = Top.bp /\ f.at = "left"
       /\ Len(f.own) = 0 /\ Of(f.own) = {} /\ Injective(f.own)
  <2>1. "left" \in Ats
    BY Known
  <2> QED
    BY <1>2, <2>1, HereNone
<1> HIDE DEF f, new
<1>15. Resumed(heap', {new}, f)
  <2>1. FrameOK(src, f)
    BY <1>1, <1>3, <1>14 DEF FrameOK, ListFns
  <2>2. HoldOK(src, heap', f)
    BY <1>1, <1>14 DEF HoldOK, Lists, ListFns
  <2> QED
    BY <1>14, <2>1, <2>2 DEF Resumed
<1>16. Good(src, heap', freed', t, {new}) /\ t # <<>> /\ Upper(t) = f
  <2>1. {new} \ Of(f.own) = {new}
    BY <1>14
  <2> QED
    BY <1>1, <1>13, <1>15, <2>1, Resumes
<1> HIDE DEF t
<1>17. Fits(src, pos, node, f)
  BY <1>1, <1>3, <1>4, <1>8, <1>14 DEF Fits, T, Tok
<1>18. EndsAt(src, pos, node) /\ Waiting(f)
  BY <1>1, <1>2, <1>8, <1>14 DEF EndsAt, Waiting
<1>19. {val'} \ {0} = {new}
  BY <1>1, <1>11
<1>20. Turn(src', pos', ret', val', calls', heap')
  BY <1>1, <1>13, <1>16, <1>17, <1>18 DEF Turn
<1>21. faults' \in 0 .. MaxFaults /\ pos \in 1 .. Len(src) + 1
  BY <1>1, FaultCount, StepNext
<1>22. Good(src', heap', freed', calls', {val'} \ {0})
  BY <1>1, <1>16, <1>19
<1> QED
  BY <1>1, <1>2, <1>20, <1>21, <1>22 DEF IInv

LEMMA OperandsEnd ==
    ASSUME IInv, BinaryDone
    PROVE  IInv'
<1>1. /\ ret = "ok" /\ calls # <<>> /\ Top.fn = "binary" /\ Top.at = "left"
      /\ Bp(T) = 0 \/ Bp(T) < Top.bp
      /\ Return(val, pos) /\ Same
  BY DEF BinaryDone, Returned, In
<1>2. /\ Top \in Frames /\ FrameOK(src, Top) /\ val \in Nat /\ EndsAt(src, pos, heap[val])
      /\ Fits(src, pos, heap[val], Top)
      /\ Good(src, heap, freed, Under(calls), {val} \cup Owned(Top))
  BY <1>1, Returns
<1>3. Owned(Top) = {} /\ Top.bp \in 0 .. 7
  BY <1>1, <1>2, Owns DEF FrameOK
<1>4. heap' = heap /\ freed' = freed /\ faults' \in 0 .. MaxFaults /\ pos \in 1 .. Len(src) + 1
  BY <1>1, FaultCount, StepNext DEF Same
<1>5. Good(src, heap', freed', Under(calls), {val}) /\ EndsAt(src, pos, heap'[val])
  BY <1>2, <1>3, <1>4
<1>6. Under(calls) # <<>> => Fits(src, pos, heap[val], Upper(Under(calls)))
  <2> DEFINE f == Upper(Under(calls))
  <2> SUFFICES ASSUME Under(calls) # <<>> PROVE Fits(src, pos, heap[val], f)
    OBVIOUS
  <2>1. CallsOn(src, f, Top) /\ f \in Frames /\ FrameOK(src, f)
    BY <1>1, CallerFacts
  <2> HIDE DEF f
  <2>2. \/ f.at = "cond"
        \/ f.at = "right" /\ Top.bp = Bp(At(src, f.tok)) + 1
    BY <1>1, <2>1 DEF CallsOn
  <2>3. Binds(heap[val]) >= Top.bp
    BY <1>1, <1>2 DEF Fits
  <2>4. Bp(At(src, f.tok)) \in 0 .. 6 /\ Bp(T) \in 0 .. 6 /\ Binds(heap[val]) \in 0 .. 7 /\ Bp(T) = Bp(At(src, pos))
    BY BpRange, BindsRange DEF T, Tok
  <2>5. CASE f.at = "cond"
    BY <2>5 DEF Fits
  <2>6. CASE f.at = "right" /\ Top.bp = Bp(At(src, f.tok)) + 1
    <3>1. Binds(heap[val]) > Bp(At(src, f.tok))
      BY <2>3, <2>4, <2>6
    <3>2. Bp(At(src, pos)) <= Bp(At(src, f.tok))
      BY <1>1, <1>3, <2>4, <2>6
    <3> QED
      BY <2>6, <3>1, <3>2 DEF Fits
  <2> QED
    BY <2>2, <2>5, <2>6
<1> QED
  BY <1>1, <1>4, <1>5, <1>6, ToReturn

LEMMA BinaryKeeps ==
    ASSUME IInv, BinaryStep
    PROVE  IInv'
<1>1. CASE BinaryLost
  <2>1. ret = "ok" /\ calls # <<>> /\ Fails(Owned(Top) \cup {val}) /\ Fault
    BY <1>1 DEF BinaryLost, Returned, In
  <2> QED
    BY <2>1, FailsReturned
<1> QED
  BY <1>1, OperatorRead, OperatorApplied, OperandsEnd DEF BinaryStep

-----------------------------------------------------------------------------
(* parse_unary. *)

\* What is known when an operand is to be parsed.
LEMMA Asked ==
    ASSUME IInv, ret = "unary"
    PROVE  /\ calls # <<>> /\ WantsUnary(Upper(calls)) /\ Waiting(Upper(calls))
           /\ Good(src, heap, freed, calls, {}) /\ src \in Sources /\ T \in Kinds
           /\ heap \in Seq(Nodes) /\ Len(heap) \in Nat
           /\ pos \in 1 .. Len(src) + 1 /\ pos \in Nat
           /\ Next1 \in 1 .. Len(src) + 1 /\ Next2 \in 1 .. Len(src) + 1 /\ Next1 \in Nat
<1>1. calls # <<>> /\ WantsUnary(Upper(calls)) /\ src \in Sources
  BY DEF IInv, Turn
<1>2. Good(src, heap, freed, calls, {})
  BY QuietFacts DEF IInv
<1>3. Waiting(Upper(calls))
  <2>1. Upper(calls) \in Frames /\ FrameOK(src, Upper(calls))
    BY <1>1, TopFacts
  <2>2. Upper(calls).fn \in Fns
    BY <2>1, Owns
  <2> QED
    BY <1>1, <2>1, <2>2 DEF WantsUnary, Waiting, FrameOK, Fns, ListFns
<1>4. heap \in Seq(Nodes) /\ Len(heap) \in Nat
  BY <1>2, GoodHand, HeapFacts
<1>5. T \in Kinds
  BY <1>1, SourceFacts DEF T
<1> QED
  BY <1>1, <1>2, <1>3, <1>4, <1>5, StepNext

LEMMA PrefixRead ==
    ASSUME IInv, Prefixed
    PROVE  IInv'
<1> DEFINE f == Frame("unary", "operand", 0, pos, <<>>)
<1>1. ret = "unary" /\ Operand(Append(calls, f), Next1) /\ Same
  BY DEF Prefixed
<1>2. /\ calls # <<>> /\ WantsUnary(Upper(calls)) /\ Waiting(Upper(calls))
      /\ Good(src, heap, freed, calls, {}) /\ pos \in Nat /\ Next1 \in 1 .. Len(src) + 1
  BY <1>1, Asked
<1>3. /\ f \in Frames /\ f.own = <<>> /\ f.fn = "unary" /\ f.at = "operand"
  <2>1. "unary" \in Fns /\ "operand" \in Ats /\ 0 \in 0 .. 7 /\ <<>> \in Seq(Nat)
    BY Known
  <2> QED
    BY <1>2, <2>1, FrameIs DEF Frame
<1> HIDE DEF f
<1>4. FrameOK(src, f) /\ WantsUnary(f)
  BY <1>3, NoneOwned DEF FrameOK, ListFns, WantsUnary
<1>5. CallOK(src, calls, f)
  BY <1>2, <1>3 DEF CallOK, CallsOn
<1>6. Good(src, heap, freed, Append(calls, f), {}) /\ Append(calls, f) # <<>> /\ Upper(Append(calls, f)) = f
  BY <1>2, <1>3, <1>4, <1>5, GoodCall
<1>7. heap' = heap /\ freed' = freed /\ faults' \in 0 .. MaxFaults
  BY <1>1, FaultCount DEF Same
<1>8. Good(src, heap', freed', Append(calls, f), {}) /\ WantsUnary(Upper(Append(calls, f)))
  BY <1>4, <1>6, <1>7
<1> QED
  BY <1>1, <1>2, <1>6, <1>7, <1>8, ToOperand

\* A node that binds tighter than any operator fits whoever wants an operand.
LEMMA AtomFits ==
    ASSUME NEW s, NEW p, NEW node, Binds(node) = 7, NEW f, WantsUnary(f)
    PROVE  f \in Frames => Fits(s, p, node, f)
<1> SUFFICES ASSUME f \in Frames PROVE Fits(s, p, node, f)
  OBVIOUS
<1>1. f.bp \in 0 .. 7 /\ Bp(At(s, p)) \in 0 .. 6
  BY BpRange, Owns
<1> QED
  BY <1>1 DEF Fits, WantsUnary

LEMMA PrefixApplied ==
    ASSUME IInv, UnaryBuilt
    PROVE  IInv'
<1> DEFINE op == Tok(Top.tok)
           node == Node("unary", op, <<val>>, Top.tok, heap[val].last)
           E == {val}
           new == Len(heap) + 1
<1>1. /\ ret = "ok" /\ calls # <<>> /\ Top.fn = "unary" /\ Top.at = "operand"
      /\ heap' = heap \o <<node>> /\ freed' = freed /\ UNCHANGED faults
      /\ Return(new, pos)
  BY DEF UnaryBuilt, Returned, In, Fresh, Allocates
<1>2. /\ Top \in Frames /\ FrameOK(src, Top) /\ val \in Nat /\ EndsAt(src, pos, heap[val])
      /\ Good(src, heap, freed, Under(calls), {val} \cup Owned(Top)) /\ HeapOK(heap)
      /\ val \in Ids(heap) /\ heap \in Seq(Nodes) /\ src \in Sources
  BY <1>1, Returns
<1>3. Owned(Top) = {} /\ Top.tok \in Nat /\ op \in Kinds
  BY <1>1, <1>2, Owns, SourceFacts DEF FrameOK
<1> HIDE DEF op
<1>4. <<val>> \in Seq(Nat) /\ Of(<<val>>) = E /\ Injective(<<val>>)
  BY <1>2, OneOwned
<1>5. /\ node \in Nodes /\ node.kind = "unary" /\ node.kids = <<val>> /\ node.last = heap[val].last
  <2>1. "unary" \in NodeKinds /\ op \in Kinds \cup {NoOp}
    BY <1>3 DEF NodeKinds
  <2>2. heap[val].last \in Nat
    BY <1>2, HeapFacts
  <2> QED
    BY <1>3, <1>4, <2>1, <2>2, NodeIs DEF Node
<1> HIDE DEF node
<1>6. Takes(heap, E, node) /\ E \ Of(node.kids) = {}
  BY <1>4, <1>5 DEF Takes
<1>7. Good(src, heap, freed, Under(calls), E)
  BY <1>2, <1>3
<1> HIDE DEF E
<1>8. /\ Good(src, Append(heap, node), freed, Under(calls), (E \ Of(node.kids)) \cup {new})
      /\ Append(heap, node)[new] = node
  BY <1>6, <1>7, Builds
<1>9. heap' = Append(heap, node)
  BY <1>1, <1>2, <1>5, Joined
<1>10. Good(src, heap', freed', Under(calls), {new}) /\ heap'[new] = node
  <2>1. (E \ Of(node.kids)) \cup {new} = {new}
    BY <1>6
  <2> QED
    BY <1>1, <1>8, <1>9, <2>1
<1>11. EndsAt(src, pos, heap'[new])
  BY <1>2, <1>5, <1>10 DEF EndsAt
<1>12. faults' \in 0 .. MaxFaults /\ pos \in 1 .. Len(src) + 1
  BY <1>1, FaultCount, StepNext
<1>13. Under(calls) # <<>> => Fits(src, pos, heap'[new], Upper(Under(calls)))
  <2>1. Binds(heap'[new]) = 7
    BY <1>5, <1>10, BindsRange
  <2>2. Under(calls) # <<>> => WantsUnary(Upper(Under(calls))) /\ Upper(Under(calls)) \in Frames
    BY <1>1, CallerFacts DEF CallsOn
  <2> QED
    BY <2>1, <2>2, AtomFits
<1> QED
  BY <1>1, <1>10, <1>11, <1>12, <1>13, ToReturn

LEMMA UnaryKeeps ==
    ASSUME IInv, UnaryStep
    PROVE  IInv'
<1>1. CASE UnaryLost
  <2>1. ret = "ok" /\ calls # <<>> /\ Fails({val}) /\ Fault /\ Top.fn = "unary"
    BY <1>1 DEF UnaryLost, Returned, In
  <2>2. Owned(Top) = {}
    BY <2>1, Returns, Owns DEF FrameOK
  <2>3. {val} = Owned(Top) \cup {val}
    BY <2>2
  <2> QED
    BY <2>1, <2>3, FailsReturned
<1> QED
  BY <1>1, PrefixRead, PrefixApplied DEF UnaryStep

-----------------------------------------------------------------------------
(* parse_primary. *)

\* A string, or a node without kids.
Atom(a) == a \in Nodes /\ a.kids = <<>> /\ a.kind # "binary"

LEMMA Strings == Atom(Text) /\ Atom(LitValue)
<1>1. "text" \in NodeKinds /\ "value" \in NodeKinds /\ <<>> \in Seq(Nat) /\ 0 \in Nat
      /\ NoOp \in Kinds \cup {NoOp}
  BY DEF NodeKinds
<1>2. Text \in Nodes /\ LitValue \in Nodes
  BY <1>1, NodeIs DEF Text, LitValue
<1> QED
  BY <1>2 DEF Atom, Text, LitValue, Node

LEMMA BuildsAtom ==
    ASSUME NEW s, NEW h, NEW fr, NEW cs, NEW E, Good(s, h, fr, cs, E), NEW a, Atom(a)
    PROVE  LET g == Append(h, a)
               new == Len(h) + 1
           IN  /\ Good(s, g, fr, cs, E \cup {new})
               /\ Grows(h, g) /\ g[new] = a /\ Len(g) = new /\ new \notin E /\ new \in Nat \ {0}
<1> DEFINE g == Append(h, a)
           new == Len(h) + 1
<1>1. a \in Nodes /\ Of(a.kids) = {} /\ Takes(h, E, a)
  BY NoneOwned DEF Atom, Takes
<1>2. Good(s, g, fr, cs, (E \ Of(a.kids)) \cup {new})
  BY <1>1, Builds
<1>3. Grows(h, g)
  BY <1>1, Builds
<1>4. g[new] = a
  BY <1>1, Builds
<1>5. Len(g) = new
  BY <1>1, Builds
<1>6. new \notin E
  BY <1>1, Builds
<1>7. new \in Nat \ {0}
  BY <1>1, Builds
<1>8. (E \ Of(a.kids)) \cup {new} = E \cup {new}
  BY <1>1
<1> HIDE DEF g, new
<1>9. Good(s, g, fr, cs, E \cup {new})
  BY <1>2, <1>8
<1> QED
  BY <1>3, <1>4, <1>5, <1>6, <1>7, <1>9 DEF g, new

\* A string, and a node that takes it with others in hand.
LEMMA BuildsOver ==
    ASSUME NEW s, NEW h, NEW fr, NEW cs, NEW E, Good(s, h, fr, cs, E), NEW a, Atom(a),
           NEW node \in Nodes, node.kind # "binary", Of(node.kids) \subseteq E \cup {Len(h) + 1},
           Injective(node.kids), E \cup {Len(h) + 1} \subseteq Of(node.kids)
    PROVE  LET g == h \o <<a, node>>
               new == Len(h) + 2
           IN  Good(s, g, fr, cs, {new}) /\ g[new] = node /\ new \in Nat /\ new # 0
<1> DEFINE m == Append(h, a)
           F == E \cup {Len(h) + 1}
<1>1. Good(s, m, fr, cs, F) /\ Len(m) = Len(h) + 1
  BY BuildsAtom
<1>2. h \o <<a, node>> = Append(m, node) /\ Len(h) \in Nat
  BY GoodHand, Joined DEF Atom
<1> HIDE DEF m, F
<1>3. Takes(m, F, node) /\ F \ Of(node.kids) = {}
  BY DEF Takes, F
<1>4. /\ Good(s, Append(m, node), fr, cs, (F \ Of(node.kids)) \cup {Len(m) + 1})
      /\ Append(m, node)[Len(m) + 1] = node
  BY <1>1, <1>3, Builds
<1> DEFINE g == h \o <<a, node>>
           new == Len(h) + 2
<1>5. (F \ Of(node.kids)) \cup {new} = {new} /\ Len(m) + 1 = new /\ g = Append(m, node)
      /\ new \in Nat /\ new # 0
  BY <1>1, <1>2, <1>3
<1> HIDE DEF g, new
<1>6. Good(s, g, fr, cs, {new}) /\ g[new] = node
  BY <1>4, <1>5
<1> QED
  BY <1>5, <1>6 DEF g, new

\* A leaf that one token is.
LEMMA ToLeaf ==
    ASSUME IInv, ret = "unary", T # "eof", NEW a, Atom(a),
           NEW kind \in NodeKinds \ {"binary"},
           heap' = heap \o <<a, Node(kind, NoOp, <<Fresh(1)>>, pos, pos)>>,
           UNCHANGED <<freed, faults>>, PostfixOf(calls, Fresh(2), Next1)
    PROVE  IInv'
<1> DEFINE one == Len(heap) + 1
           two == Len(heap) + 2
           node == Node(kind, NoOp, <<one>>, pos, pos)
<1>1. /\ calls # <<>> /\ WantsUnary(Upper(calls)) /\ Waiting(Upper(calls))
      /\ Good(src, heap, freed, calls, {}) /\ src \in Sources
      /\ Len(heap) \in Nat /\ pos \in 1 .. Len(src) + 1 /\ pos \in Nat /\ Next1 \in 1 .. Len(src) + 1
  BY Asked
<1>2. <<one>> \in Seq(Nat) /\ Of(<<one>>) = {one} /\ Injective(<<one>>) /\ one \in Nat
  <2>1. one \in Nat
    BY <1>1
  <2> HIDE DEF one
  <2> QED
    BY <2>1, OneOwned
<1>3. /\ node \in Nodes /\ node.kind = kind /\ node.kids = <<one>> /\ node.last = pos
  <2>1. NoOp \in Kinds \cup {NoOp}
    OBVIOUS
  <2> QED
    BY <1>1, <1>2, <2>1, NodeIs DEF Node
<1>4. heap' = heap \o <<a, node>> /\ freed' = freed /\ PostfixOf(calls, two, Next1)
  BY DEF Fresh
<1> HIDE DEF node
<1>5. {} \cup {one} = Of(node.kids) /\ Injective(node.kids) /\ node.kind # "binary"
  BY <1>2, <1>3
<1>6. Good(src, heap', freed', calls, {two}) /\ heap'[two] = node
  <2>1. {} \cup {one} \subseteq Of(node.kids) /\ Of(node.kids) \subseteq {} \cup {one}
    BY <1>5
  <2>2. /\ Good(src, heap \o <<a, node>>, freed, calls, {two}) /\ (heap \o <<a, node>>)[two] = node
    BY <1>1, <1>3, <1>5, <2>1, BuildsOver
  <2> QED
    BY <1>4, <2>2
<1>7. EndsAt(src, Next1, node)
  <2>1. Next1 >= 2 /\ Next1 - 1 = pos
    BY <1>1, Positions DEF Next1, T
  <2> QED
    BY <1>3, <2>1 DEF EndsAt
<1>8. Binds(heap'[two]) = 7 /\ EndsAt(src, Next1, heap'[two])
  BY <1>5, <1>6, <1>7, BindsRange
<1>9. faults' \in 0 .. MaxFaults
  BY FaultCount
<1> QED
  BY <1>1, <1>4, <1>6, <1>8, <1>9, ToPostfix

LEMMA HollowLeaf ==
    ASSUME IInv, LiteralHollow
    PROVE  IInv'
<1> DEFINE new == Len(heap) + 1
           node == Node("lit", NoOp, <<>>, pos, pos)
<1>1. ret = "unary" /\ T = "num" /\ Fault /\ heap' = Append(heap, node) /\ freed' = freed
      /\ PostfixOf(calls, new, Next1)
  BY DEF LiteralHollow, PrimaryBegins, Fresh
<1>2. /\ calls # <<>> /\ WantsUnary(Upper(calls)) /\ Waiting(Upper(calls))
      /\ Good(src, heap, freed, calls, {}) /\ src \in Sources
      /\ Len(heap) \in Nat /\ pos \in 1 .. Len(src) + 1 /\ pos \in Nat /\ Next1 \in 1 .. Len(src) + 1
  BY <1>1, Asked
<1>3. node \in Nodes /\ node.kind = "lit" /\ node.kids = <<>> /\ node.last = pos
  <2>1. NoOp \in Kinds \cup {NoOp} /\ "lit" \in NodeKinds /\ <<>> \in Seq(Nat)
    BY DEF NodeKinds
  <2> QED
    BY <1>2, <2>1, NodeIs DEF Node
<1> HIDE DEF node
<1>4. Atom(node)
  BY <1>3 DEF Atom
<1>5. Good(src, Append(heap, node), freed, calls, {} \cup {new}) /\ Append(heap, node)[new] = node
  BY <1>2, <1>4, BuildsAtom
<1>6. {} \cup {new} = {new}
  OBVIOUS
<1>7. Good(src, heap', freed', calls, {new}) /\ heap'[new] = node
  BY <1>1, <1>5, <1>6
<1>8. EndsAt(src, Next1, node)
  <2>1. Next1 >= 2 /\ Next1 - 1 = pos
    BY <1>1, <1>2, Positions DEF Next1, T
  <2> QED
    BY <1>3, <2>1 DEF EndsAt
<1>9. Binds(heap'[new]) = 7 /\ EndsAt(src, Next1, heap'[new])
  BY <1>3, <1>7, <1>8, BindsRange
<1>10. faults' \in 0 .. MaxFaults
  BY <1>1, FaultCount
<1> QED
  BY <1>1, <1>2, <1>7, <1>9, <1>10, ToPostfix

\* A call, a tuple or an object begins with the node n.
LEMMA ToList ==
    ASSUME IInv, ret = "unary", NEW fn \in {"call", "tuple", "object"}, NEW n,
           NEW i \in 1 .. Len(src) + 1, Good(src, heap', freed', calls, {n}),
           heap'[n].kind \in ListKinds, GoOn(Append(calls, Frame(fn, "item", 0, 0, <<n>>)), i),
           faults' \in 0 .. MaxFaults
    PROVE  IInv'
<1> DEFINE f == Frame(fn, "item", 0, 0, <<n>>)
           t == Append(calls, f)
<1>1. calls # <<>> /\ WantsUnary(Upper(calls)) /\ Waiting(Upper(calls))
  BY Asked
<1>2. n \in Nat
  <2>1. {n} \subseteq 1 .. Len(heap')
    BY GoodHand DEF Ids
  <2> QED
    BY <2>1
<1>3. <<n>> \in Seq(Nat) /\ Len(<<n>>) = 1 /\ Injective(<<n>>) /\ <<n>>[1] = n
  BY <1>2, OneOwned
<1>4. f.fn = fn /\ f.at = "item" /\ f.own = <<n>> /\ f \in Frames
  <2>1. fn \in Fns /\ "item" \in Ats /\ 0 \in 0 .. 7 /\ 0 \in Nat
    BY Known
  <2> QED
    BY <1>3, <2>1, FrameIs DEF Frame
<1> HIDE DEF f
<1>5. FrameOK(src, f) /\ HoldOK(src, heap', f) /\ Running(f) /\ CallOK(src, calls, f)
  BY <1>1, <1>3, <1>4 DEF FrameOK, HoldOK, Running, CallOK, CallsOn, Lists, ListFns
<1>6. Owned(f) = {n} /\ Injective(f.own) /\ {n} \ Owned(f) = {}
  BY <1>2, <1>3, <1>4, OneOwned
<1>7. Good(src, heap', freed', t, {}) /\ t # <<>> /\ Upper(t) = f
  <2>1. Owned(f) \subseteq {n}
    BY <1>6
  <2>2. /\ Good(src, heap', freed', t, {n} \ Owned(f)) /\ t # <<>> /\ Upper(t) = f
    BY <1>4, <1>5, <1>6, <2>1, GoodPush
  <2> QED
    BY <1>6, <2>2
<1> HIDE DEF t
<1>8. GoOn(t, i) /\ Running(Upper(t)) /\ Upper(t).fn # "postfix"
  BY <1>4, <1>5, <1>7 DEF t, f
<1> QED
  BY <1>7, <1>8, ToRun

LEMMA ListBegins ==
    ASSUME IInv, CallBegins \/ BracketBegins
    PROVE  IInv'
<1>1. CASE CallBegins
  <2> DEFINE one == Len(heap) + 1
             two == Len(heap) + 2
             node == Node("call", NoOp, <<one>>, pos, 0)
  <2>1. /\ ret = "unary" /\ heap' = heap \o <<Text, node>> /\ freed' = freed /\ UNCHANGED faults
        /\ GoOn(Append(calls, Frame("call", "item", 0, 0, <<two>>)), Next2)
    BY <1>1 DEF CallBegins, PrimaryBegins, Allocates, Fresh
  <2>2. /\ Good(src, heap, freed, calls, {}) /\ Len(heap) \in Nat /\ pos \in Nat
        /\ Next2 \in 1 .. Len(src) + 1
    BY <2>1, Asked
  <2>3. <<one>> \in Seq(Nat) /\ Of(<<one>>) = {one} /\ Injective(<<one>>)
    <3>1. one \in Nat
      BY <2>2
    <3> HIDE DEF one
    <3> QED
      BY <3>1, OneOwned
  <2>4. node \in Nodes /\ node.kind = "call" /\ node.kids = <<one>>
    <3>1. NoOp \in Kinds \cup {NoOp} /\ "call" \in NodeKinds /\ 0 \in Nat
      BY DEF NodeKinds
    <3> QED
      BY <2>2, <2>3, <3>1, NodeIs DEF Node
  <2> HIDE DEF node
  <2>5. {} \cup {one} = Of(node.kids) /\ Injective(node.kids) /\ node.kind # "binary"
    BY <2>3, <2>4
  <2>6. Good(src, heap', freed', calls, {two}) /\ heap'[two] = node
    <3>1. {} \cup {one} \subseteq Of(node.kids) /\ Of(node.kids) \subseteq {} \cup {one} /\ Atom(Text)
      BY <2>5, Strings
    <3>2. /\ Good(src, heap \o <<Text, node>>, freed, calls, {two})
          /\ (heap \o <<Text, node>>)[two] = node
      BY <2>2, <2>4, <2>5, <3>1, BuildsOver
    <3> QED
      BY <2>1, <3>2
  <2>7. heap'[two].kind \in ListKinds /\ faults' \in 0 .. MaxFaults
    BY <2>1, <2>4, <2>6, FaultCount DEF ListKinds
  <2> QED
    BY <2>1, <2>2, <2>6, <2>7, ToList
<1>2. CASE BracketBegins
  <2> DEFINE fn == IF T = "[" THEN "tuple" ELSE "object"
             new == Len(heap) + 1
             node == Node(fn, NoOp, <<>>, pos, 0)
  <2>1. /\ ret = "unary" /\ heap' = heap \o <<node>> /\ freed' = freed /\ UNCHANGED faults
        /\ GoOn(Append(calls, Frame(fn, "item", 0, 0, <<new>>)), Next1)
    BY <1>2 DEF BracketBegins, PrimaryBegins, Allocates, Fresh
  <2>2. /\ Good(src, heap, freed, calls, {}) /\ Len(heap) \in Nat /\ pos \in Nat
        /\ Next1 \in 1 .. Len(src) + 1 /\ heap \in Seq(Nodes)
    BY <2>1, Asked
  <2>3. fn \in {"tuple", "object"}
    OBVIOUS
  <2> HIDE DEF fn
  <2>4. node \in Nodes /\ node.kind = fn /\ node.kids = <<>>
    <3>1. NoOp \in Kinds \cup {NoOp} /\ fn \in NodeKinds /\ 0 \in Nat /\ <<>> \in Seq(Nat)
      BY <2>3 DEF NodeKinds
    <3> QED
      BY <2>2, <3>1, NodeIs DEF Node
  <2> HIDE DEF node
  <2>5. Atom(node)
    BY <2>3, <2>4 DEF Atom
  <2>6. Good(src, Append(heap, node), freed, calls, {} \cup {new}) /\ Append(heap, node)[new] = node
    BY <2>2, <2>5, BuildsAtom
  <2>7. {} \cup {new} = {new} /\ heap' = Append(heap, node)
    BY <2>1, <2>2, <2>4, Joined
  <2>8. Good(src, heap', freed', calls, {new}) /\ heap'[new] = node
    BY <2>1, <2>6, <2>7
  <2>9. heap'[new].kind \in ListKinds /\ faults' \in 0 .. MaxFaults
    BY <2>1, <2>3, <2>4, <2>8, FaultCount DEF ListKinds
  <2> QED
    BY <2>1, <2>2, <2>3, <2>8, <2>9, ToList
<1> QED
  BY <1>1, <1>2

LEMMA ParenOpens ==
    ASSUME IInv, ParenBegins
    PROVE  IInv'
<1> DEFINE f == Frame("paren", "inner", 0, 0, <<>>)
           t == Append(calls, f)
<1>1. ret = "unary" /\ Expr(t, Next1) /\ Same
  BY DEF ParenBegins, PrimaryBegins
<1>2. /\ calls # <<>> /\ WantsUnary(Upper(calls)) /\ Waiting(Upper(calls))
      /\ Good(src, heap, freed, calls, {}) /\ Next1 \in 1 .. Len(src) + 1
  BY <1>1, Asked
<1>3. f \in Frames /\ f.own = <<>> /\ f.fn = "paren" /\ f.at = "inner"
  <2>1. "paren" \in Fns /\ "inner" \in Ats /\ 0 \in 0 .. 7 /\ 0 \in Nat /\ <<>> \in Seq(Nat)
    BY Known
  <2> QED
    BY <2>1, FrameIs DEF Frame
<1> HIDE DEF f
<1>4. FrameOK(src, f) /\ Waiting(f) /\ Hosts(f)
  BY <1>3, NoneOwned DEF FrameOK, ListFns, Waiting, Hosts
<1>5. CallOK(src, calls, f)
  BY <1>2, <1>3 DEF CallOK, CallsOn
<1>6. Good(src, heap, freed, t, {}) /\ t # <<>> /\ Upper(t) = f
  BY <1>2, <1>3, <1>4, <1>5, GoodCall
<1>7. heap' = heap /\ freed' = freed /\ faults' \in 0 .. MaxFaults
  BY <1>1, FaultCount DEF Same
<1> HIDE DEF t
<1>8. Good(src, heap', freed', t, {}) /\ Waiting(Upper(t)) /\ Hosts(Upper(t))
  BY <1>4, <1>6, <1>7
<1> QED
  BY <1>1, <1>2, <1>7, <1>8, ToExpr

\* Those that parse_unary's callers called.
LEMMA CallerWants ==
    ASSUME IInv, calls # <<>>, Top.fn \notin {"expr", "binary", "splat"}
    PROVE  /\ Under(calls) # <<>> /\ Waiting(Upper(Under(calls))) /\ WantsUnary(Upper(Under(calls)))
           /\ Upper(Under(calls)) \in Frames
<1>1. Under(calls) # <<>>
  BY TopFacts DEF CallOK
<1> QED
  BY <1>1, CallerFacts DEF CallsOn

LEMMA ParenEnds ==
    ASSUME IInv, ParenCloses
    PROVE  IInv'
<1> DEFINE new == [heap[val] EXCEPT !.paren = TRUE]
<1>1. /\ ret = "ok" /\ calls # <<>> /\ Top.fn = "paren" /\ Top.at = "inner" /\ T = ")"
      /\ heap' = Edit(heap, val, new) /\ freed' = freed /\ UNCHANGED faults
      /\ PostfixOf(Below, val, Next1)
  BY DEF ParenCloses, Returned, In, Edit
<1>2. /\ Top \in Frames /\ FrameOK(src, Top) /\ val \in Ids(heap) /\ HeapOK(heap)
      /\ Good(src, heap, freed, Under(calls), {val} \cup Owned(Top)) /\ Below = Under(calls)
      /\ src \in Sources /\ pos \in 1 .. Len(src) + 1
  BY <1>1, Returns
<1>3. Owned(Top) = {}
  BY <1>1, <1>2, Owns DEF FrameOK
<1>4. heap[val] \in Nodes
  BY <1>2, HeapFacts
<1>5. /\ new \in Nodes /\ new.kind = heap[val].kind /\ new.kids = heap[val].kids
      /\ new.op = heap[val].op /\ new.paren = TRUE
  BY <1>4 DEF Nodes
<1> HIDE DEF new
<1>6. Good(src, heap, freed, Under(calls), {val}) /\ val \in {val}
  BY <1>2, <1>3
<1>7. Good(src, Edit(heap, val, new), freed, Under(calls), {val}) /\ Edit(heap, val, new)[val] = new
  BY <1>5, <1>6, GoodTouch
<1>8. Good(src, heap', freed', Under(calls), {val}) /\ heap'[val] = new
  BY <1>1, <1>7
<1>9. Binds(heap'[val]) = 7
  BY <1>5, <1>8 DEF Binds
<1>10. EndsAt(src, Next1, heap'[val])
  <2>1. Next1 >= 2 /\ Next1 - 1 = pos /\ At(src, pos) = ")"
    BY <1>1, <1>2, Positions DEF Next1, T, Tok
  <2> QED
    BY <2>1 DEF EndsAt
<1>11. Under(calls) # <<>> /\ Waiting(Upper(Under(calls))) /\ WantsUnary(Upper(Under(calls)))
  BY <1>1, CallerWants
<1>12. faults' \in 0 .. MaxFaults /\ Next1 \in 1 .. Len(src) + 1 /\ PostfixOf(Under(calls), val, Next1)
  BY <1>1, <1>2, FaultCount, StepNext
<1> QED
  BY <1>8, <1>9, <1>10, <1>11, <1>12, ToPostfix

\* An operand is refused before anything is held for it.
LEMMA ToNothing ==
    ASSUME IInv, ret = "unary", ret' = "fail", UNCHANGED <<src, pos, calls, val, heap, freed>>,
           Fault \/ UNCHANGED faults
    PROVE  IInv'
<1>1. Waiting(Upper(calls))
  BY Asked
<1>2. val = 0 /\ src \in Sources /\ pos \in 1 .. Len(src) + 1
      /\ Good(src, heap, freed, calls, {val} \ {0})
  BY QuietFacts DEF IInv
<1>3. Good(src', heap', freed', calls', {val'} \ {0})
  BY <1>2
<1>4. Turn(src', pos', ret', val', calls', heap')
  BY <1>1, <1>2 DEF Turn
<1> QED
  BY <1>2, <1>3, <1>4, FaultCount DEF IInv

LEMMA PrimaryKeeps ==
    ASSUME IInv, PrimaryStep
    PROVE  IInv'
<1>1. CASE Literal
  <2>1. /\ ret = "unary" /\ T # "eof" /\ "lit" \in NodeKinds \ {"binary"}
        /\ heap' = heap \o <<LitValue, Node("lit", NoOp, <<Fresh(1)>>, pos, pos)>>
        /\ UNCHANGED <<freed, faults>> /\ PostfixOf(calls, Fresh(2), Next1) /\ Atom(LitValue)
    BY <1>1, Strings DEF Literal, PrimaryBegins, Allocates, NodeKinds
  <2> QED
    BY <2>1, ToLeaf
<1>2. CASE NamedLeaf
  <2> DEFINE kind == IF T = "str" THEN "template" ELSE "var"
  <2>1. kind \in NodeKinds \ {"binary"}
    BY DEF NodeKinds
  <2>2. /\ ret = "unary" /\ T # "eof"
        /\ heap' = heap \o <<Text, Node(kind, NoOp, <<Fresh(1)>>, pos, pos)>>
        /\ UNCHANGED <<freed, faults>> /\ PostfixOf(calls, Fresh(2), Next1) /\ Atom(Text)
    BY <1>2, Strings DEF NamedLeaf, PrimaryBegins, Allocates, Names, Keywords
  <2> HIDE DEF kind
  <2> QED
    BY <2>1, <2>2, ToLeaf
<1>3. CASE PrimaryFails
  <2>1. ret = "unary" /\ ret' = "fail" /\ UNCHANGED <<src, pos, calls, val, heap, freed>>
        /\ (Fault \/ UNCHANGED faults)
    BY <1>3 DEF PrimaryFails, PrimaryBegins
  <2> QED
    BY <2>1, ToNothing
<1>4. CASE ParenUnclosed
  <2>1. ret = "ok" /\ calls # <<>> /\ Fails({val}) /\ UNCHANGED faults /\ Top.fn = "paren"
    BY <1>4 DEF ParenUnclosed, Returned, In
  <2>2. Owned(Top) = {}
    BY <2>1, Returns, Owns DEF FrameOK
  <2>3. {val} = Owned(Top) \cup {val}
    BY <2>2
  <2> QED
    BY <2>1, <2>3, FailsReturned
<1> QED
  BY <1>1, <1>2, <1>3, <1>4, HollowLeaf, ListBegins, ParenOpens, ParenEnds DEF PrimaryStep

-----------------------------------------------------------------------------
(* Tuples, calls and objects. *)

\* The node with more kids, and with the end of its span.
More(node, ks) == [node EXCEPT !.kids = @ \o ks]
MoreLast(node, ks, op, last) == [node EXCEPT !.kids = @ \o ks, !.op = op, !.last = last]

LEMMA AdoptEdits ==
    ASSUME heap \in Seq(Nodes), NEW n \in Ids(heap), NEW ks, NEW op, NEW last
    PROVE  /\ Adopt(n, ks) = Edit(heap, n, More(heap[n], ks))
           /\ AdoptLast(n, ks, op, last) = Edit(heap, n, MoreLast(heap[n], ks, op, last))
<1>1. Adopt(n, ks) = Edit(heap, n, More(heap[n], ks))
  BY DEF Adopt, Edit, More
<1> DEFINE D == Ids(heap)
           new == MoreLast(heap[n], ks, op, last)
           l == AdoptLast(n, ks, op, last)
           r == Edit(heap, n, new)
<1>2. DOMAIN heap = D /\ heap \in [D -> Nodes] /\ n \in D
  BY ElementType DEF Ids
<1> HIDE DEF D
<1>3. heap[n] \in Nodes
  BY <1>2
<1>4. \A m \in D : l[m] = r[m]
  BY <1>2, <1>3 DEF AdoptLast, Edit, MoreLast, Nodes
<1>5. l = [m \in D |-> l[m]] /\ r = [m \in D |-> r[m]]
  BY <1>2 DEF AdoptLast, Edit
<1>6. l = r
  <2> HIDE DEF l, r
  <2> QED
    BY <1>4, <1>5
<1> QED
  BY <1>1, <1>6

LEMMA MoreIs ==
    ASSUME NEW node \in Nodes, NEW ks \in Seq(Nat), NEW op \in Kinds \cup {NoOp}, NEW last \in Nat
    PROVE  /\ More(node, ks) \in Nodes /\ More(node, ks).kind = node.kind
           /\ More(node, ks).kids = node.kids \o ks
           /\ MoreLast(node, ks, op, last) \in Nodes /\ MoreLast(node, ks, op, last).kind = node.kind
           /\ MoreLast(node, ks, op, last).kids = node.kids \o ks
           /\ MoreLast(node, ks, op, last).last = last
<1>1. node.kids \o ks \in Seq(Nat)
  <2>1. node.kids \in Seq(Nat)
    BY DEF Nodes
  <2> QED
    BY <2>1
<1> QED
  BY <1>1 DEF More, MoreLast, Nodes

\* What is known when a list goes on by itself.
LEMMA ListRuns ==
    ASSUME IInv, ret = "run", calls # <<>>, Top.fn \in ListFns \cup {"object"}
    PROVE  /\ Top = Upper(calls) /\ Below = Under(calls) /\ Top \in Frames /\ FrameOK(src, Top)
           /\ Top.own = <<List>> /\ Owned(Top) = {List} /\ List \in Nat
           /\ Good(src, heap, freed, Under(calls), {List}) /\ heap[List].kind \in ListKinds
           /\ heap \in Seq(Nodes) /\ List \in Ids(heap) /\ src \in Sources
<1>1. /\ Top = Upper(calls) /\ Below = Under(calls) /\ Top \in Frames /\ FrameOK(src, Top)
      /\ Good(src, heap, freed, Under(calls), {} \cup Owned(Top)) /\ HoldOK(src, heap, Top)
      /\ Owned(Top) \subseteq Ids(heap) /\ heap \in Seq(Nodes) /\ src \in Sources
  BY TopFacts, QuietFacts
<1>2. Running(Top)
  BY <1>1 DEF IInv, Turn
<1>3. Len(Top.own) = 1
  BY <1>1, <1>2 DEF FrameOK, ListFns, Running
<1>4. Top.own = <<List>> /\ Owned(Top) = {List} /\ List \in Nat
  BY <1>1, <1>3, Owns DEF List
<1>5. heap[List].kind \in ListKinds
  BY <1>1 DEF HoldOK, Lists, List
<1>6. {} \cup Owned(Top) = {List}
  BY <1>4
<1> QED
  BY <1>1, <1>4, <1>5, <1>6

\* What is known when a part of a list, or of a for expression, is there.
LEMMA PartReturns ==
    ASSUME IInv, ret = "ok", calls # <<>>, Lists(Top)
    PROVE  /\ Top \in Frames /\ FrameOK(src, Top) /\ Below = Under(calls)
           /\ List \in Nat /\ val \in Nat /\ List # val /\ List \in Ids(heap) /\ List \in Owned(Top)
           /\ Good(src, heap, freed, Under(calls), {val} \cup Owned(Top)) /\ heap \in Seq(Nodes)
           /\ heap[List] \in Nodes /\ heap[List].kind \in ListKinds /\ heap[List].kind # "binary"
           /\ Top.fn # "object" => Top.own = <<List>> /\ Owned(Top) = {List}
           /\ Top.fn = "object" => /\ Owned(Top) = {List, Top.own[2]} /\ Top.own[2] \in Nat
                                   /\ List # Top.own[2] /\ val # Top.own[2]
<1>1. /\ Top = Upper(calls) /\ Below = Under(calls) /\ Top \in Frames /\ FrameOK(src, Top)
      /\ HoldOK(src, heap, Top) /\ val \notin Owned(Top) /\ Injective(Top.own)
      /\ Owned(Top) \subseteq Ids(heap) /\ heap \in Seq(Nodes) /\ HeapOK(heap) /\ val \in Nat
      /\ Good(src, heap, freed, Under(calls), {val} \cup Owned(Top))
  BY Returns
<1>2. Waiting(Top)
  BY <1>1, ReturnedFacts
<1>3. Top.fn # "object" => Len(Top.own) = 1
  BY <1>1 DEF FrameOK, ListFns, Lists
<1>4. Top.fn = "object" => Len(Top.own) = 2
  BY <1>2 DEF Waiting
<1>5. Top.fn # "object" => Top.own = <<List>> /\ Owned(Top) = {List} /\ List \in Nat
  BY <1>1, <1>3, Owns DEF List
<1>6. Top.fn = "object" => /\ Owned(Top) = {List, Top.own[2]} /\ Top.own[2] \in Nat
                           /\ List # Top.own[2] /\ List \in Nat
  BY <1>1, <1>4, Owns DEF List
<1>7. List \in Nat /\ List \in Owned(Top) /\ (Top.fn = "object" => Top.own[2] \in Owned(Top))
  BY <1>5, <1>6
<1>8. heap[List].kind \in ListKinds
  BY <1>1 DEF HoldOK, List
<1>9. heap[List] \in Nodes /\ heap[List].kind # "binary"
  BY <1>1, <1>7, <1>8, HeapFacts DEF ListKinds
<1> QED
  BY <1>1, <1>5, <1>6, <1>7, <1>8, <1>9

\* The node takes everything in hand.
LEMMA ListAdopts ==
    ASSUME IInv, ret = "ok", calls # <<>>, Lists(Top), NEW ks \in Seq(Nat), Injective(ks),
           List \notin Of(ks), {List} \cup Of(ks) = {val} \cup Owned(Top),
           NEW new \in Nodes, new.kind = heap[List].kind, new.kids = heap[List].kids \o ks,
           heap' = Edit(heap, List, new), freed' = freed
    PROVE  Good(src, heap', freed', Under(calls), {List}) /\ heap'[List] = new
           /\ new.kind \in ListKinds
<1> DEFINE E == {List} \cup Of(ks)
<1>1. /\ Good(src, heap, freed, Under(calls), E)
      /\ heap[List].kind \in ListKinds /\ heap[List].kind # "binary"
  BY PartReturns
<1>2. List \in E /\ Of(ks) \subseteq E \ {List} /\ E \ Of(ks) = {List}
  OBVIOUS
<1> HIDE DEF E
<1>3. Good(src, Edit(heap, List, new), freed, Under(calls), E \ Of(ks)) /\ Edit(heap, List, new)[List] = new
  <2>1. /\ Good(src, heap, freed, Under(calls), E) /\ List \in E /\ Of(ks) \subseteq E \ {List}
        /\ heap[List].kind # "binary"
    BY <1>1, <1>2
  <2>2. Good(src, Edit(heap, List, new), freed, Under(calls), E \ Of(ks))
    BY <2>1, GoodAdopt
  <2>3. Edit(heap, List, new)[List] = new
    <3>1. List \in DOMAIN heap
      BY PartReturns, ElementType DEF Ids
    <3> QED
      BY <3>1 DEF Edit
  <2> QED
    BY <2>2, <2>3
<1> QED
  BY <1>1, <1>2, <1>3

\* The function goes on with its node.
LEMMA ListGoesOn ==
    ASSUME Top \in Frames, NEW h, NEW n \in Nat, h[n].kind \in ListKinds, NEW at \in Ats \ {"right"},
           Top.fn \in {"call", "tuple", "object", "for"}, FrameOK(src, Here(at, <<n>>))
    PROVE  /\ Resumed(h, {n}, Here(at, <<n>>)) /\ {n} \subseteq Of(Here(at, <<n>>).own)
           /\ Here(at, <<n>>).fn = Top.fn /\ Here(at, <<n>>).at = at /\ Len(Here(at, <<n>>).own) = 1
<1> DEFINE f == Here(at, <<n>>)
<1>1. /\ f \in Frames /\ f.fn = Top.fn /\ f.bp = Top.bp /\ f.tok = Top.tok /\ f.at = at
      /\ Len(f.own) = 1 /\ f.own[1] = n /\ Of(f.own) = {n} /\ Injective(f.own)
  BY HereOne
<1>2. FrameOK(src, f)
  OBVIOUS
<1> HIDE DEF f
<1>3. HoldOK(src, h, f)
  BY <1>1 DEF HoldOK
<1>4. Resumed(h, {n}, f)
  BY <1>1, <1>2, <1>3 DEF Resumed
<1> QED
  BY <1>1, <1>4 DEF f

LEMMA ListFrame ==
    ASSUME Top \in Frames, NEW n \in Nat, NEW at \in {"item", "close"},
           Top.fn \in ListFns \/ (Top.fn = "object" /\ at = "item")
    PROVE  FrameOK(src, Here(at, <<n>>))
<1> DEFINE f == Here(at, <<n>>)
<1>1. f.fn = Top.fn /\ f.at = at /\ Len(f.own) = 1
  BY Known, HereOne
<1> HIDE DEF f
<1>2. FrameOK(src, f)
  BY <1>1 DEF FrameOK, ListFns
<1> QED
  BY <1>2 DEF f

\* A list goes on behind an item.
LEMMA ItemTaken ==
    ASSUME IInv, ret = "ok", calls # <<>>, Top.fn \in ListFns \cup {"object"},
           NEW at \in {"item", "close"}, Top.fn = "object" => at = "item",
           Good(src, heap', freed', Under(calls), {List}), heap'[List].kind \in ListKinds,
           NEW i \in 1 .. Len(src) + 1, GoOn(Append(Below, Here(at, <<List>>)), i),
           faults' \in 0 .. MaxFaults
    PROVE  IInv'
<1> DEFINE f == Here(at, <<List>>)
<1>1. Lists(Top)
  BY DEF Lists
<1>2. Top \in Frames /\ List \in Nat
  BY <1>1, PartReturns
<1>3. FrameOK(src, f) /\ at \in Ats \ {"right"} /\ Top.fn \in {"call", "tuple", "object", "for"}
  BY <1>2, ListFrame, Known DEF ListFns
<1>4. /\ Resumed(heap', {List}, f) /\ {List} \subseteq Of(f.own)
      /\ f.fn = Top.fn /\ f.at = at /\ Len(f.own) = 1
  BY <1>2, <1>3, ListGoesOn
<1>5. GoOn(Append(Below, f), i)
  OBVIOUS
<1> HIDE DEF f
<1>6. Running(f) /\ f.fn # "postfix"
  BY <1>4 DEF Running, ListFns
<1> QED
  BY <1>4, <1>5, <1>6, ResumeRun

LEMMA ItemsEnd ==
    ASSUME IInv, ListItemDone \/ ArgSpread
    PROVE  IInv'
<1>1. ret = "ok" /\ calls # <<>> /\ Top.fn \in ListFns
  BY DEF ListItemDone, ArgSpread, InList, In, ListFns
<1>2. Lists(Top) /\ Top.fn # "object"
  BY <1>1 DEF Lists, ListFns
<1>3. /\ Top \in Frames /\ Below = Under(calls) /\ List \in Nat /\ val \in Nat /\ List # val
      /\ List \in Ids(heap) /\ heap \in Seq(Nodes) /\ heap[List] \in Nodes
      /\ Top.own = <<List>> /\ Owned(Top) = {List}
  BY <1>1, <1>2, PartReturns
<1>4. <<val>> \in Seq(Nat) /\ Injective(<<val>>) /\ Of(<<val>>) = {val}
  BY <1>3, OneOwned
<1>5. List \notin Of(<<val>>) /\ {List} \cup Of(<<val>>) = {val} \cup Owned(Top)
  BY <1>3, <1>4
<1>6. pos \in 1 .. Len(src) + 1 /\ Next1 \in 1 .. Len(src) + 1
  BY StepNext
<1>7. CASE ListItemDone
  <2> DEFINE new == More(heap[List], <<val>>)
  <2>1. /\ heap' = Edit(heap, List, new) /\ freed' = freed /\ UNCHANGED faults
        /\ IF T = "," THEN GoOn(Append(Below, Here("item", <<List>>)), Next1)
                      ELSE GoOn(Append(Below, Here("close", <<List>>)), pos)
    BY <1>3, <1>7, AdoptEdits DEF ListItemDone
  <2>2. new \in Nodes /\ new.kind = heap[List].kind /\ new.kids = heap[List].kids \o <<val>>
    <3>1. NoOp \in Kinds \cup {NoOp} /\ 0 \in Nat
      OBVIOUS
    <3> QED
      BY <1>3, <1>4, <3>1, MoreIs
  <2> HIDE DEF new
  <2>3. /\ Good(src, heap', freed', Under(calls), {List}) /\ heap'[List] = new
        /\ new.kind \in ListKinds
    BY <1>1, <1>2, <1>4, <1>5, <2>1, <2>2, ListAdopts
  <2>4. heap'[List].kind \in ListKinds /\ faults' \in 0 .. MaxFaults /\ Top.fn \in ListFns \cup {"object"}
    BY <1>1, <2>1, <2>3, FaultCount
  <2>5. CASE T = ","
    <3>1. "item" \in {"item", "close"} /\ GoOn(Append(Below, Here("item", <<List>>)), Next1)
      BY <2>1, <2>5
    <3> QED
      BY <1>1, <1>2, <1>6, <2>3, <2>4, <3>1, ItemTaken
  <2>6. CASE T # ","
    <3>1. "close" \in {"item", "close"} /\ GoOn(Append(Below, Here("close", <<List>>)), pos)
      BY <2>1, <2>6
    <3> QED
      BY <1>1, <1>2, <1>6, <2>3, <2>4, <3>1, ItemTaken
  <2> QED
    BY <2>5, <2>6
<1>8. CASE ArgSpread
  <2> DEFINE new == MoreLast(heap[List], <<val>>, "...", 0)
  <2>1. /\ heap' = Edit(heap, List, new) /\ freed' = freed /\ UNCHANGED faults
        /\ GoOn(Append(Below, Here("close", <<List>>)), Next1)
    BY <1>3, <1>8, AdoptEdits DEF ArgSpread
  <2>2. new \in Nodes /\ new.kind = heap[List].kind /\ new.kids = heap[List].kids \o <<val>>
    <3>1. "..." \in Kinds \cup {NoOp} /\ 0 \in Nat
      BY DEF Kinds
    <3> QED
      BY <1>3, <1>4, <3>1, MoreIs
  <2> HIDE DEF new
  <2>3. /\ Good(src, heap', freed', Under(calls), {List}) /\ heap'[List] = new
        /\ new.kind \in ListKinds
    BY <1>1, <1>2, <1>4, <1>5, <2>1, <2>2, ListAdopts
  <2>4. /\ heap'[List].kind \in ListKinds /\ faults' \in 0 .. MaxFaults
        /\ Top.fn \in ListFns \cup {"object"} /\ "close" \in {"item", "close"}
    BY <1>1, <2>1, <2>3, FaultCount
  <2> QED
    BY <1>1, <1>2, <1>6, <2>1, <2>3, <2>4, ItemTaken
<1> QED
  BY <1>7, <1>8

LEMMA BracketEnds ==
    ASSUME IInv, ListCloses
    PROVE  IInv'
<1> DEFINE new == [heap[List] EXCEPT !.last = pos]
<1>1. /\ ret = "run" /\ calls # <<>> /\ Top.fn \in ListFns \cup {"object"} /\ T = Closer
      /\ heap' = Edit(heap, List, new) /\ freed' = freed /\ UNCHANGED faults
      /\ PostfixOf(Below, List, Next1)
  BY DEF ListCloses, InList, Runs, In, Edit, ListFns
<1>2. /\ Below = Under(calls) /\ Top \in Frames
      /\ Good(src, heap, freed, Under(calls), {List}) /\ heap[List].kind \in ListKinds
      /\ heap \in Seq(Nodes) /\ List \in Ids(heap) /\ src \in Sources
  BY <1>1, ListRuns
<1>3. heap[List] \in Nodes /\ pos \in Nat /\ pos \in 1 .. Len(src) + 1 /\ Next1 \in 1 .. Len(src) + 1
  BY <1>2, GoodHand, HeapFacts, StepNext
<1>4. /\ new \in Nodes /\ new.kind = heap[List].kind /\ new.kids = heap[List].kids
      /\ new.op = heap[List].op /\ new.paren = heap[List].paren /\ new.last = pos
  BY <1>3 DEF Nodes
<1> HIDE DEF new
<1>5. Good(src, Edit(heap, List, new), freed, Under(calls), {List}) /\ Edit(heap, List, new)[List] = new
  <2>1. List \in {List}
    OBVIOUS
  <2> QED
    BY <1>2, <1>4, <2>1, GoodTouch
<1>6. Good(src, heap', freed', Under(calls), {List}) /\ heap'[List] = new
  BY <1>1, <1>5
<1>7. Binds(heap'[List]) = 7
  <2>1. new.kind # "binary"
    BY <1>2, <1>4 DEF ListKinds
  <2> QED
    BY <1>6, <2>1, BindsRange
<1>8. EndsAt(src, Next1, heap'[List])
  <2>1. T # "eof"
    <3>1. T = ")" \/ T = "]" \/ T = RBrace
      BY <1>1 DEF Closer
    <3> QED
      BY <3>1, Braces
  <2>2. Next1 >= 2 /\ Next1 - 1 = pos
    BY <1>2, <1>3, <2>1, Positions DEF Next1, T
  <2> QED
    BY <1>4, <1>6, <2>2 DEF EndsAt
<1>9. Under(calls) # <<>> /\ Waiting(Upper(Under(calls))) /\ WantsUnary(Upper(Under(calls)))
  <2>1. Top.fn \notin {"expr", "binary", "splat"}
    BY <1>1 DEF ListFns
  <2> QED
    BY <1>1, <2>1, CallerWants
<1>10. faults' \in 0 .. MaxFaults /\ PostfixOf(Under(calls), List, Next1)
  BY <1>1, <1>2, FaultCount
<1> QED
  BY <1>3, <1>6, <1>7, <1>8, <1>9, <1>10, ToPostfix

LEMMA ItemBegins ==
    ASSUME IInv, ListItem
    PROVE  IInv'
<1>1. ret = "run" /\ calls # <<>> /\ Top.fn \in ListFns /\ Top.at = "item" /\ Expr(calls, pos) /\ Same
  BY DEF ListItem, InList
<1>2. Good(src, heap, freed, calls, {}) /\ Top = Upper(calls)
  BY <1>1, QuietFacts, TopFacts DEF IInv
<1>3. Good(src, heap', freed', calls, {}) /\ faults' \in 0 .. MaxFaults /\ pos \in 1 .. Len(src) + 1
  BY <1>1, <1>2, FaultCount, StepNext DEF Same
<1>4. Waiting(Upper(calls)) /\ Hosts(Upper(calls))
  BY <1>1, <1>2 DEF Waiting, Hosts, ListFns
<1> QED
  BY <1>1, <1>3, <1>4, ToExpr

LEMMA KeyRead ==
    ASSUME IInv, ObjectItem
    PROVE  IInv'
<1> DEFINE new == Len(heap) + 1
           f == Here("item", <<List, new>>)
           E == {List, new}
<1>1. /\ ret = "run" /\ calls # <<>> /\ Top.fn = "object"
      /\ heap' = heap \o <<Text>> /\ freed' = freed /\ UNCHANGED faults
      /\ Expr(Append(Below, f), Next2)
  BY DEF ObjectItem, Runs, In, Allocates, Fresh
<1>2. /\ Top \in Frames /\ List \in Nat /\ Good(src, heap, freed, Under(calls), {List})
      /\ heap[List].kind \in ListKinds /\ heap \in Seq(Nodes) /\ List \in Ids(heap)
  BY <1>1, ListRuns
<1>3. /\ Good(src, Append(heap, Text), freed, Under(calls), {List} \cup {new})
      /\ Grows(heap, Append(heap, Text)) /\ new \notin {List} /\ new \in Nat
  BY <1>2, Strings, BuildsAtom
<1>4. heap' = Append(heap, Text)
  BY <1>1, <1>2, Strings, Joined DEF Atom
<1> HIDE DEF new
<1>5. {List} \cup {new} = E /\ List # new
  BY <1>3
<1> HIDE DEF E
<1>6. Good(src, heap', freed', Under(calls), E)
  BY <1>1, <1>3, <1>4, <1>5
<1>7. heap'[List].kind \in ListKinds
  BY <1>2, <1>3, <1>4 DEF Grows
<1>8. /\ f \in Frames /\ f.fn = Top.fn /\ f.bp = Top.bp /\ f.at = "item"
      /\ Len(f.own) = 2 /\ f.own[1] = List /\ Of(f.own) = {List, new} /\ Injective(f.own)
  <2>1. "item" \in Ats /\ Top \in Frames /\ List \in Nat /\ new \in Nat /\ List # new
    BY <1>2, <1>3, <1>5, Known
  <2> QED
    BY <2>1, HereTwo
<1> HIDE DEF f
<1>9. FrameOK(src, f) /\ HoldOK(src, heap', f) /\ Waiting(f) /\ Hosts(f)
  BY <1>1, <1>7, <1>8 DEF FrameOK, HoldOK, ListFns, Waiting, Hosts
<1>10. Resumed(heap', E, f) /\ E \subseteq Of(f.own)
  BY <1>8, <1>9 DEF Resumed, E
<1>11. Next2 \in 1 .. Len(src) + 1 /\ faults' \in 0 .. MaxFaults
  BY <1>1, FaultCount, StepNext
<1> QED
  BY <1>1, <1>6, <1>9, <1>10, <1>11, ResumeExpr

LEMMA PairTaken ==
    ASSUME IInv, ObjectItemDone
    PROVE  IInv'
<1> DEFINE k == Top.own[2]
           ks == <<k, val>>
           new == More(heap[List], ks)
           i == IF T = "," THEN Next1 ELSE pos
<1>1. /\ ret = "ok" /\ calls # <<>> /\ Top.fn = "object"
      /\ heap' = Adopt(List, ks) /\ freed' = freed /\ UNCHANGED faults
      /\ GoOn(Append(Below, Here("item", <<List>>)), i)
  BY DEF ObjectItemDone, In
<1>2. Lists(Top)
  BY <1>1 DEF Lists
<1>3. /\ Top \in Frames /\ List \in Nat /\ val \in Nat /\ List # val
      /\ List \in Ids(heap) /\ heap \in Seq(Nodes) /\ heap[List] \in Nodes
      /\ Owned(Top) = {List, k} /\ k \in Nat /\ List # k /\ val # k
  BY <1>1, <1>2, PartReturns
<1> HIDE DEF k
<1>4. ks \in Seq(Nat) /\ Injective(ks) /\ Of(ks) = {k, val}
  BY <1>3, TwoOwned
<1> HIDE DEF ks
<1>5. List \notin Of(ks) /\ {List} \cup Of(ks) = {val} \cup Owned(Top)
  BY <1>3, <1>4
<1>6. i \in 1 .. Len(src) + 1
  BY StepNext
<1>7. heap' = Edit(heap, List, new)
  BY <1>1, <1>3, AdoptEdits
<1>8. new \in Nodes /\ new.kind = heap[List].kind /\ new.kids = heap[List].kids \o ks
  <2>1. NoOp \in Kinds \cup {NoOp} /\ 0 \in Nat
    OBVIOUS
  <2> QED
    BY <1>3, <1>4, <2>1, MoreIs
<1> HIDE DEF new
<1>9. /\ Good(src, heap', freed', Under(calls), {List}) /\ heap'[List] = new
      /\ new.kind \in ListKinds
  BY <1>1, <1>2, <1>4, <1>5, <1>7, <1>8, ListAdopts
<1>10. /\ heap'[List].kind \in ListKinds /\ faults' \in 0 .. MaxFaults
       /\ Top.fn \in ListFns \cup {"object"} /\ "item" \in {"item", "close"}
  BY <1>1, <1>9, FaultCount
<1> HIDE DEF i
<1> QED
  BY <1>1, <1>6, <1>9, <1>10, ItemTaken

LEMMA ListKeeps ==
    ASSUME IInv, ListStep
    PROVE  IInv'
<1>1. CASE ListItemLost
  <2>1. ret = "ok" /\ calls # <<>> /\ Fails({List, val}) /\ Fault /\ Top.fn \in ListFns
    BY <1>1 DEF ListItemLost, InList
  <2>2. Lists(Top) /\ Top.fn # "object"
    BY <2>1 DEF Lists, ListFns
  <2>3. {List, val} = Owned(Top) \cup {val}
    BY <2>1, <2>2, PartReturns
  <2> QED
    BY <2>1, <2>3, FailsReturned
<1>2. CASE ListUnclosed
  <2>1. ret = "run" /\ calls # <<>> /\ Fails({List}) /\ UNCHANGED faults /\ Top.fn \in ListFns \cup {"object"}
    BY <1>2 DEF ListUnclosed, InList
  <2>2. {List} = Owned(Top)
    BY <2>1, ListRuns
  <2> QED
    BY <2>1, <2>2, FailsRunning
<1>3. CASE ObjectItemLost
  <2>1. ret = "ok" /\ calls # <<>> /\ Fails(Owned(Top) \cup {val}) /\ Fault
    BY <1>3 DEF ObjectItemLost, In
  <2> QED
    BY <2>1, FailsReturned
<1>4. CASE ObjectFails
  <2>1. ret = "run" /\ calls # <<>> /\ Fails({List}) /\ (Fault \/ UNCHANGED faults)
        /\ Top.fn \in ListFns \cup {"object"}
    BY <1>4 DEF ObjectFails, Runs, In
  <2>2. {List} = Owned(Top)
    BY <2>1, ListRuns
  <2> QED
    BY <2>1, <2>2, FailsRunning
<1> QED
  BY <1>1, <1>2, <1>3, <1>4, ItemsEnd, BracketEnds, ItemBegins, KeyRead, PairTaken DEF ListStep

-----------------------------------------------------------------------------
(* parse_for. *)

LEMMA OneMore ==
    ASSUME NEW own \in Seq(Nat), NEW v \in Nat, Injective(own), v \notin Of(own)
    PROVE  Append(own, v) \in Seq(Nat) /\ Of(Append(own, v)) = Of(own) \cup {v} /\ Injective(Append(own, v))
<1>1. <<v>> \in Seq(Nat) /\ Of(<<v>>) = {v} /\ Injective(<<v>>)
  BY OneOwned
<1>2. Append(own, v) = own \o <<v>> /\ Append(own, v) \in Seq(Nat)
  OBVIOUS
<1>3. Of(own) \cap Of(<<v>>) = {}
  BY <1>1
<1> DEFINE one == <<v>>
<1> HIDE DEF one
<1>4. Of(own \o one) = Of(own) \cup Of(one) /\ Injective(own \o one)
  BY <1>1, <1>3, OfJoined DEF one
<1> QED
  BY <1>1, <1>2, <1>4 DEF one

\* The header is read.
LEMMA ForOpens ==
    ASSUME IInv, ret = "unary", NEW own \in Seq(Nat), Len(own) \in {1, 2}, Injective(own),
           Good(src, heap', freed', calls, Of(own)), NEW i \in 1 .. Len(src) + 1,
           Expr(Append(calls, ForFrame(own)), i), faults' \in 0 .. MaxFaults
    PROVE  IInv'
<1> DEFINE f == ForFrame(own)
           t == Append(calls, f)
<1>1. calls # <<>> /\ WantsUnary(Upper(calls)) /\ Waiting(Upper(calls)) /\ Next1 \in Nat
  BY Asked
<1>2. f.fn = "for" /\ f.at = "coll" /\ f.own = own /\ f \in Frames
  <2> DEFINE bp == IF T = LBrace THEN 1 ELSE 0
  <2>1. "for" \in Fns /\ "coll" \in Ats /\ bp \in 0 .. 7
    BY Known
  <2>2. f = Frame("for", "coll", bp, Next1, own)
    BY DEF ForFrame
  <2> HIDE DEF bp
  <2> QED
    BY <1>1, <2>1, <2>2, FrameIs DEF Frame
<1> HIDE DEF f
<1>3. FrameOK(src, f) /\ HoldOK(src, heap', f) /\ Waiting(f) /\ Hosts(f) /\ CallOK(src, calls, f)
  BY <1>1, <1>2 DEF FrameOK, HoldOK, Waiting, Hosts, CallOK, CallsOn, Lists, ListFns
<1>4. Owned(f) = Of(own) /\ Injective(f.own) /\ Of(own) \ Owned(f) = {} /\ Owned(f) \subseteq Of(own)
  BY <1>2 DEF Owned, Of
<1>5. Good(src, heap', freed', t, {}) /\ t # <<>> /\ Upper(t) = f
  <2> DEFINE E == Of(own)
  <2>2. /\ Good(src, heap', freed', calls, E) /\ f \in Frames /\ FrameOK(src, f)
        /\ HoldOK(src, heap', f) /\ CallOK(src, calls, f) /\ Owned(f) \subseteq E /\ Injective(f.own)
    BY <1>2, <1>3, <1>4
  <2> HIDE DEF E
  <2>3. Good(src, heap', freed', t, E \ Owned(f))
    BY <2>2, GoodPush
  <2>4. t # <<>>
    BY <2>2, GoodPush
  <2>5. Upper(t) = f
    <3>1. StackOK(src, calls)
      BY <2>2 DEF Good
    <3> QED
      BY <2>2, <3>1, StackOver
  <2>1. Good(src, heap', freed', t, Of(own) \ Owned(f)) /\ t # <<>> /\ Upper(t) = f
    BY <2>3, <2>4, <2>5 DEF E
  <2> QED
    BY <1>4, <2>1
<1>6. Expr(t, i)
  BY DEF f
<1> HIDE DEF t
<1>7. Waiting(Upper(t)) /\ Hosts(Upper(t))
  BY <1>3, <1>5
<1> QED
  BY <1>5, <1>6, <1>7, ToExpr

\* A keyword four, or six, tokens ahead is not behind the end.
LEMMA Ahead ==
    ASSUME IInv, NEW k \in Nat, Tok(pos + k) = "in"
    PROVE  pos + (k + 1) \in 1 .. Len(src) + 1
<1>1. pos + k \in 1 .. Len(src)
  <2>1. src \in Sources
    BY DEF IInv
  <2> QED
    BY <2>1, SourceFacts
<1> QED
  BY <1>1, StepNext

LEMMA HeaderRead ==
    ASSUME IInv, ForOneVar \/ ForTwoVars
    PROVE  IInv'
<1>1. ret = "unary" /\ freed' = freed /\ UNCHANGED faults
  BY DEF ForOneVar, ForTwoVars, ForBegins, PrimaryBegins, Allocates
<1>2. Good(src, heap, freed, calls, {}) /\ Len(heap) \in Nat /\ heap \in Seq(Nodes)
  BY <1>1, Asked
<1>3. faults' \in 0 .. MaxFaults
  BY <1>1, FaultCount
<1> DEFINE one == Len(heap) + 1
           two == Len(heap) + 2
<1>4. one \in Nat /\ two \in Nat /\ one # two
  BY <1>2
<1>5. Good(src, Append(heap, Text), freed, calls, {} \cup {one}) /\ Len(Append(heap, Text)) = one
  BY <1>2, Strings, BuildsAtom
<1>6. CASE ForOneVar
  <2>1. heap' = heap \o <<Text>> /\ Expr(Append(calls, ForFrame(<<one>>)), pos + 4)
    BY <1>6 DEF ForOneVar, Allocates, Fresh
  <2>2. pos + 4 \in 1 .. Len(src) + 1
    <3>1. 3 \in Nat /\ Tok(pos + 3) = "in"
      BY <1>6 DEF ForOneVar, OneVar
    <3>2. pos + (3 + 1) \in 1 .. Len(src) + 1
      BY <3>1, Ahead
    <3> QED
      BY <3>2
  <2>3. heap' = Append(heap, Text)
    BY <1>2, <2>1, Strings, Joined DEF Atom
  <2> HIDE DEF one
  <2>4. <<one>> \in Seq(Nat) /\ Len(<<one>>) \in {1, 2} /\ Injective(<<one>>) /\ Of(<<one>>) = {one}
    BY <1>4, OneOwned
  <2>5. {} \cup {one} = Of(<<one>>)
    BY <2>4
  <2>6. Good(src, heap', freed', calls, Of(<<one>>))
    BY <1>1, <1>5, <2>3, <2>5
  <2> QED
    BY <1>1, <1>3, <2>1, <2>2, <2>4, <2>6, ForOpens
<1>7. CASE ForTwoVars
  <2>1. heap' = heap \o <<Text, Text>> /\ Expr(Append(calls, ForFrame(<<one, two>>)), pos + 6)
    BY <1>7 DEF ForTwoVars, Allocates, Fresh
  <2>2. pos + 6 \in 1 .. Len(src) + 1
    <3>1. 5 \in Nat /\ Tok(pos + 5) = "in"
      BY <1>7 DEF ForTwoVars, TwoVars
    <3>2. pos + (5 + 1) \in 1 .. Len(src) + 1
      BY <3>1, Ahead
    <3> QED
      BY <3>2
  <2> DEFINE g == Append(heap, Text)
  <2>3. heap' = Append(g, Text)
    BY <1>2, <2>1, Strings, Joined DEF Atom
  <2>4. Good(src, g, freed, calls, {} \cup {one}) /\ Len(g) = one
    BY <1>5
  <2> HIDE DEF g
  <2>5. Good(src, Append(g, Text), freed, calls, ({} \cup {one}) \cup {Len(g) + 1})
    BY <2>4, Strings, BuildsAtom
  <2>6. Len(g) + 1 = two
    BY <1>2, <2>4
  <2> HIDE DEF one, two
  <2>7. /\ <<one, two>> \in Seq(Nat) /\ Len(<<one, two>>) \in {1, 2} /\ Injective(<<one, two>>)
        /\ Of(<<one, two>>) = {one, two}
    BY <1>4, TwoOwned
  <2>8. ({} \cup {one}) \cup {Len(g) + 1} = Of(<<one, two>>)
    BY <2>6, <2>7
  <2>9. Good(src, heap', freed', calls, Of(<<one, two>>))
    BY <1>1, <2>3, <2>5, <2>8
  <2> QED
    BY <1>1, <1>3, <2>1, <2>2, <2>7, <2>9, ForOpens
<1> QED
  BY <1>6, <1>7

\* The node n is there, and the next part begins.
LEMMA ForGoesOn ==
    ASSUME IInv, ret = "ok", calls # <<>>, Top.fn = "for", NEW n,
           Good(src, heap', freed', Under(calls), {n}), heap'[n].kind \in ListKinds,
           NEW at \in {"key", "value", "filter"}, NEW i \in 1 .. Len(src) + 1,
           Expr(Append(Below, Here(at, <<n>>)), i), faults' \in 0 .. MaxFaults
    PROVE  IInv'
<1> DEFINE f == Here(at, <<n>>)
<1>1. Top \in Frames
  BY Returns
<1>2. n \in Nat
  <2>1. {n} \subseteq 1 .. Len(heap')
    BY GoodHand DEF Ids
  <2> QED
    BY <2>1
<1>3. FrameOK(src, f)
  <2>1. f.fn = "for" /\ f.at = at /\ Len(f.own) = 1
    BY <1>1, <1>2, Known, HereOne
  <2> HIDE DEF f
  <2> QED
    BY <2>1 DEF FrameOK, ListFns
<1>4. at \in Ats \ {"right"} /\ Top.fn \in {"call", "tuple", "object", "for"}
  BY Known
<1>5. /\ Resumed(heap', {n}, f) /\ {n} \subseteq Of(f.own)
      /\ f.fn = Top.fn /\ f.at = at /\ Len(f.own) = 1
  BY <1>1, <1>2, <1>3, <1>4, ListGoesOn
<1>6. Expr(Append(Below, f), i)
  OBVIOUS
<1> HIDE DEF f
<1>7. Waiting(f) /\ Hosts(f)
  BY <1>5 DEF Waiting, Hosts
<1> QED
  BY <1>5, <1>6, <1>7, ResumeExpr

LEMMA CollectionRead ==
    ASSUME IInv, ForCollection
    PROVE  IInv'
<1> DEFINE kind == IF Top.bp = 1 THEN "forobject" ELSE "fortuple"
           at == IF Top.bp = 1 THEN "key" ELSE "value"
           ks == Append(Top.own, val)
           node == Node(kind, NoOp, ks, Top.tok, 0)
           E == {val} \cup Owned(Top)
           new == Len(heap) + 1
<1>1. /\ ret = "ok" /\ calls # <<>> /\ Top.fn = "for" /\ Top.at = "coll"
      /\ heap' = heap \o <<node>> /\ freed' = freed /\ UNCHANGED faults
      /\ Expr(Append(Below, Here(at, <<new>>)), Next1)
  BY DEF ForCollection, Returned, In, Allocates, Fresh
<1>2. /\ Top \in Frames /\ FrameOK(src, Top) /\ val \in Nat /\ val \notin Owned(Top)
      /\ Injective(Top.own) /\ heap \in Seq(Nodes)
      /\ Good(src, heap, freed, Under(calls), E)
  BY <1>1, Returns
<1>3. Top.own \in Seq(Nat) /\ Of(Top.own) = Owned(Top) /\ Top.tok \in Nat
  BY <1>2, Owns
<1>4. ks \in Seq(Nat) /\ Of(ks) = E /\ Injective(ks)
  BY <1>2, <1>3, OneMore
<1>5. at \in {"key", "value", "filter"} /\ kind \in NodeKinds /\ kind \in ListKinds /\ kind # "binary"
  BY DEF NodeKinds, ListKinds
<1> HIDE DEF ks, kind, at
<1>6. node \in Nodes /\ node.kind = kind /\ node.kids = ks
  <2>1. NoOp \in Kinds \cup {NoOp} /\ 0 \in Nat
    OBVIOUS
  <2> QED
    BY <1>3, <1>4, <1>5, <2>1, NodeIs DEF Node
<1> HIDE DEF node, E
<1>7. Takes(heap, E, node) /\ E \ Of(node.kids) = {}
  BY <1>4, <1>5, <1>6 DEF Takes
<1>8. /\ Good(src, Append(heap, node), freed, Under(calls), (E \ Of(node.kids)) \cup {new})
      /\ Append(heap, node)[new] = node
  BY <1>2, <1>7, Builds
<1>9. heap' = Append(heap, node)
  BY <1>1, <1>2, <1>6, Joined
<1> HIDE DEF new
<1>10. Good(src, heap', freed', Under(calls), {new}) /\ heap'[new] = node
  <2>1. (E \ Of(node.kids)) \cup {new} = {new}
    BY <1>7
  <2> QED
    BY <1>1, <1>8, <1>9, <2>1
<1>11. heap'[new].kind \in ListKinds /\ faults' \in 0 .. MaxFaults /\ Next1 \in 1 .. Len(src) + 1
  BY <1>1, <1>5, <1>6, <1>10, FaultCount, StepNext
<1> QED
  BY <1>1, <1>5, <1>10, <1>11, ForGoesOn

\* What is known when a part behind the collection is there.
LEMMA ForPart ==
    ASSUME IInv, ret = "ok", calls # <<>>, Top.fn = "for", Top.at \in {"key", "value", "filter"}
    PROVE  /\ Lists(Top) /\ List \in Nat /\ val \in Nat /\ List \in Ids(heap)
           /\ heap \in Seq(Nodes) /\ heap[List] \in Nodes /\ Owned(Top) = {List}
           /\ <<val>> \in Seq(Nat) /\ Injective(<<val>>) /\ List \notin Of(<<val>>)
           /\ {List} \cup Of(<<val>>) = {val} \cup Owned(Top) /\ {List, val} = Owned(Top) \cup {val}
           /\ Below = Under(calls)
<1>1. Lists(Top) /\ Top.fn # "object"
  BY DEF Lists
<1>2. /\ Top \in Frames /\ List \in Nat /\ val \in Nat /\ List # val
      /\ List \in Ids(heap) /\ heap \in Seq(Nodes) /\ heap[List] \in Nodes
      /\ Owned(Top) = {List} /\ Below = Under(calls)
  BY <1>1, PartReturns
<1>3. <<val>> \in Seq(Nat) /\ Injective(<<val>>) /\ Of(<<val>>) = {val}
  BY <1>2, OneOwned
<1>4. List \notin Of(<<val>>) /\ {List} \cup Of(<<val>>) = {val} \cup Owned(Top)
      /\ {List, val} = Owned(Top) \cup {val}
  BY <1>2, <1>3
<1> QED
  BY <1>1, <1>2, <1>3, <1>4

LEMMA KeyOfFor ==
    ASSUME IInv, ForKey
    PROVE  IInv'
<1> DEFINE new == More(heap[List], <<val>>)
<1>1. /\ ret = "ok" /\ calls # <<>> /\ Top.fn = "for" /\ Top.at \in {"key", "value", "filter"}
      /\ heap' = Adopt(List, <<val>>) /\ freed' = freed /\ UNCHANGED faults
      /\ Expr(Append(Below, Here("value", <<List>>)), Next1)
  BY DEF ForKey, Returned, In
<1>2. /\ Lists(Top) /\ List \in Ids(heap)
      /\ heap \in Seq(Nodes) /\ heap[List] \in Nodes
      /\ <<val>> \in Seq(Nat) /\ Injective(<<val>>) /\ List \notin Of(<<val>>)
      /\ {List} \cup Of(<<val>>) = {val} \cup Owned(Top)
  BY <1>1, ForPart
<1>3. heap' = Edit(heap, List, new)
  BY <1>1, <1>2, AdoptEdits
<1>4. new \in Nodes /\ new.kind = heap[List].kind /\ new.kids = heap[List].kids \o <<val>>
  <2>1. NoOp \in Kinds \cup {NoOp} /\ 0 \in Nat
    OBVIOUS
  <2> QED
    BY <1>2, <2>1, MoreIs
<1> HIDE DEF new
<1>5. /\ Good(src, heap', freed', Under(calls), {List}) /\ heap'[List] = new
      /\ new.kind \in ListKinds
  BY <1>1, <1>2, <1>3, <1>4, ListAdopts
<1>6. /\ heap'[List].kind \in ListKinds /\ faults' \in 0 .. MaxFaults
      /\ "value" \in {"key", "value", "filter"} /\ Next1 \in 1 .. Len(src) + 1
  BY <1>1, <1>5, FaultCount, StepNext
<1> QED
  BY <1>1, <1>5, <1>6, ForGoesOn

\* The node takes its last but one, or its last, part, a mode and the end of its span.
LEMMA LastAdopted ==
    ASSUME IInv, ret = "ok", calls # <<>>, Top.fn = "for", Top.at \in {"key", "value", "filter"},
           NEW op \in Kinds \cup {NoOp}, NEW last \in Nat,
           heap' = AdoptLast(List, <<val>>, op, last), freed' = freed
    PROVE  /\ Good(src, heap', freed', Under(calls), {List})
           /\ heap'[List].kind \in ListKinds /\ heap'[List].last = last
<1> DEFINE new == MoreLast(heap[List], <<val>>, op, last)
<1>1. /\ Lists(Top) /\ List \in Ids(heap)
      /\ heap \in Seq(Nodes) /\ heap[List] \in Nodes
      /\ <<val>> \in Seq(Nat) /\ Injective(<<val>>) /\ List \notin Of(<<val>>)
      /\ {List} \cup Of(<<val>>) = {val} \cup Owned(Top)
  BY ForPart
<1>2. heap' = Edit(heap, List, new)
  BY <1>1, AdoptEdits
<1>3. /\ new \in Nodes /\ new.kind = heap[List].kind /\ new.kids = heap[List].kids \o <<val>>
      /\ new.last = last
  BY <1>1, MoreIs
<1> HIDE DEF new
<1>4. /\ Good(src, heap', freed', Under(calls), {List}) /\ heap'[List] = new
      /\ new.kind \in ListKinds
  BY <1>1, <1>2, <1>3, ListAdopts
<1> QED
  BY <1>3, <1>4

LEMMA Behinds ==
    ASSUME IInv
    PROVE  Behind \in 1 .. Len(src) + 1 /\ Mode \in Kinds \cup {NoOp}
<1>1. "..." \in Kinds
  BY DEF Kinds
<1> QED
  BY <1>1, StepNext DEF Behind, Mode

LEMMA FilterBegins ==
    ASSUME IInv, ForFilter
    PROVE  IInv'
<1>1. /\ ret = "ok" /\ calls # <<>> /\ Top.fn = "for" /\ Top.at \in {"key", "value", "filter"}
      /\ heap' = AdoptLast(List, <<val>>, Mode, 0) /\ freed' = freed /\ UNCHANGED faults
      /\ Expr(Append(Below, Here("filter", <<List>>)), After(Behind))
  BY DEF ForFilter, Returned, In
<1>2. /\ Good(src, heap', freed', Under(calls), {List}) /\ heap'[List].kind \in ListKinds
  <2>1. 0 \in Nat /\ Mode \in Kinds \cup {NoOp}
    BY Behinds
  <2> QED
    BY <1>1, <2>1, LastAdopted
<1>3. After(Behind) \in 1 .. Len(src) + 1
  BY Behinds, Positions DEF IInv
<1>4. faults' \in 0 .. MaxFaults /\ "filter" \in {"key", "value", "filter"}
  BY <1>1, FaultCount
<1> QED
  BY <1>1, <1>2, <1>3, <1>4, ForGoesOn

LEMMA ForReturns ==
    ASSUME IInv, ret = "ok", calls # <<>>, Top.fn = "for", Top.at \in {"key", "value", "filter"},
           NEW op \in Kinds \cup {NoOp}, NEW i \in 1 .. Len(src) + 1, ForEnds(op, i), UNCHANGED faults
    PROVE  IInv'
<1>1. CASE /\ Tok(i) = ForCloser
           /\ heap' = AdoptLast(List, <<val>>, op, i)
           /\ PostfixOf(Below, List, After(i))
           /\ UNCHANGED freed
  <2>1. /\ Tok(i) # "eof"
    BY <1>1, Braces DEF ForCloser
  <2>2. /\ i \in Nat /\ After(i) \in 1 .. Len(src) + 1 /\ After(i) >= 2 /\ After(i) - 1 = i
    BY <2>1, Positions DEF IInv
  <2>3. /\ Good(src, heap', freed', Under(calls), {List})
        /\ heap'[List].kind \in ListKinds /\ heap'[List].last = i
    BY <1>1, <2>2, LastAdopted
  <2>4. Binds(heap'[List]) = 7
    <3>1. heap'[List].kind # "binary"
      BY <2>3 DEF ListKinds
    <3> QED
      BY <3>1, BindsRange
  <2>5. EndsAt(src, After(i), heap'[List])
    BY <2>2, <2>3 DEF EndsAt
  <2>6. Under(calls) # <<>> /\ Waiting(Upper(Under(calls))) /\ WantsUnary(Upper(Under(calls)))
    BY CallerWants
  <2>7. faults' \in 0 .. MaxFaults /\ PostfixOf(Under(calls), List, After(i))
    BY <1>1, FaultCount, ForPart
  <2> QED
    BY <2>2, <2>3, <2>4, <2>5, <2>6, <2>7, ToPostfix
<1>2. CASE Fails({List, val})
  <2>1. {List, val} = Owned(Top) \cup {val}
    BY ForPart
  <2> QED
    BY <1>2, <2>1, FailsReturned
<1> QED
  BY <1>1, <1>2 DEF ForEnds

LEMMA ForKeeps ==
    ASSUME IInv, ForStep
    PROVE  IInv'
<1>1. CASE ForHeaderFails
  <2>1. ret = "unary" /\ ret' = "fail" /\ UNCHANGED <<src, pos, calls, val, heap, freed>>
        /\ (Fault \/ UNCHANGED faults)
    BY <1>1 DEF ForHeaderFails, ForBegins, PrimaryBegins
  <2> QED
    BY <2>1, ToNothing
<1>2. CASE ForCollectionFails
  <2>1. ret = "ok" /\ calls # <<>> /\ Fails(Owned(Top) \cup {val}) /\ (Fault \/ UNCHANGED faults)
    BY <1>2 DEF ForCollectionFails, Returned, In
  <2> QED
    BY <2>1, FailsReturned
<1>3. CASE ForWithoutValue
  <2>1. /\ ret = "ok" /\ calls # <<>> /\ Top.fn = "for" /\ Top.at \in {"key", "value", "filter"}
        /\ Fails({List, val}) /\ UNCHANGED faults
    BY <1>3 DEF ForWithoutValue, Returned, In
  <2>2. {List, val} = Owned(Top) \cup {val}
    BY <2>1, ForPart
  <2> QED
    BY <2>1, <2>2, FailsReturned
<1>4. CASE ForWithoutFilter
  <2>1. /\ ret = "ok" /\ calls # <<>> /\ Top.fn = "for" /\ Top.at \in {"key", "value", "filter"}
        /\ ForEnds(Mode, Behind) /\ UNCHANGED faults
    BY <1>4 DEF ForWithoutFilter, Returned, In
  <2> QED
    BY <2>1, Behinds, ForReturns
<1>5. CASE ForFiltered
  <2>1. /\ ret = "ok" /\ calls # <<>> /\ Top.fn = "for" /\ Top.at \in {"key", "value", "filter"}
        /\ ForEnds(heap[List].op, pos) /\ UNCHANGED faults
    BY <1>5 DEF ForFiltered, Returned, In
  <2>2. heap[List].op \in Kinds \cup {NoOp} /\ pos \in 1 .. Len(src) + 1
    <3>1. heap[List] \in Nodes
      BY <2>1, ForPart
    <3> QED
      BY <3>1, StepNext DEF Nodes
  <2> QED
    BY <2>1, <2>2, ForReturns
<1> QED
  BY <1>1, <1>2, <1>3, <1>4, <1>5, HeaderRead, CollectionRead, KeyOfFor, FilterBegins DEF ForStep

-----------------------------------------------------------------------------
(* parse_postfix and build_splat. *)

\* A string and a node over it, while others stay in hand.
LEMMA BuildsTwo ==
    ASSUME NEW s, NEW h, NEW fr, NEW cs, NEW E, Good(s, h, fr, cs, E), NEW a, Atom(a),
           NEW node \in Nodes, node.kind # "binary", Of(node.kids) \subseteq E \cup {Len(h) + 1},
           Injective(node.kids), NEW F, F = ((E \cup {Len(h) + 1}) \ Of(node.kids)) \cup {Len(h) + 2}
    PROVE  LET g == h \o <<a, node>>
               new == Len(h) + 2
           IN  Good(s, g, fr, cs, F) /\ g[new] = node /\ new \in Nat /\ new # 0 /\ new \notin E
<1> DEFINE m == Append(h, a)
           D == E \cup {Len(h) + 1}
           g == h \o <<a, node>>
           new == Len(h) + 2
<1>1. Good(s, m, fr, cs, D) /\ Len(m) = Len(h) + 1
  BY BuildsAtom
<1>2. g = Append(m, node) /\ Len(h) \in Nat
  BY GoodHand, Joined DEF Atom
<1>3. F = (D \ Of(node.kids)) \cup {new} /\ new = Len(m) + 1 /\ E \subseteq D
  BY <1>1, <1>2
<1> HIDE DEF m, D
<1>4. Takes(m, D, node)
  BY DEF Takes, D
<1>5. /\ Good(s, Append(m, node), fr, cs, (D \ Of(node.kids)) \cup {Len(m) + 1})
      /\ Append(m, node)[Len(m) + 1] = node
  BY <1>1, <1>4, Builds
<1>6. Len(m) + 1 \notin D
  BY <1>1, <1>4, Builds
<1>7. new \in Nat /\ new # 0
  BY <1>2
<1> HIDE DEF g, new
<1>8. Good(s, g, fr, cs, F) /\ g[new] = node /\ new \notin E
  BY <1>2, <1>3, <1>5, <1>6
<1> QED
  BY <1>7, <1>8 DEF g, new

\* What is known of the function that walks a traversal.
LEMMA Walker ==
    ASSUME IInv, calls # <<>>, Top.fn \in {"postfix", "splat"}, Top.at \in {"rel", "index"}
    PROVE  /\ Top \in Frames /\ FrameOK(src, Top) /\ Below = Under(calls) /\ Top = Upper(calls)
           /\ Good(src, heap, freed, Under(calls), ({val} \ {0}) \cup Owned(Top))
           /\ Top.own \in Seq(Nat) /\ Injective(Top.own) /\ Of(Top.own) = Owned(Top)
           /\ HoldOK(src, heap, Top)
           /\ Base \in Nat /\ Base \in Owned(Top) /\ Owned(Top) \subseteq Ids(heap)
           /\ heap \in Seq(Nodes) /\ HeapOK(heap) /\ Len(heap) \in Nat
           /\ Top.fn = "postfix" => /\ Top.own = <<Base>> /\ Owned(Top) = {Base}
                                    /\ Len(Top.own) = 1 /\ Binds(heap[Base]) = 7 /\ Top.own[1] = Base
           /\ Top.fn = "splat" => /\ Top.own = <<Top.own[1], Base>> /\ Owned(Top) = {Top.own[1], Base}
                                  /\ Len(Top.own) = 2 /\ Top.own[1] \in Nat /\ Top.own[1] # Base
<1>1. /\ Top \in Frames /\ FrameOK(src, Top) /\ Below = Under(calls) /\ Top = Upper(calls)
      /\ Good(src, heap, freed, Under(calls), ({val} \ {0}) \cup Owned(Top))
      /\ Injective(Top.own) /\ HoldOK(src, heap, Top) /\ Owned(Top) \subseteq Ids(heap)
      /\ heap \in Seq(Nodes) /\ HeapOK(heap)
  BY TopFacts
<1>2. Top.own \in Seq(Nat) /\ Of(Top.own) = Owned(Top)
  BY <1>1, Owns
<1>3. CASE Top.fn = "postfix"
  <2>1. Len(Top.own) = 1
    BY <1>1, <1>3 DEF FrameOK
  <2>2. Base = Top.own[1]
    BY <2>1 DEF Base
  <2>3. Top.own = <<Base>> /\ Owned(Top) = {Base} /\ Base \in Nat
    BY <1>1, <2>1, <2>2, Owns
  <2>4. Binds(heap[Base]) = 7
    BY <1>1, <1>3, <2>2 DEF HoldOK
  <2> QED
    BY <1>1, <1>2, <1>3, <2>1, <2>2, <2>3, <2>4, HeapFacts
<1>4. CASE Top.fn = "splat"
  <2>1. Len(Top.own) = 2
    BY <1>1, <1>4 DEF FrameOK
  <2>2. Base = Top.own[2]
    BY <2>1 DEF Base
  <2>3. /\ Top.own = <<Top.own[1], Base>> /\ Owned(Top) = {Top.own[1], Base} /\ Base \in Nat
        /\ Top.own[1] \in Nat /\ Top.own[1] # Base
    BY <1>1, <2>1, <2>2, Owns
  <2> QED
    BY <1>1, <1>2, <1>4, <2>1, <2>3, HeapFacts
<1> QED
  BY <1>3, <1>4

LEMMA Walks ==
    ASSUME IInv, Traversing
    PROVE  /\ ret = "run" /\ calls # <<>> /\ Top.fn \in {"postfix", "splat"} /\ Top.at = "rel"
           /\ Good(src, heap, freed, Under(calls), Owned(Top))
           /\ Top.fn = "postfix" => EndsAt(src, pos, heap[Base])
<1>1. ret = "run" /\ calls # <<>> /\ Top.fn \in {"postfix", "splat"} /\ Top = Upper(calls)
  BY TopFacts DEF Traversing
<1>2. Running(Top) /\ (Top.fn = "postfix" => EndsAt(src, pos, heap[Top.own[1]]))
  BY <1>1 DEF IInv, Turn
<1>3. Top.at = "rel"
  BY <1>1, <1>2, TopFacts DEF Running, FrameOK, ListFns
<1>4. Top.fn = "postfix" => EndsAt(src, pos, heap[Base])
  BY <1>1, <1>2, <1>3, Walker
<1>5. Good(src, heap, freed, Under(calls), Owned(Top))
  <2>1. ({val} \ {0}) \cup Owned(Top) = Owned(Top)
    BY <1>1, QuietFacts
  <2> QED
    BY <1>1, <1>3, <2>1, Walker
<1> QED
  BY <1>1, <1>3, <1>4, <1>5

\* The walk goes on with the cells of own.
LEMMA ToRel ==
    ASSUME IInv, calls # <<>>, Top.fn \in {"postfix", "splat"}, NEW own \in Seq(Nat), Injective(own),
           Top.fn = "postfix" => Len(own) = 1 /\ Binds(heap'[own[1]]) = 7,
           Top.fn = "splat" => Len(own) = 2,
           NEW i \in 1 .. Len(src) + 1, Top.fn = "postfix" => EndsAt(src, i, heap'[own[1]]),
           Good(src, heap', freed', Under(calls), Of(own)),
           GoOn(Append(Below, Here("rel", own)), i), faults' \in 0 .. MaxFaults
    PROVE  IInv'
<1> DEFINE f == Here("rel", own)
           E == Of(own)
<1>1. Top \in Frames
  BY TopFacts
<1>2. f.fn = Top.fn /\ f.at = "rel" /\ f.bp = Top.bp /\ f.own = own /\ f \in Frames
  BY <1>1, HereIs, Known
<1>3. GoOn(Append(Below, f), i)
  OBVIOUS
<1> HIDE DEF f
<1>4. FrameOK(src, f)
  BY <1>2 DEF FrameOK, ListFns
<1>5. HoldOK(src, heap', f)
  BY <1>2 DEF HoldOK, Lists, ListFns
<1>6. Running(f)
  BY <1>2 DEF Running
<1>7. Resumed(heap', E, f) /\ E \subseteq Of(f.own)
  BY <1>2, <1>4, <1>5 DEF Resumed
<1>8. f.fn = "postfix" => EndsAt(src, i, heap'[f.own[1]])
  BY <1>2
<1>9. Good(src, heap', freed', Under(calls), E)
  OBVIOUS
<1> HIDE DEF E
<1> QED
  BY <1>3, <1>6, <1>7, <1>8, <1>9, ResumeRun

\* The walk goes on with the node n in the place of what it had.
LEMMA ToRebased ==
    ASSUME IInv, calls # <<>>, Top.fn \in {"postfix", "splat"}, Top.at \in {"rel", "index"},
           NEW n \in Nat, n \notin Owned(Top), NEW i \in 1 .. Len(src) + 1,
           Good(src, heap', freed', Under(calls), (Owned(Top) \ {Base}) \cup {n}),
           Binds(heap'[n]) = 7, Top.fn = "postfix" => EndsAt(src, i, heap'[n]),
           GoOn(Rebased(n), i), faults' \in 0 .. MaxFaults
    PROVE  IInv'
<1> DEFINE own == [Top.own EXCEPT ![Len(Top.own)] = n]
           E == (Owned(Top) \ {Base}) \cup {n}
<1>1. GoOn(Append(Below, Here("rel", own)), i)
  BY DEF Rebased
<1>2. Good(src, heap', freed', Under(calls), E)
  OBVIOUS
<1>3. CASE Top.fn = "postfix"
  <2>1. Top.own = <<Base>> /\ Owned(Top) = {Base}
    BY <1>3, Walker
  <2>2. own = <<n>>
    BY <2>1
  <2>3. E = {n}
    BY <2>1
  <2> HIDE DEF own, E
  <2>4. /\ own \in Seq(Nat) /\ Injective(own) /\ Len(own) = 1 /\ own[1] = n /\ Of(own) = E
    BY <2>2, <2>3, OneOwned
  <2>5. Good(src, heap', freed', Under(calls), Of(own))
    BY <1>2, <2>4
  <2> QED
    BY <1>1, <1>3, <2>4, <2>5, ToRel
<1>4. CASE Top.fn = "splat"
  <2> DEFINE c == Top.own[1]
  <2>1. Top.own = <<c, Base>> /\ Owned(Top) = {c, Base} /\ c \in Nat /\ c # Base
    BY <1>4, Walker
  <2> HIDE DEF c
  <2>2. own = <<c, n>>
    BY <2>1
  <2>3. E = {c, n} /\ c # n
    BY <2>1
  <2> HIDE DEF own, E
  <2>4. /\ own \in Seq(Nat) /\ Injective(own) /\ Len(own) = 2 /\ Of(own) = E
    BY <2>1, <2>2, <2>3, TwoOwned
  <2>5. Good(src, heap', freed', Under(calls), Of(own))
    BY <1>2, <2>4
  <2> QED
    BY <1>1, <1>4, <2>4, <2>5, ToRel
<1> QED
  BY <1>3, <1>4

LEMMA Stamps ==
    ASSUME NEW i \in Nat
    PROVE  Stamp(i) \in Nat /\ (Top.fn = "postfix" => Stamp(i) = i)
BY DEF Stamp

LEMMA AttributeRead ==
    ASSUME IInv, Attribute
    PROVE  IInv'
<1> DEFINE one == Len(heap) + 1
           two == Len(heap) + 2
           node == Node("attr", NoOp, <<one, Base>>, Stamp(pos), Stamp(Next1))
           E == Owned(Top)
           F == (E \ {Base}) \cup {two}
<1>1. /\ Traversing /\ Tok(Next1) \in Names
      /\ heap' = heap \o <<Text, node>> /\ freed' = freed /\ UNCHANGED faults
      /\ GoOn(Rebased(two), Next2)
  BY DEF Attribute, Allocates, Fresh
<1>2. /\ ret = "run" /\ calls # <<>> /\ Top.fn \in {"postfix", "splat"} /\ Top.at \in {"rel", "index"}
      /\ Good(src, heap, freed, Under(calls), E)
  BY <1>1, Walks
<1>3. /\ Base \in Nat /\ Base \in E /\ E \subseteq Ids(heap) /\ Len(heap) \in Nat
  BY <1>2, Walker
<1>4. pos \in Nat /\ Next1 \in Nat /\ Next1 \in 1 .. Len(src) + 1 /\ Next2 \in 1 .. Len(src) + 1
  BY StepNext
<1>5. one \in Nat /\ one \notin E /\ one # Base
  BY <1>3 DEF Ids
<1> HIDE DEF E, one
<1>6. <<one, Base>> \in Seq(Nat) /\ Of(<<one, Base>>) = {one, Base} /\ Injective(<<one, Base>>)
  BY <1>3, <1>5, TwoOwned
<1>7. /\ node \in Nodes /\ node.kind = "attr" /\ node.kids = <<one, Base>> /\ node.last = Stamp(Next1)
  <2>1. NoOp \in Kinds \cup {NoOp} /\ "attr" \in NodeKinds /\ Stamp(pos) \in Nat /\ Stamp(Next1) \in Nat
    BY <1>4, Stamps DEF NodeKinds
  <2> QED
    BY <1>6, <2>1, NodeIs DEF Node
<1> HIDE DEF node
<1>8. /\ Of(node.kids) \subseteq E \cup {one} /\ Injective(node.kids) /\ node.kind # "binary"
      /\ F = ((E \cup {one}) \ Of(node.kids)) \cup {two}
  BY <1>3, <1>5, <1>6, <1>7
<1> HIDE DEF F, two
<1>9. /\ Good(src, heap \o <<Text, node>>, freed, Under(calls), F)
      /\ (heap \o <<Text, node>>)[two] = node /\ two \in Nat /\ two \notin E
  <2>1. /\ Good(src, heap, freed, Under(calls), E) /\ Atom(Text) /\ node \in Nodes
        /\ node.kind # "binary" /\ Injective(node.kids)
        /\ Of(node.kids) \subseteq E \cup {Len(heap) + 1}
        /\ F = ((E \cup {Len(heap) + 1}) \ Of(node.kids)) \cup {Len(heap) + 2}
    BY <1>2, <1>7, <1>8, Strings DEF one, two
  <2>2. Good(src, heap \o <<Text, node>>, freed, Under(calls), F)
    BY <2>1, BuildsTwo
  <2>3. (heap \o <<Text, node>>)[Len(heap) + 2] = node
    BY <2>1, BuildsTwo
  <2>4. Len(heap) + 2 \in Nat /\ Len(heap) + 2 \notin E
    BY <2>1, BuildsTwo
  <2> QED
    BY <2>2, <2>3, <2>4 DEF two
<1>10. Good(src, heap', freed', Under(calls), (Owned(Top) \ {Base}) \cup {two}) /\ heap'[two] = node
  BY <1>1, <1>9 DEF E, F
<1>11. two \in Nat /\ two \notin Owned(Top)
  BY <1>9 DEF E
<1>12. Binds(heap'[two]) = 7
  BY <1>8, <1>10, BindsRange
<1>13. Top.fn = "postfix" => EndsAt(src, Next2, heap'[two])
  <2>1. Tok(Next1) # "eof"
    BY <1>1 DEF Names, Keywords
  <2>2. Next2 - 1 = Next1
    BY <1>4, <2>1, Positions DEF Next2, IInv
  <2> QED
    BY <1>4, <1>7, <1>10, <2>2, Stamps DEF EndsAt
<1>14. faults' \in 0 .. MaxFaults
  BY <1>1, FaultCount
<1> QED
  BY <1>1, <1>2, <1>4, <1>10, <1>11, <1>12, <1>13, <1>14, ToRebased

LEMMA IndexOpens ==
    ASSUME IInv, IndexBegins
    PROVE  IInv'
<1> DEFINE f == [Here("index", Top.own) EXCEPT !.tok = pos]
           E == Owned(Top)
<1>1. Traversing /\ Expr(Append(Below, f), Next1) /\ Same
  BY DEF IndexBegins
<1>2. /\ ret = "run" /\ calls # <<>> /\ Top.fn \in {"postfix", "splat"} /\ Top.at \in {"rel", "index"}
      /\ Top.at = "rel" /\ Good(src, heap, freed, Under(calls), E)
  BY <1>1, Walks
<1>3. /\ Top \in Frames /\ FrameOK(src, Top) /\ Top.own \in Seq(Nat) /\ Injective(Top.own)
      /\ Of(Top.own) = E /\ HoldOK(src, heap, Top)
  BY <1>2, Walker
<1>4. pos \in Nat /\ Next1 \in 1 .. Len(src) + 1
  BY StepNext
<1>5. f \in Frames /\ f.fn = Top.fn /\ f.bp = Top.bp /\ f.at = "index" /\ f.own = Top.own
  <2>1. "index" \in Ats
    BY Known
  <2> QED
    BY <1>3, <1>4, <2>1 DEF Here, Frames
<1> HIDE DEF f
<1>6. FrameOK(src, f)
  BY <1>2, <1>3, <1>5 DEF FrameOK, ListFns
<1>7. heap' = heap /\ freed' = freed /\ faults' \in 0 .. MaxFaults
  BY <1>1, FaultCount DEF Same
<1>8. HoldOK(src, heap', f)
  BY <1>2, <1>3, <1>5, <1>7 DEF HoldOK, Lists, ListFns
<1>9. Waiting(f) /\ Hosts(f)
  BY <1>2, <1>5 DEF Waiting, Hosts
<1> HIDE DEF E
<1>10. Resumed(heap', E, f) /\ E \subseteq Of(f.own) /\ Good(src, heap', freed', Under(calls), E)
  BY <1>2, <1>3, <1>5, <1>6, <1>7, <1>8 DEF Resumed
<1> QED
  BY <1>1, <1>2, <1>4, <1>7, <1>9, <1>10, ResumeExpr

LEMMA IndexReturned ==
    ASSUME IInv, ret = "ok", calls # <<>>, Top.at = "index"
    PROVE  Top.fn \in {"postfix", "splat"}
<1>1. Top \in Frames /\ FrameOK(src, Top)
  BY Returns
<1>2. Top.fn \in Fns
  BY <1>1, Owns
<1> QED
  BY <1>1, <1>2 DEF FrameOK, Fns, ListFns

LEMMA IndexApplied ==
    ASSUME IInv, IndexDone
    PROVE  IInv'
<1> DEFINE new == Len(heap) + 1
           node == Node("index", NoOp, <<Base, val>>, Stamp(Top.tok), Stamp(pos))
           E == {val} \cup Owned(Top)
           F == (Owned(Top) \ {Base}) \cup {new}
<1>1. /\ ret = "ok" /\ calls # <<>> /\ Top.at = "index" /\ T = "]"
      /\ heap' = heap \o <<node>> /\ freed' = freed /\ UNCHANGED faults
      /\ GoOn(Rebased(new), Next1)
  BY DEF IndexDone, Allocates, Fresh
<1>2. Top.fn \in {"postfix", "splat"} /\ Top.at \in {"rel", "index"}
  BY <1>1, IndexReturned
<1>3. /\ Base \in Nat /\ Base \in Owned(Top) /\ Top.fn \in {"postfix", "splat"} /\ Top \in Frames
      /\ heap \in Seq(Nodes)
  BY <1>1, <1>2, Walker
<1>4. /\ Good(src, heap, freed, Under(calls), E) /\ val \in Nat /\ val \notin Owned(Top) /\ src \in Sources
  BY <1>1, Returns
<1>5. pos \in Nat /\ pos \in 1 .. Len(src) + 1 /\ Next1 \in 1 .. Len(src) + 1 /\ Top.tok \in Nat
  BY <1>3, StepNext, Owns
<1>6. /\ <<Base, val>> \in Seq(Nat) /\ Of(<<Base, val>>) = {Base, val} /\ Injective(<<Base, val>>)
  BY <1>3, <1>4, TwoOwned
<1>7. /\ node \in Nodes /\ node.kind = "index" /\ node.kids = <<Base, val>> /\ node.last = Stamp(pos)
  <2>1. /\ NoOp \in Kinds \cup {NoOp} /\ "index" \in NodeKinds
        /\ Stamp(Top.tok) \in Nat /\ Stamp(pos) \in Nat
    BY <1>5, Stamps DEF NodeKinds
  <2> QED
    BY <1>6, <2>1, NodeIs DEF Node
<1> HIDE DEF node
<1>8. Takes(heap, E, node)
  BY <1>3, <1>6, <1>7 DEF Takes
<1>9. F = (E \ Of(node.kids)) \cup {new} /\ Owned(Top) \subseteq E
  BY <1>4, <1>6, <1>7
<1> HIDE DEF E
<1>10. Good(src, Append(heap, node), freed, Under(calls), (E \ Of(node.kids)) \cup {new})
  BY <1>4, <1>8, Builds
<1>11. Append(heap, node)[new] = node /\ new \in Nat
  BY <1>4, <1>8, Builds
<1>12. new \notin E
  BY <1>4, <1>8, Builds
<1>13. heap' = Append(heap, node)
  BY <1>1, <1>3, <1>7, Joined
<1> HIDE DEF new, F
<1>14. Good(src, heap', freed', Under(calls), F) /\ heap'[new] = node /\ new \notin Owned(Top)
  BY <1>1, <1>9, <1>10, <1>11, <1>12, <1>13
<1>15. Good(src, heap', freed', Under(calls), (Owned(Top) \ {Base}) \cup {new})
  BY <1>14 DEF F
<1>16. Binds(heap'[new]) = 7
  BY <1>7, <1>14, BindsRange
<1>17. Top.fn = "postfix" => EndsAt(src, Next1, heap'[new])
  <2>1. Next1 - 1 = pos
    BY <1>1, <1>4, <1>5, Positions DEF Next1, T
  <2> QED
    BY <1>5, <1>7, <1>14, <2>1, Stamps DEF EndsAt
<1>18. faults' \in 0 .. MaxFaults
  BY <1>1, FaultCount
<1> QED
  BY <1>1, <1>2, <1>5, <1>11, <1>14, <1>15, <1>16, <1>17, <1>18, ToRebased

\* build_splat takes the collection over.
LEMMA SplatOpens ==
    ASSUME IInv, SplatBegins
    PROVE  IInv'
<1> DEFINE one == Len(heap) + 1
           two == Len(heap) + 2
           node == Node("element", NoOp, <<one>>, 0, 0)
           E == Owned(Top)
           F == E \cup {two}
           rest == SubSeq(Top.own, 1, Len(Top.own) - 1)
           f == Here("inner", rest)
           g == Frame("splat", "rel", 0, 0, <<Base, two>>)
           t == Append(Below, f)
           i == IF StarDot THEN Next2 ELSE After(Next2)
<1>1. /\ Traversing
      /\ heap' = heap \o <<Text, node>> /\ freed' = freed /\ UNCHANGED faults
      /\ GoOn(Append(t, g), i)
  BY DEF SplatBegins, Allocates, Fresh
<1>2. /\ ret = "run" /\ calls # <<>> /\ Top.fn \in {"postfix", "splat"} /\ Top.at = "rel"
      /\ Top.at \in {"rel", "index"} /\ Good(src, heap, freed, Under(calls), E)
  BY <1>1, Walks
<1>3. /\ Base \in Nat /\ Base \in E /\ E \subseteq Ids(heap) /\ Len(heap) \in Nat
      /\ Top \in Frames /\ FrameOK(src, Top) /\ Below = Under(calls)
  BY <1>2, Walker
<1>4. i \in 1 .. Len(src) + 1
  BY StepNext, Positions DEF IInv
<1>5. one \in Nat /\ one \notin E
  BY <1>3 DEF Ids
<1>6. /\ rest \in Seq(Nat) /\ Injective(rest) /\ Of(rest) = E \ {Base}
      /\ Top.fn = "postfix" => Len(rest) = 0
      /\ Top.fn = "splat" => Len(rest) = 1
  <2>1. CASE Top.fn = "postfix"
    <3>1. Top.own = <<Base>> /\ E = {Base}
      BY <1>2, <2>1, Walker
    <3>2. rest = <<>>
      BY <3>1
    <3> HIDE DEF rest, E
    <3> QED
      BY <2>1, <3>1, <3>2, NoneOwned
  <2>2. CASE Top.fn = "splat"
    <3> DEFINE c == Top.own[1]
    <3>1. Top.own = <<c, Base>> /\ E = {c, Base} /\ c \in Nat /\ c # Base
      BY <1>2, <2>2, Walker
    <3> HIDE DEF c
    <3>2. rest = <<c>>
      <4>1. <<c, Base>> \in Seq(Nat) /\ Len(<<c, Base>>) = 2
        BY <1>3, <3>1, TwoOwned
      <4> DEFINE q == <<c, Base>>
      <4>2. q \in Seq(Nat) /\ Len(q) = 2 /\ q[1] = c /\ rest = SubSeq(q, 1, Len(q) - 1)
        BY <3>1, <4>1
      <4> HIDE DEF rest, q
      <4>3. rest \in Seq(Nat) /\ Len(rest) = 1 /\ rest[1] = q[1]
        BY <4>2
      <4>4. rest[1] = c
        BY <4>2, <4>3
      <4> QED
        BY <4>3, <4>4
    <3> HIDE DEF rest, E
    <3>3. <<c>> \in Seq(Nat) /\ Len(<<c>>) = 1 /\ Of(<<c>>) = {c} /\ Injective(<<c>>)
      BY <3>1, OneOwned
    <3> QED
      BY <2>2, <3>1, <3>2, <3>3
  <2> QED
    BY <1>2, <2>1, <2>2
<1> HIDE DEF E, one, rest, i
<1>7. <<one>> \in Seq(Nat) /\ Of(<<one>>) = {one} /\ Injective(<<one>>)
  BY <1>5, OneOwned
<1>8. /\ node \in Nodes /\ node.kind = "element" /\ node.kids = <<one>>
  <2>1. NoOp \in Kinds \cup {NoOp} /\ "element" \in NodeKinds /\ 0 \in Nat
    BY DEF NodeKinds
  <2> QED
    BY <1>7, <2>1, NodeIs DEF Node
<1> HIDE DEF node
<1>9. /\ Good(src, heap, freed, Under(calls), E) /\ Atom(Text) /\ node \in Nodes
      /\ node.kind # "binary" /\ Injective(node.kids)
      /\ Of(node.kids) \subseteq E \cup {Len(heap) + 1}
      /\ F = ((E \cup {Len(heap) + 1}) \ Of(node.kids)) \cup {Len(heap) + 2}
  BY <1>2, <1>5, <1>7, <1>8, Strings DEF one
<1> HIDE DEF F
<1>10. Good(src, heap \o <<Text, node>>, freed, Under(calls), F)
  BY <1>9, BuildsTwo
<1>11. two \in Nat /\ two \notin E
  BY <1>9, BuildsTwo
<1>12. Good(src, heap', freed', Under(calls), F)
  BY <1>1, <1>10
<1> HIDE DEF two
<1>13. /\ f \in Frames /\ f.fn = Top.fn /\ f.at = "inner" /\ f.bp = Top.bp /\ f.own = rest
  BY <1>3, <1>6, HereIs, Known
<1> HIDE DEF f
<1>14. Resumed(heap', F, f) /\ F \ Of(f.own) = {Base, two}
  <2>1. FrameOK(src, f)
    BY <1>2, <1>6, <1>13 DEF FrameOK, ListFns
  <2>2. HoldOK(src, heap', f)
    BY <1>2, <1>13 DEF HoldOK, Lists, ListFns
  <2>3. Of(f.own) \subseteq F /\ F \ Of(f.own) = {Base, two}
    BY <1>3, <1>6, <1>11, <1>13 DEF F
  <2> QED
    BY <1>6, <1>13, <2>1, <2>2, <2>3 DEF Resumed
<1>15. Good(src, heap', freed', t, F \ Of(f.own)) /\ t # <<>> /\ Upper(t) = f
  BY <1>2, <1>12, <1>14, Resumes
<1> HIDE DEF t
<1>16. Good(src, heap', freed', t, {Base, two})
  BY <1>14, <1>15
<1>17. Base # two /\ <<Base, two>> \in Seq(Nat) /\ Len(<<Base, two>>) = 2 /\ Injective(<<Base, two>>)
  BY <1>3, <1>11, TwoOwned
<1>18. g.fn = "splat" /\ g.at = "rel" /\ g.own = <<Base, two>> /\ g \in Frames
  <2>1. "splat" \in Fns /\ "rel" \in Ats /\ 0 \in 0 .. 7 /\ 0 \in Nat
    BY Known
  <2> QED
    BY <1>17, <2>1, FrameIs DEF Frame
<1>19. GoOn(Append(t, g), i)
  BY <1>1
<1> HIDE DEF g
<1>20. FrameOK(src, g) /\ HoldOK(src, heap', g) /\ Running(g)
  BY <1>17, <1>18 DEF FrameOK, HoldOK, Running, Lists, ListFns
<1>21. CallOK(src, t, g)
  BY <1>2, <1>13, <1>15, <1>18 DEF CallOK, CallsOn, Waiting
<1>22. Owned(g) = {Base, two}
  <2>1. Of(<<Base, two>>) = {Base, two}
    BY <1>3, <1>11, TwoOwned
  <2>2. Owned(g) = Of(g.own)
    BY DEF Owned, Of
  <2> QED
    BY <1>18, <2>1, <2>2
<1> DEFINE B == {Base, two}
<1>23. B \ Owned(g) = {} /\ Owned(g) \subseteq B /\ Good(src, heap', freed', t, B) /\ Injective(g.own)
  BY <1>16, <1>17, <1>18, <1>22
<1> HIDE DEF B
<1>24. Good(src, heap', freed', Append(t, g), B \ Owned(g))
  BY <1>18, <1>20, <1>21, <1>23, GoodPush
<1>25. Append(t, g) # <<>> /\ Upper(Append(t, g)) = g
  BY <1>16, <1>18, <1>20, <1>21, StackOver DEF Good
<1>26. Good(src, heap', freed', Append(t, g), {}) /\ faults' \in 0 .. MaxFaults
  BY <1>1, <1>23, <1>24, FaultCount
<1>27. Running(Upper(Append(t, g))) /\ Upper(Append(t, g)).fn # "postfix"
  BY <1>18, <1>20, <1>25
<1> QED
  BY <1>4, <1>19, <1>25, <1>26, <1>27, ToRun

LEMMA SplatReturns ==
    ASSUME IInv, SplatDone
    PROVE  IInv'
<1> DEFINE one == Len(heap) + 1
           two == Len(heap) + 2
           c == Top.own[1]
           ks == <<one, c, Base>>
           node == Node("splat", NoOp, ks, heap[c].first, pos - 1)
           E == Owned(Top)
<1>1. /\ Traversing /\ Top.fn = "splat"
      /\ heap' = heap \o <<Text, node>> /\ freed' = freed /\ UNCHANGED faults
      /\ Return(two, pos)
  BY DEF SplatDone, In, Allocates, Fresh
<1>2. /\ calls # <<>> /\ Top.fn \in {"postfix", "splat"} /\ Top.at \in {"rel", "index"}
      /\ Good(src, heap, freed, Under(calls), E)
  BY <1>1, Walks
<1>3. /\ Base \in Nat /\ c \in Nat /\ c # Base /\ E = {c, Base} /\ E \subseteq Ids(heap)
      /\ Len(heap) \in Nat /\ HeapOK(heap)
  BY <1>1, <1>2, Walker
<1>4. pos \in Nat /\ pos \in 1 .. Len(src) + 1 /\ pos - 1 \in Nat
  BY StepNext
<1> HIDE DEF c
<1>5. one \in Nat /\ one \notin E /\ c \in Ids(heap)
  BY <1>3 DEF Ids
<1> HIDE DEF E, one
<1>6. ks \in Seq(Nat) /\ Of(ks) = E \cup {one} /\ Injective(ks)
  BY <1>3, <1>5 DEF Of, Injective
<1> HIDE DEF ks
<1>7. node \in Nodes /\ node.kind = "splat" /\ node.kids = ks /\ node.last = pos - 1
  <2>1. NoOp \in Kinds \cup {NoOp} /\ "splat" \in NodeKinds /\ heap[c].first \in Nat
    BY <1>3, <1>5, HeapFacts DEF NodeKinds
  <2> QED
    BY <1>4, <1>6, <2>1, NodeIs DEF Node
<1> HIDE DEF node
<1>8. /\ Good(src, heap, freed, Under(calls), E) /\ Atom(Text) /\ node \in Nodes
      /\ node.kind # "binary" /\ Injective(node.kids)
      /\ Of(node.kids) \subseteq E \cup {Len(heap) + 1} /\ E \cup {Len(heap) + 1} \subseteq Of(node.kids)
  BY <1>2, <1>6, <1>7, Strings DEF one
<1>9. Good(src, heap \o <<Text, node>>, freed, Under(calls), {two})
  BY <1>8, BuildsOver
<1>10. (heap \o <<Text, node>>)[two] = node
  BY <1>8, BuildsOver
<1> HIDE DEF two
<1>11. Good(src, heap', freed', Under(calls), {two}) /\ heap'[two] = node
  BY <1>1, <1>9, <1>10
<1>12. EndsAt(src, pos, heap'[two])
  BY <1>7, <1>11 DEF EndsAt
<1>13. faults' \in 0 .. MaxFaults
  BY <1>1, FaultCount
<1>14. Under(calls) # <<>> => Fits(src, pos, heap'[two], Upper(Under(calls)))
  <2> DEFINE f == Upper(Under(calls))
  <2> SUFFICES ASSUME Under(calls) # <<>> PROVE Fits(src, pos, heap'[two], f)
    OBVIOUS
  <2>1. f.fn \in {"postfix", "splat"} /\ f.at = "inner"
    BY <1>1, <1>2, CallerFacts DEF CallsOn
  <2> HIDE DEF f
  <2>2. Binds(heap'[two]) = 7
    BY <1>8, <1>11, BindsRange
  <2> QED
    BY <2>1, <2>2 DEF Fits
<1> QED
  BY <1>1, <1>2, <1>4, <1>11, <1>12, <1>13, <1>14, ToReturn

LEMMA SplatGiven ==
    ASSUME IInv, SplatTaken
    PROVE  IInv'
<1> DEFINE own == Append(Top.own, val)
           E == {val} \cup Owned(Top)
<1>1. /\ ret = "ok" /\ calls # <<>> /\ Top.at = "inner" /\ Top.fn \in {"postfix", "splat"}
      /\ GoOn(Append(Below, Here("rel", own)), pos) /\ Same
  BY DEF SplatTaken
<1>2. /\ Top \in Frames /\ FrameOK(src, Top) /\ val \in Nat /\ val \notin Owned(Top)
      /\ Injective(Top.own) /\ Good(src, heap, freed, Under(calls), E)
      /\ EndsAt(src, pos, heap[val]) /\ Fits(src, pos, heap[val], Top)
  BY <1>1, Returns
<1>3. Top.own \in Seq(Nat) /\ Of(Top.own) = Owned(Top)
  BY <1>2, Owns
<1>4. own \in Seq(Nat) /\ Of(own) = E /\ Injective(own)
  BY <1>2, <1>3, OneMore
<1>5. /\ Top.fn = "postfix" => Len(own) = 1 /\ own[1] = val
      /\ Top.fn = "splat" => Len(own) = 2
  <2>1. /\ Top.fn = "postfix" => Len(Top.own) = 0
        /\ Top.fn = "splat" => Len(Top.own) = 1
    BY <1>1, <1>2 DEF FrameOK
  <2>2. Len(own) = Len(Top.own) + 1 /\ own[Len(Top.own) + 1] = val /\ Len(Top.own) \in Nat
    BY <1>2, <1>3
  <2> DEFINE k == Len(Top.own)
  <2>3. Len(own) = k + 1 /\ own[k + 1] = val /\ k \in Nat
    BY <2>2
  <2> HIDE DEF own, k
  <2>4. k = 0 => Len(own) = 1 /\ own[1] = val
    BY <2>3
  <2>5. k = 1 => Len(own) = 2
    BY <2>3
  <2> QED
    BY <2>1, <2>4, <2>5 DEF k
<1>6. heap' = heap /\ freed' = freed /\ faults' \in 0 .. MaxFaults /\ pos \in 1 .. Len(src) + 1
  BY <1>1, FaultCount, StepNext DEF Same
<1>7. Top.fn = "postfix" => Binds(heap[val]) = 7
  BY <1>1, <1>2 DEF Fits
<1> HIDE DEF own, E
<1>8. Good(src, heap', freed', Under(calls), Of(own))
  BY <1>2, <1>4, <1>6
<1>9. Top.fn = "postfix" => Len(own) = 1 /\ Binds(heap'[own[1]]) = 7 /\ EndsAt(src, pos, heap'[own[1]])
  BY <1>2, <1>5, <1>6, <1>7
<1>10. GoOn(Append(Below, Here("rel", own)), pos)
  BY <1>1 DEF own
<1> QED
  BY <1>1, <1>4, <1>5, <1>6, <1>8, <1>9, <1>10, ToRel

LEMMA PostfixReturns ==
    ASSUME IInv, PostfixDone
    PROVE  IInv'
<1>1. Traversing /\ Top.fn = "postfix" /\ Return(Base, pos) /\ Same
  BY DEF PostfixDone, In
<1>2. /\ calls # <<>> /\ Top.fn \in {"postfix", "splat"} /\ Top.at \in {"rel", "index"}
      /\ Good(src, heap, freed, Under(calls), Owned(Top)) /\ EndsAt(src, pos, heap[Base])
  BY <1>1, Walks
<1>3. Owned(Top) = {Base} /\ Binds(heap[Base]) = 7
  BY <1>1, <1>2, Walker
<1>4. heap' = heap /\ freed' = freed /\ faults' \in 0 .. MaxFaults /\ pos \in 1 .. Len(src) + 1
  BY <1>1, FaultCount, StepNext DEF Same
<1>5. Good(src, heap', freed', Under(calls), {Base}) /\ EndsAt(src, pos, heap'[Base])
  BY <1>2, <1>3, <1>4
<1>6. Fits(src, pos, heap'[Base], Upper(Under(calls)))
  <2>1. WantsUnary(Upper(Under(calls))) /\ Upper(Under(calls)) \in Frames
    BY <1>1, <1>2, CallerWants
  <2> QED
    BY <1>3, <1>4, <2>1, AtomFits
<1> QED
  BY <1>1, <1>2, <1>4, <1>5, <1>6, ToReturn

LEMMA TraversalKeeps ==
    ASSUME IInv, TraversalStep
    PROVE  IInv'
<1>1. CASE IndexFails
  <2>1. ret = "ok" /\ calls # <<>> /\ Fails(Owned(Top) \cup {val}) /\ (Fault \/ UNCHANGED faults)
    BY <1>1 DEF IndexFails
  <2> QED
    BY <2>1, FailsReturned
<1>2. CASE TraversalFails
  <2>1. ret = "run" /\ calls # <<>> /\ Fails(Owned(Top)) /\ (Fault \/ UNCHANGED faults)
    BY <1>2 DEF TraversalFails, Traversing
  <2> QED
    BY <2>1, FailsRunning
<1> QED
  BY <1>1, <1>2, AttributeRead, IndexOpens, IndexApplied, SplatOpens, SplatReturns, SplatGiven,
     PostfixReturns DEF TraversalStep

-----------------------------------------------------------------------------
(* The end of the parse, and the invariant. *)

LEMMA EndKeeps ==
    ASSUME IInv, Unwind \/ Accept \/ Reject
    PROVE  IInv'
<1>1. CASE Unwind
  <2>1. ret = "fail" /\ calls # <<>> /\ Fails(Owned(Top)) /\ UNCHANGED faults
    BY <1>1 DEF Unwind
  <2> QED
    BY <2>1, FailsRunning
<1>2. CASE Accept
  <2>1. /\ calls = <<>> /\ ret = "ok" /\ At(src, pos) = "eof" /\ ret' = "accepted"
        /\ UNCHANGED <<src, pos, calls, val, heap, freed, faults>>
    BY <1>2 DEF Accept, T, Tok
  <2> QED
    BY <2>1 DEF IInv, Turn
<1>3. CASE Reject
  <2>1. /\ calls = <<>> /\ ret' = "rejected" /\ val' = 0 /\ UNCHANGED <<src, pos, calls, heap, faults>>
        /\ ret \in {"ok", "fail"}
    BY <1>3 DEF Reject
  <2>2. Good(src, heap, freed', calls, {})
    <3>1. CASE ret = "ok" /\ freed' = freed \cup Reach({val})
      <4> DEFINE E == {val}
      <4>1. Good(src, heap, freed, calls, E)
        BY <3>1, ReturnedFacts DEF IInv
      <4>2. freed' = freed \cup Visited(heap, E)[Len(heap)] /\ E \ E = {} /\ E \subseteq E
        BY <3>1 DEF Reach
      <4> HIDE DEF E
      <4> QED
        BY <4>1, <4>2, GoodFree
    <3>2. CASE ret = "fail" /\ UNCHANGED freed
      BY <3>2, QuietFacts DEF IInv
    <3> QED
      BY <1>3, <3>1, <3>2 DEF Reject
  <2>3. {val'} \ {0} = {}
    BY <2>1
  <2>4. Good(src', heap', freed', calls', {val'} \ {0})
    BY <2>1, <2>2, <2>3
  <2>5. Turn(src', pos', ret', val', calls', heap')
    BY <2>1 DEF Turn
  <2> QED
    BY <2>1, <2>4, <2>5 DEF IInv
<1> QED
  BY <1>1, <1>2, <1>3

LEMMA Starts ==
    ASSUME Init
    PROVE  IInv
<1>1. Good(src, <<>>, {}, <<>>, {})
  <2>1. StackOK(src, <<>>)
    BY DEF StackOK
  <2>2. HeapOK(<<>>)
    BY DEF HeapOK, Ids
  <2>3. OneOwner(<<>>, {}, <<>>, {})
    BY DEF OneOwner, Forest, Apart, Held, Ids, Closed
  <2> QED
    BY <2>1, <2>2, <2>3 DEF Good
<1>2. /\ Good(src, <<>>, {}, <<>> \o ExprFrames, {})
      /\ <<>> \o ExprFrames # <<>> /\ WantsUnary(Upper(<<>> \o ExprFrames))
  <2>1. <<>> # <<>> => Waiting(Upper(<<>>)) /\ Hosts(Upper(<<>>))
    OBVIOUS
  <2> QED
    BY <1>1, <2>1, ExprBegins
<1>3. <<>> \o ExprFrames = ExprFrames
  BY DEF ExprFrames
<1>4. src \in Sources /\ Len(src) \in Nat /\ pos \in 1 .. Len(src) + 1 /\ faults \in 0 .. MaxFaults
  BY SourceFacts, FaultsAreCounted DEF Init
<1>5. {val} \ {0} = {}
  BY DEF Init
<1>6. Good(src, heap, freed, calls, {val} \ {0})
  BY <1>2, <1>3, <1>5 DEF Init
<1>7. Turn(src, pos, ret, val, calls, heap)
  BY <1>2, <1>3 DEF Init, Turn
<1> QED
  BY <1>4, <1>6, <1>7 DEF IInv

LEMMA Keeps ==
    ASSUME IInv, [Next]_vars
    PROVE  IInv'
<1>1. CASE Done \/ UNCHANGED vars
  BY <1>1 DEF Done, vars, IInv
<1> QED
  BY <1>1, ExprKeeps, BinaryKeeps, UnaryKeeps, PrimaryKeeps, ListKeeps, ForKeeps, TraversalKeeps,
     EndKeeps DEF Next

LEMMA Invariant == Spec => []IInv
BY Starts, Keeps, PTL DEF Spec

-----------------------------------------------------------------------------
(* What it implies. *)

LEMMA Typed ==
    ASSUME IInv
    PROVE  TypeOK
<1>1. /\ src \in Sources /\ pos \in 1 .. Len(src) + 1 /\ faults \in 0 .. MaxFaults
      /\ Good(src, heap, freed, calls, {val} \ {0})
      /\ Turn(src, pos, ret, val, calls, heap)
  BY DEF IInv
<1>2. /\ {val} \ {0} \subseteq Ids(heap) \ freed /\ freed \subseteq Ids(heap)
      /\ heap \in Seq(Nodes) /\ HeapOK(heap)
      /\ \A k \in DOMAIN calls : Owned(calls[k]) \subseteq Ids(heap) \ freed
  BY <1>1, GoodHand
<1>3. Cells = Ids(heap)
  BY DEF Cells, Ids
<1>4. \A n \in Cells : Kids(heap, n) \subseteq Cells
  <2>1. \A n : Kids(heap, n) = Of(heap[n].kids)
    BY DEF Kids, Of
  <2> QED
    BY <1>2, <1>3, <2>1 DEF HeapOK, NodeOK
<1>5. calls # <<>> => Top = Upper(calls)
  BY DEF Top, Depth, Upper
<1>6. /\ ret \in {"unary", "run", "ok", "fail", "accepted", "rejected"}
      /\ ret = "unary" => calls # <<>> /\ WantsUnary(Top)
      /\ ret = "run" => calls # <<>> /\ Running(Top)
      /\ ret \in {"ok", "fail"} /\ calls # <<>> => Waiting(Top)
      /\ Over => calls = <<>>
  BY <1>1, <1>5 DEF Turn, Over
<1>7. IF ret \in {"ok", "accepted"} THEN val \in Cells \ freed ELSE val = 0
  <2>1. IF ret \in {"ok", "accepted"} THEN val \in Ids(heap) ELSE val = 0
    BY <1>1 DEF Turn
  <2>2. \A n \in Ids(heap) : n # 0
    BY DEF Ids
  <2> QED
    BY <1>2, <1>3, <2>1, <2>2
<1>8. StackOK(src, calls)
  BY <1>1 DEF Good
<1> QED
  BY <1>1, <1>2, <1>3, <1>4, <1>6, <1>7, <1>8 DEF TypeOK

\* The parser's functions stand in one another's calls as the code has it, each
\* holding the cells its variables hold there, and the position never leaves the
\* source: parse_expr and the functions it reaches by recursion keep their
\* contracts with their callers for every source and every allocation failure.
THEOREM TypeCorrect == Spec => []TypeOK
<1>1. IInv => TypeOK
  BY Typed
<1> QED
  BY <1>1, Invariant, PTL

\* No error exit of the parser leaks a node or a string or frees it twice,
\* whichever allocations fail: each has exactly one owner until it is freed and
\* none after, and in the end only the tree returned is left.
THEOREM CellsOwnedOnce == Spec => []OwnedOnce
<1>1. IInv => OwnedOnce
  <2> SUFFICES ASSUME IInv PROVE OwnedOnce
    OBVIOUS
  <2>1. OneOwner(heap, freed, calls, {val} \ {0}) /\ Len(heap) \in Nat
    BY HeapFacts DEF IInv, Good
  <2>2. Over => calls = <<>>
    BY DEF IInv, Turn, Over
  <2> QED
    BY <2>1, <2>2, CountedOnce
<1> QED
  BY <1>1, Invariant, PTL

\* parse_binary groups by the binding powers: below every binary node the left
\* operand binds at least as tight and the right one tighter, in every tree the
\* parser holds, finished or not.
THEOREM GroupsByPower == Spec => []Grouped
<1>1. IInv => Grouped
  <2> SUFFICES ASSUME IInv PROVE Grouped
    OBVIOUS
  <2>1. HeapOK(heap) /\ Cells = Ids(heap)
    BY DEF IInv, Good, Cells, Ids
  <2> QED
    BY <2>1 DEF HeapOK, NodeOK, Grouped
<1> QED
  BY <1>1, Invariant, PTL

\* The span hcl2_expr_span answers for an accepted expression ends at its last
\* token unless that one is a closing parenthesis.
THEOREM SpansEndRight == Spec => []SpanEndsRight
<1>1. IInv => SpanEndsRight
  <2> SUFFICES ASSUME IInv, ret = "accepted", src[Len(src)] # ")" PROVE heap[val].last = Len(src)
    BY DEF SpanEndsRight
  <2>1. src \in Sources /\ At(src, pos) = "eof" /\ EndsAt(src, pos, heap[val]) /\ pos \in 1 .. Len(src) + 1
    BY DEF IInv, Turn
  <2>2. Len(src) \in Nat /\ DOMAIN src = 1 .. Len(src) /\ pos \notin DOMAIN src
    BY <2>1, SourceFacts DEF Tok
  <2>3. pos - 1 = Len(src)
    BY <2>1, <2>2
  <2>4. At(src, Len(src)) # ")"
    BY <2>2 DEF At
  <2> QED
    BY <2>1, <2>3, <2>4 DEF EndsAt
<1> QED
  BY <1>1, Invariant, PTL
==============================================================================
