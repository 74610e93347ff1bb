------------------------- MODULE ImportGraph_proofs -------------------------
(***************************************************************************)
(* What Reach and TopologicalOrders are, for any finite graph.             *)
(***************************************************************************)
EXTENDS ImportGraph, FiniteSetTheorems, SequenceTheorems, WellFoundedInduction, TLAPS

-----------------------------------------------------------------------------
(***************************************************************************)
(* Reach is the least closed set.                                          *)
(***************************************************************************)
LEMMA LeastNumber ==
  ASSUME NEW T, T \subseteq Nat, T # {}
  PROVE  \E m \in T : \A i \in T : m <= i
<1> DEFINE R == OpToRel(<, Nat)
<1>1. IsWellFoundedOn(R, Nat)
  BY NatLessThanWellFounded
<1> HIDE DEF R
<1>2. PICK m \in T : \A i \in T : ~(<<i, m>> \in R)
  BY <1>1, WFMin
<1>3. \A i \in T : ~(i < m)
  BY <1>2 DEF R, OpToRel
<1> QED
  BY <1>3

\* Induction over a set of numbers.
LEMMA SetInduction ==
  ASSUME NEW T, 0 \in T, \A i \in Nat : i \in T => i + 1 \in T
  PROVE  \A i \in Nat : i \in T
<1> SUFFICES ASSUME Nat \ T # {} PROVE FALSE
  OBVIOUS
<1>1. PICK m \in Nat \ T : \A i \in Nat \ T : m <= i
  BY LeastNumber
<1>2. m # 0 /\ m - 1 \in Nat /\ ~(m <= m - 1)
  BY <1>1
<1>3. m - 1 \in T
  BY <1>1, <1>2
<1> QED
  BY <1>1, <1>2, <1>3

ClosedUnder(C, next) == \A x \in C : next[x] \subseteq C

\* The walk begins with S, and goes one step further in the graph next.
Unwalked(S) == [seen |-> {}, new |-> S]

Further(w, next) ==
  [seen |-> w.seen \cup w.new,
   new |-> (UNION {next[x] : x \in w.new}) \ (w.seen \cup w.new)]

\* Where it is after i steps.
Within(S, next) ==
  CHOOSE w : w = [i \in Nat |-> IF i = 0 THEN Unwalked(S) ELSE Further(w[i - 1], next)]

LEMMA ReachIsWithin ==
  ASSUME NEW S, NEW next
  PROVE  LET end == Within(S, next)[Cardinality(DOMAIN next)]
         IN  Reach(S, next) = end.seen \cup end.new
  BY DEF Reach, Within, Unwalked, Further

\* The first k + 1 steps, as a function.
Begins(h, k, S, next) ==
  /\ DOMAIN h = 0..k
  /\ h[0] = Unwalked(S)
  /\ \A i \in 0..k : i # 0 => h[i] = Further(h[i - 1], next)

LEMMA BeginningExists ==
  ASSUME NEW S, NEW next
  PROVE  \A k \in Nat : \E h : Begins(h, k, S, next)
<1> DEFINE T == {k \in Nat : \E h : Begins(h, k, S, next)}
<1>1. 0 \in T
  <2>1. Begins([i \in 0..0 |-> Unwalked(S)], 0, S, next)
    BY DEF Begins
  <2> QED
    BY <2>1
<1>2. ASSUME NEW k \in Nat, k \in T PROVE k + 1 \in T
  <2>1. PICK h : Begins(h, k, S, next)
    BY <1>2
  <2> DEFINE g == [i \in 0..k + 1 |-> IF i = k + 1 THEN Further(h[k], next) ELSE h[i]]
  <2>2. DOMAIN g = 0..k + 1 /\ g[0] = Unwalked(S)
    BY <2>1 DEF Begins
  <2>3. ASSUME NEW i \in 0..k + 1, i # 0 PROVE g[i] = Further(g[i - 1], next)
    <3>1. CASE i = k + 1
      BY <3>1
    <3>2. CASE i # k + 1
      BY <2>1, <2>3, <3>2 DEF Begins
    <3> QED
      BY <3>1, <3>2
  <2>4. Begins(g, k + 1, S, next)
    BY <2>2, <2>3 DEF Begins
  <2> QED
    BY <2>4
<1> HIDE DEF T
<1>3. \A k \in Nat : k \in T
  BY <1>1, <1>2, SetInduction
<1> QED
  BY <1>3 DEF T

LEMMA BeginningUnique ==
  ASSUME NEW S, NEW next, NEW k \in Nat, NEW h, Begins(h, k, S, next),
         NEW l \in Nat, NEW g, Begins(g, l, S, next)
  PROVE  \A i \in Nat : i <= k /\ i <= l => h[i] = g[i]
<1> DEFINE T == {i \in Nat : i <= k /\ i <= l => h[i] = g[i]}
<1>1. 0 \in T
  BY DEF Begins
<1>2. ASSUME NEW i \in Nat, i \in T PROVE i + 1 \in T
  <2> SUFFICES ASSUME i + 1 <= k, i + 1 <= l PROVE h[i + 1] = g[i + 1]
    OBVIOUS
  <2>1. h[i] = g[i]
    BY <1>2
  <2>2. i + 1 \in 0..k /\ i + 1 \in 0..l /\ i + 1 # 0 /\ (i + 1) - 1 = i
    OBVIOUS
  <2> QED
    BY <2>1, <2>2 DEF Begins
<1> HIDE DEF T
<1>3. \A i \in Nat : i \in T
  BY <1>1, <1>2, SetInduction
<1> QED
  BY <1>3 DEF T

LEMMA WithinDef ==
  ASSUME NEW S, NEW next
  PROVE  /\ Within(S, next)[0] = Unwalked(S)
         /\ \A i \in Nat : Within(S, next)[i + 1] = Further(Within(S, next)[i], next)
<1> DEFINE h(k) == CHOOSE h : Begins(h, k, S, next)
           w == [i \in Nat |-> h(i)[i]]
<1>1. \A k \in Nat : Begins(h(k), k, S, next)
  BY BeginningExists
<1> HIDE DEF h
<1>2. w[0] = Unwalked(S)
  BY <1>1 DEF Begins
<1>3. ASSUME NEW i \in Nat, i # 0 PROVE w[i] = Further(w[i - 1], next)
  <2>1. h(i)[i] = Further(h(i)[i - 1], next)
    BY <1>1, <1>3 DEF Begins
  <2>2. i - 1 \in Nat /\ i - 1 <= i
    BY <1>3
  <2>3. h(i)[i - 1] = h(i - 1)[i - 1]
    BY <1>1, <2>2, BeginningUnique
  <2> QED
    BY <2>1, <2>2, <2>3
<1>4. w = [i \in Nat |-> IF i = 0 THEN Unwalked(S) ELSE Further(w[i - 1], next)]
  <2>1. \A i \in Nat : w[i] = IF i = 0 THEN Unwalked(S) ELSE Further(w[i - 1], next)
    BY <1>2, <1>3
  <2>2. w = [i \in Nat |-> w[i]]
    OBVIOUS
  <2> HIDE DEF w
  <2> QED
    BY <2>1, <2>2
<1>5. \E v : v = [i \in Nat |-> IF i = 0 THEN Unwalked(S) ELSE Further(v[i - 1], next)]
  BY <1>4
<1> DEFINE W == Within(S, next)
<1>6. W = [i \in Nat |-> IF i = 0 THEN Unwalked(S) ELSE Further(W[i - 1], next)]
  BY <1>5 DEF Within
<1> HIDE DEF W
<1>7. W[0] = Unwalked(S)
  BY <1>6
<1>8. ASSUME NEW i \in Nat PROVE W[i + 1] = Further(W[i], next)
  <2>1. i + 1 \in Nat /\ i + 1 # 0 /\ (i + 1) - 1 = i
    OBVIOUS
  <2> QED
    BY <1>6, <2>1
<1> QED
  BY <1>7, <1>8 DEF W

\* Any closed set that holds S holds what is reached from it, and within as
\* many steps as there are nodes everything is.
THEOREM ReachFacts ==
  ASSUME NEW next, IsFiniteSet(DOMAIN next), NEW N, N \subseteq DOMAIN next,
         ClosedUnder(N, next), NEW S, S \subseteq N
  PROVE  /\ S \subseteq Reach(S, next)
         /\ Reach(S, next) \subseteq N
         /\ ClosedUnder(Reach(S, next), next)
         /\ \A C : S \subseteq C /\ ClosedUnder(C, next) => Reach(S, next) \subseteq C
<1> DEFINE W == Within(S, next)
           d == Cardinality(DOMAIN next)
           So(i) == W[i].seen \cup W[i].new
<1>1. W[0] = Unwalked(S) /\ \A i \in Nat : W[i + 1] = Further(W[i], next)
  BY WithinDef
<1>2. Reach(S, next) = So(d) /\ d \in Nat
  BY ReachIsWithin, FS_CardinalityType
<1> HIDE DEF W
<1>3. /\ W[0].seen = {} /\ W[0].new = S
      /\ \A i \in Nat : /\ W[i + 1].seen = So(i)
                         /\ W[i + 1].new = (UNION {next[x] : x \in W[i].new}) \ So(i)
  <2>1. W[0].seen = {} /\ W[0].new = S
    BY <1>1 DEF Unwalked
  <2>2. ASSUME NEW i \in Nat
        PROVE  /\ W[i + 1].seen = So(i)
               /\ W[i + 1].new = (UNION {next[x] : x \in W[i].new}) \ So(i)
    <3>1. W[i + 1] = Further(W[i], next)
      BY <1>1
    <3>2. \A w : /\ Further(w, next).seen = w.seen \cup w.new
                  /\ Further(w, next).new = (UNION {next[x] : x \in w.new}) \ (w.seen \cup w.new)
      BY DEF Further
    <3> QED
      BY <3>1, <3>2
  <2> QED
    BY <2>1, <2>2
<1>4. ASSUME NEW C, S \subseteq C, ClosedUnder(C, next)
      PROVE  \A i \in Nat : So(i) \subseteq C
  <2> DEFINE T == {i \in Nat : So(i) \subseteq C}
  <2>1. 0 \in T
    BY <1>3, <1>4
  <2>2. ASSUME NEW i \in Nat, i \in T PROVE i + 1 \in T
    BY <1>3, <1>4, <2>2 DEF ClosedUnder
  <2> HIDE DEF T
  <2>3. \A i \in Nat : i \in T
    BY <2>1, <2>2, SetInduction
  <2> QED
    BY <2>3 DEF T
<1>5. \A i \in Nat : S \subseteq So(i) /\ \A x \in W[i].seen : next[x] \subseteq So(i)
  <2> DEFINE T == {i \in Nat : S \subseteq So(i) /\ \A x \in W[i].seen : next[x] \subseteq So(i)}
  <2>1. 0 \in T
    BY <1>3
  <2>2. ASSUME NEW i \in Nat, i \in T PROVE i + 1 \in T
    BY <1>3, <2>2
  <2> HIDE DEF T
  <2>3. \A i \in Nat : i \in T
    BY <2>1, <2>2, SetInduction
  <2> QED
    BY <2>3 DEF T
<1>6. \A i \in Nat : W[i].new = {} \/ (i <= Cardinality(W[i].seen) /\ W[i].new \cap W[i].seen = {})
  <2> DEFINE T == {i \in Nat : W[i].new = {} \/ (/\ i <= Cardinality(W[i].seen)
                                              /\ W[i].new \cap W[i].seen = {})}
  <2>1. \A i \in Nat : So(i) \subseteq DOMAIN next
    BY <1>4
  <2>2. \A i \in Nat : IsFiniteSet(W[i].seen) /\ Cardinality(W[i].seen) \in Nat
    BY <2>1, FS_Subset, FS_CardinalityType
  <2>3. 0 \in T
    BY <1>3, <2>2
  <2>4. ASSUME NEW i \in Nat, i \in T PROVE i + 1 \in T
    <3>1. W[i + 1].new \cap W[i + 1].seen = {} /\ W[i].seen \subseteq W[i + 1].seen
      BY <1>3
    <3>2. CASE W[i].new = {}
      BY <1>3, <3>2
    <3>3. CASE W[i].new # {}
      <4>1. W[i + 1].seen # W[i].seen
        BY <1>3, <2>4, <3>3
      <4>2. i + 1 \in Nat
        OBVIOUS
      <4>3. /\ Cardinality(W[i].seen) <= Cardinality(W[i + 1].seen)
            /\ Cardinality(W[i].seen) # Cardinality(W[i + 1].seen)
        BY <2>2, <3>1, <4>1, <4>2, FS_Subset
      <4>4. i <= Cardinality(W[i].seen)
        BY <2>4, <3>3
      <4>5. i + 1 <= Cardinality(W[i + 1].seen)
        BY <2>2, <4>2, <4>3, <4>4
      <4> QED
        BY <3>1, <4>5
    <3> QED
      BY <3>2, <3>3
  <2> HIDE DEF T
  <2>5. \A i \in Nat : i \in T
    BY <2>3, <2>4, SetInduction
  <2> QED
    BY <2>5 DEF T
<1>7. So(d) \subseteq N
  BY <1>2, <1>4
<1>8. W[d].new = {}
  <2> SUFFICES ASSUME W[d].new # {} PROVE FALSE
    OBVIOUS
  <2>1. W[d].seen \subseteq DOMAIN next /\ d <= Cardinality(W[d].seen)
    BY <1>2, <1>6, <1>7
  <2>2. W[d].seen = DOMAIN next
    BY <1>2, <2>1, FS_Subset, FS_CardinalityType
  <2>3. W[d].new \subseteq W[d].seen
    BY <1>7, <2>2
  <2> QED
    BY <1>2, <1>6, <2>3
<1> HIDE DEF d
<1>9. ClosedUnder(So(d), next)
  BY <1>2, <1>5, <1>8 DEF ClosedUnder
<1> QED
  BY <1>2, <1>4, <1>5, <1>7, <1>9

-----------------------------------------------------------------------------
(***************************************************************************)
(* An order has every package of S once, after those of S it imports.      *)
(***************************************************************************)
THEOREM OrderFacts ==
  ASSUME NEW S, IsFiniteSet(S), NEW imports, NEW o \in TopologicalOrders(S, imports)
  PROVE  /\ o \in Seq(S) /\ Len(o) \in Nat
         /\ \A i, j \in 1..Len(o) : i # j => o[i] # o[j]
         /\ \A i \in 1..Len(o) : o[i] \in S
         /\ \A p \in S : \E i \in 1..Len(o) : o[i] = p
         /\ \A i \in 1..Len(o) : \A q \in imports[o[i]] \cap S :
              \E j \in 1..Len(o) : j < i /\ o[j] = q
<1> DEFINE d == Cardinality(S)
<1>1. d \in Nat
  BY FS_CardinalityType
<1>2. /\ o \in [1..d -> S]
      /\ \A i, j \in 1..d : i # j => o[i] # o[j]
      /\ \A i, j \in 1..d : o[j] \in imports[o[i]] => j < i
  BY DEF TopologicalOrders, SetToSeqs
<1>3. o \in Seq(S) /\ Len(o) = d
  BY <1>1, <1>2
<1>4. \A p \in S : \E i \in 1..d : o[i] = p
  <2>1. o \in Injection(1..d, S)
    BY <1>2 DEF Injection, IsInjective
  <2>2. IsFiniteSet(1..d) /\ Cardinality(1..d) = d
    BY <1>1, FS_Interval
  <2>3. o \in Surjection(1..d, S)
    BY <1>1, <2>1, <2>2, FS_Injection
  <2> QED
    BY <2>3 DEF Surjection
<1>5. ASSUME NEW i \in 1..d, NEW q \in imports[o[i]] \cap S
      PROVE  \E j \in 1..d : j < i /\ o[j] = q
  <2>1. PICK j \in 1..d : o[j] = q
    BY <1>4
  <2> QED
    BY <1>2, <2>1
<1> HIDE DEF d
<1> QED
  BY <1>2, <1>3, <1>4, <1>5
=============================================================================
