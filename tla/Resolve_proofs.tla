--------------------------- MODULE Resolve_proofs ---------------------------
(***************************************************************************)
(* Proofs about Resolve, for any projects whose imports can be resolved,   *)
(* any lockfiles, and any number of runs and faults; and about TopoSort,   *)
(* which makes the order that Resolve goes by.                             *)
(***************************************************************************)
EXTENDS Resolve, TopoSort, ImportGraph_proofs

-----------------------------------------------------------------------------
(***************************************************************************)
(* The package graph of a project.                                         *)
(***************************************************************************)
LEMMA GraphOf ==
  ASSUME NEW pr \in Projects
  PROVE  /\ ProjectType(pr) /\ IsFiniteSet(DOMAIN Imports(pr))
         /\ DOMAIN Imports(pr) \subseteq Package
         /\ DOMAIN Imports(pr) \cap Local = DOMAIN pr.imports
<1>1. ProjectType(pr)
  BY ProjectsAssumption
<1>2. DOMAIN Imports(pr) = DOMAIN pr.imports \cup {q \in Foreign : Owner[q] \in DOMAIN pr.gomod.require}
  BY DEF Imports
<1>3. DOMAIN Imports(pr) \subseteq Package
  BY <1>1, <1>2 DEF ProjectType, Package
<1>4. DOMAIN Imports(pr) \cap Local = DOMAIN pr.imports
  BY <1>1, <1>2, PackageAssumption DEF ProjectType
<1> QED
  BY <1>1, <1>3, <1>4, PackageAssumption, FS_Subset

\* What go list reports is closed, and all of it can be compiled.
LEMMA ListedFacts ==
  ASSUME NEW pr \in Projects
  PROVE  /\ DOMAIN pr.imports \subseteq Listed(pr)
         /\ Listed(pr) \subseteq DOMAIN Imports(pr)
         /\ ClosedUnder(Listed(pr), Imports(pr))
         /\ \A p \in Listed(pr) \cap Foreign : Owner[p] \in Fetched(pr.gomod)
         /\ IsFiniteSet(Listed(pr))
<1>1. PICK found \in SUBSET DOMAIN Imports(pr) :
        /\ DOMAIN pr.imports \subseteq found
        /\ \A p \in found : Imports(pr)[p] \subseteq found
        /\ \A p \in found \cap Foreign : Owner[p] \in Fetched(pr.gomod)
  BY ImportsAssumption DEF Importable
<1>2. ClosedUnder(found, Imports(pr))
  BY <1>1 DEF ClosedUnder
<1>3. IsFiniteSet(DOMAIN Imports(pr))
  BY GraphOf
<1>4. /\ DOMAIN pr.imports \subseteq Listed(pr) /\ Listed(pr) \subseteq found
      /\ ClosedUnder(Listed(pr), Imports(pr))
  BY <1>1, <1>2, <1>3, ReachFacts DEF Listed
<1> QED
  BY <1>1, <1>3, <1>4, FS_Subset

LEMMA ClosureFacts ==
  ASSUME NEW pr \in Projects, NEW p \in Listed(pr)
  PROVE  /\ p \in TransitiveClosure(pr, p)
         /\ TransitiveClosure(pr, p) \subseteq Listed(pr)
         /\ ClosedUnder(TransitiveClosure(pr, p), Imports(pr))
         /\ \A C : p \in C /\ ClosedUnder(C, Imports(pr)) => TransitiveClosure(pr, p) \subseteq C
<1>1. /\ Listed(pr) \subseteq DOMAIN Imports(pr) /\ ClosedUnder(Listed(pr), Imports(pr))
      /\ IsFiniteSet(DOMAIN Imports(pr)) /\ {p} \subseteq Listed(pr)
  BY ListedFacts, GraphOf
<1> DEFINE R == TransitiveClosure(pr, p)
<1>2. /\ {p} \subseteq R /\ R \subseteq Listed(pr) /\ ClosedUnder(R, Imports(pr))
      /\ \A C : {p} \subseteq C /\ ClosedUnder(C, Imports(pr)) => R \subseteq C
  BY <1>1, ReachFacts DEF TransitiveClosure
<1> HIDE DEF R
<1> QED
  BY <1>2 DEF R

\* What is below something below p is below p.
LEMMA ClosureBelow ==
  ASSUME NEW pr \in Projects, NEW p \in Listed(pr), NEW q \in TransitiveClosure(pr, p)
  PROVE  q \in Listed(pr) /\ TransitiveClosure(pr, q) \subseteq TransitiveClosure(pr, p)
  BY ClosureFacts

\* p and what is below its imports.
LEMMA ClosureUnfold ==
  ASSUME NEW pr \in Projects, NEW p \in Listed(pr)
  PROVE  TransitiveClosure(pr, p) =
           {p} \cup UNION {TransitiveClosure(pr, q) : q \in Imports(pr)[p]}
<1> DEFINE R == {p} \cup UNION {TransitiveClosure(pr, q) : q \in Imports(pr)[p]}
<1>1. \A q \in Imports(pr)[p] : q \in TransitiveClosure(pr, p) /\ q \in Listed(pr)
  BY ClosureFacts DEF ClosedUnder
<1>2. R \subseteq TransitiveClosure(pr, p)
  BY <1>1, ClosureBelow, ClosureFacts
<1>3. ClosedUnder(R, Imports(pr))
  <2>1. Imports(pr)[p] \subseteq R
    BY <1>1, ClosureFacts
  <2>2. ASSUME NEW q \in Imports(pr)[p], NEW x \in TransitiveClosure(pr, q)
        PROVE  Imports(pr)[x] \subseteq R
    BY <1>1, ClosureFacts DEF ClosedUnder
  <2> QED
    BY <2>1, <2>2 DEF ClosedUnder
<1>4. TransitiveClosure(pr, p) \subseteq R
  BY <1>3, ClosureFacts
<1> QED
  BY <1>2, <1>4

\* sorted has every package of the graph once, after those it imports.
LEMMA ListedOrder ==
  ASSUME NEW pr \in Projects, NEW o \in TopologicalOrders(Listed(pr), Imports(pr))
  PROVE  /\ o \in Seq(Listed(pr)) /\ Len(o) \in Nat
         /\ \A i, j \in 1..Len(o) : i # j => o[i] # o[j]
         /\ \A i \in 1..Len(o) : o[i] \in Listed(pr)
         /\ \A p \in Listed(pr) : \E i \in 1..Len(o) : o[i] = p
         /\ \A i \in 1..Len(o) : \A q \in Imports(pr)[o[i]] : \E j \in 1..Len(o) : j < i /\ o[j] = q
<1>1. IsFiniteSet(Listed(pr)) /\ ClosedUnder(Listed(pr), Imports(pr))
  BY ListedFacts
<1>2. o \in Seq(Listed(pr)) /\ \A i \in 1..Len(o) : o[i] \in Listed(pr)
  BY <1>1, OrderFacts
<1>3. \A i \in 1..Len(o) : \A q \in Imports(pr)[o[i]] : \E j \in 1..Len(o) : j < i /\ o[j] = q
  <2>1. \A i \in 1..Len(o) : \A q \in Imports(pr)[o[i]] : q \in Imports(pr)[o[i]] \cap Listed(pr)
    BY <1>1, <1>2 DEF ClosedUnder
  <2> QED
    BY <1>1, <2>1, OrderFacts
<1> QED
  BY <1>1, <1>2, <1>3, OrderFacts

LEMMA SortedIsOrder ==
  ASSUME NEW pr \in Projects
  PROVE  SortPackages(Listed(pr), Imports(pr)) \in TopologicalOrders(Listed(pr), Imports(pr))
  BY ImportsAssumption DEF Importable, SortPackages

-----------------------------------------------------------------------------
(***************************************************************************)
(* When two derivations are the same.                                      *)
(***************************************************************************)
\* The source that is listed, and the derivation made of it.
ListedSource(pr, p) ==
  IF p \in Local THEN LocalSource(pr, p)
  ELSE [kind |-> "tree", key |-> Key(pr.gomod, Owner[p]), hash |-> ListedTree(pr, p)]

ListedDrv(pr, p, d) ==
  [kind |-> "package", pkg |-> p, main |-> p \in pr.mains, src |-> ListedSource(pr, p),
   deps |-> {d[q] : q \in Imports(pr)[p]}]

\* d has the derivation of each package of the graph.
ListedDrvs(pr, d) ==
  /\ DOMAIN d = Listed(pr)
  /\ \A p \in Listed(pr) : d[p] = ListedDrv(pr, p, d)

\* A package of itself gives the source, whatever the project.
LEMMA OwnIsSource ==
  ASSUME NEW pr \in Projects, NEW other \in Projects,
         NEW p \in Listed(pr) \cap Listed(other)
  PROVE  (ListedSource(pr, p) = ListedSource(other, p) /\ (p \in pr.mains <=> p \in other.mains))
           <=> Own(pr, p).is = Own(other, p).is
<1>1. ProjectType(pr) /\ ProjectType(other)
  BY GraphOf
<1>2. CASE p \in Local
  BY <1>2 DEF ListedSource, LocalSource, Own
<1>3. CASE p \notin Local
  <2>1. p \notin pr.mains /\ p \notin other.mains
    BY <1>1, <1>3 DEF ProjectType
  <2>2. Own(pr, p).is = ListedTree(pr, p) /\ Own(other, p).is = ListedTree(other, p)
    BY <1>3 DEF Own
  <2>3. ListedSource(pr, p) = [kind |-> "tree", key |-> <<Owner[p], ListedTree(pr, p)[2]>>,
                               hash |-> ListedTree(pr, p)]
    BY <1>3 DEF ListedSource, Key, ListedTree
  <2>4. ListedSource(other, p) = [kind |-> "tree", key |-> <<Owner[p], ListedTree(other, p)[2]>>,
                                  hash |-> ListedTree(other, p)]
    BY <1>3 DEF ListedSource, Key, ListedTree
  <2> QED
    BY <2>1, <2>2, <2>3, <2>4
<1> QED
  BY <1>2, <1>3

\* Where two projects agree on p and all below it, they agree below.
LEMMA DependsBelow ==
  ASSUME NEW pr \in Projects, NEW other \in Projects,
         NEW p \in Listed(pr) \cap Listed(other), Depends(pr, p) = Depends(other, p),
         NEW q \in TransitiveClosure(pr, p)
  PROVE  q \in Listed(other) /\ Depends(pr, q) = Depends(other, q)
<1>1. TransitiveClosure(pr, p) = TransitiveClosure(other, p)
  BY DEF Depends
<1>2. \A x \in TransitiveClosure(pr, p) : Own(pr, x) = Own(other, x)
  BY <1>1 DEF Depends
<1>3. \A x \in TransitiveClosure(pr, p) : Imports(pr)[x] = Imports(other)[x]
  BY <1>2 DEF Own
<1>4. /\ q \in Listed(pr) /\ TransitiveClosure(pr, q) \subseteq TransitiveClosure(pr, p)
      /\ q \in Listed(other) /\ TransitiveClosure(other, q) \subseteq TransitiveClosure(pr, p)
  BY <1>1, ClosureBelow
<1>5. TransitiveClosure(pr, q) \subseteq TransitiveClosure(other, q)
  <2>1. ClosedUnder(TransitiveClosure(other, q), Imports(pr))
    BY <1>3, <1>4, ClosureFacts DEF ClosedUnder
  <2> QED
    BY <1>4, <2>1, ClosureFacts
<1>6. TransitiveClosure(other, q) \subseteq TransitiveClosure(pr, q)
  <2>1. ClosedUnder(TransitiveClosure(pr, q), Imports(other))
    BY <1>3, <1>4, ClosureFacts DEF ClosedUnder
  <2> QED
    BY <1>4, <2>1, ClosureFacts
<1> QED
  BY <1>2, <1>4, <1>5, <1>6 DEF Depends

\* Where they agree on what p is and on all below what it imports, they agree
\* on p.
LEMMA DependsAbove ==
  ASSUME NEW pr \in Projects, NEW other \in Projects,
         NEW p \in Listed(pr) \cap Listed(other), Own(pr, p) = Own(other, p),
         \A q \in Imports(pr)[p] : Depends(pr, q) = Depends(other, q)
  PROVE  Depends(pr, p) = Depends(other, p)
<1>1. Imports(pr)[p] = Imports(other)[p]
  BY DEF Own
<1>2. \A q \in Imports(pr)[p] :
        /\ TransitiveClosure(pr, q) = TransitiveClosure(other, q)
        /\ \A x \in TransitiveClosure(pr, q) : Own(pr, x) = Own(other, x)
  <2> SUFFICES ASSUME NEW q \in Imports(pr)[p]
               PROVE  /\ TransitiveClosure(pr, q) = TransitiveClosure(other, q)
                      /\ \A x \in TransitiveClosure(pr, q) : Own(pr, x) = Own(other, x)
    OBVIOUS
  <2>1. Depends(pr, q) = Depends(other, q)
    OBVIOUS
  <2>2. DOMAIN Depends(pr, q) = TransitiveClosure(pr, q)
        /\ DOMAIN Depends(other, q) = TransitiveClosure(other, q)
    BY DEF Depends
  <2>3. ASSUME NEW x \in TransitiveClosure(pr, q) PROVE Own(pr, x) = Own(other, x)
    <3>1. Depends(pr, q)[x] = Own(pr, x) /\ Depends(other, q)[x] = Own(other, x)
      BY <2>1, <2>2 DEF Depends
    <3> QED
      BY <2>1, <3>1
  <2> QED
    BY <2>1, <2>2, <2>3
<1>3. /\ TransitiveClosure(pr, p) =
           {p} \cup UNION {TransitiveClosure(pr, q) : q \in Imports(pr)[p]}
      /\ TransitiveClosure(other, p) =
           {p} \cup UNION {TransitiveClosure(other, q) : q \in Imports(other)[p]}
  BY ClosureUnfold
<1>4. TransitiveClosure(pr, p) = TransitiveClosure(other, p)
  BY <1>1, <1>2, <1>3
<1>5. \A x \in TransitiveClosure(pr, p) : Own(pr, x) = Own(other, x)
  BY <1>2, <1>3
<1> QED
  BY <1>4, <1>5 DEF Depends

\* One package further: what holds for the imports holds for p.
LEMMA SameAtOne ==
  ASSUME NEW pr \in Projects, NEW other \in Projects, NEW d, NEW e,
         ListedDrvs(pr, d), ListedDrvs(other, e), NEW p \in Listed(pr) \cap Listed(other),
         \A q \in Imports(pr)[p] \cap Listed(other) :
           d[q] = e[q] <=> Depends(pr, q) = Depends(other, q)
  PROVE  d[p] = e[p] <=> Depends(pr, p) = Depends(other, p)
<1>1. Imports(pr)[p] \subseteq Listed(pr) /\ Imports(other)[p] \subseteq Listed(other)
  BY ListedFacts DEF ClosedUnder
<1>2. d[p] = ListedDrv(pr, p, d) /\ e[p] = ListedDrv(other, p, e)
  BY DEF ListedDrvs
<1>3. /\ \A q \in Imports(pr)[p] : d[q].pkg = q
      /\ \A q \in Imports(other)[p] : e[q].pkg = q
  BY <1>1 DEF ListedDrvs, ListedDrv
<1>4. ASSUME d[p] = e[p] PROVE Depends(pr, p) = Depends(other, p)
  <2>1. /\ (p \in pr.mains) = (p \in other.mains)
        /\ ListedSource(pr, p) = ListedSource(other, p)
        /\ {d[q] : q \in Imports(pr)[p]} = {e[q] : q \in Imports(other)[p]}
    BY <1>2, <1>4 DEF ListedDrv
  <2>2. ASSUME NEW q \in Imports(pr)[p] PROVE q \in Imports(other)[p] /\ d[q] = e[q]
    <3>1. PICK r \in Imports(other)[p] : d[q] = e[r]
      BY <2>1
    <3>2. r = q
      BY <1>3, <3>1
    <3> QED
      BY <3>1, <3>2
  <2>3. ASSUME NEW q \in Imports(other)[p] PROVE q \in Imports(pr)[p]
    <3>1. PICK r \in Imports(pr)[p] : d[r] = e[q]
      BY <2>1
    <3>2. r = q
      BY <1>3, <3>1
    <3> QED
      BY <3>2
  <2>4. Own(pr, p).is = Own(other, p).is
    BY <2>1, OwnIsSource
  <2>5. Imports(pr)[p] = Imports(other)[p]
    BY <2>2, <2>3
  <2>6. Own(pr, p) = Own(other, p)
    BY <2>4, <2>5 DEF Own
  <2>7. \A q \in Imports(pr)[p] : Depends(pr, q) = Depends(other, q)
    BY <1>1, <2>2, <2>5
  <2> QED
    BY <2>6, <2>7, DependsAbove
<1>5. ASSUME Depends(pr, p) = Depends(other, p) PROVE d[p] = e[p]
  <2>1. p \in TransitiveClosure(pr, p) /\ Imports(pr)[p] \subseteq TransitiveClosure(pr, p)
    BY ClosureFacts DEF ClosedUnder
  <2>2. Own(pr, p) = Own(other, p)
    <3>1. DOMAIN Depends(pr, p) = TransitiveClosure(pr, p)
          /\ DOMAIN Depends(other, p) = TransitiveClosure(other, p)
      BY DEF Depends
    <3>2. Depends(pr, p)[p] = Own(pr, p) /\ Depends(other, p)[p] = Own(other, p)
      BY <1>5, <2>1, <3>1 DEF Depends
    <3> QED
      BY <1>5, <3>2
  <2>3. Imports(pr)[p] = Imports(other)[p]
    BY <2>2 DEF Own
  <2>4. \A q \in Imports(pr)[p] : d[q] = e[q]
    BY <1>5, <2>1, DependsBelow
  <2>5. {d[q] : q \in Imports(pr)[p]} = {e[q] : q \in Imports(other)[p]}
    BY <2>3, <2>4
  <2>6. ListedSource(pr, p) = ListedSource(other, p) /\ (p \in pr.mains <=> p \in other.mains)
    BY <2>2, OwnIsSource
  <2>7. (p \in pr.mains) = (p \in other.mains)
    BY <2>6
  <2>8. ListedDrv(pr, p, d) = ListedDrv(other, p, e)
    BY ONLY <2>5, <2>6, <2>7 DEF ListedDrv
  <2> QED
    BY <1>2, <2>8
<1> QED
  BY <1>4, <1>5

LEMMA SameDerivation ==
  ASSUME NEW pr \in Projects, NEW other \in Projects, NEW d, NEW e,
         ListedDrvs(pr, d), ListedDrvs(other, e)
  PROVE  \A p \in Listed(pr) \cap Listed(other) :
           d[p] = e[p] <=> Depends(pr, p) = Depends(other, p)
<1>1. PICK o : o \in TopologicalOrders(Listed(pr), Imports(pr))
  BY SortedIsOrder
<1>2. /\ o \in Seq(Listed(pr))
      /\ \A p \in Listed(pr) : \E i \in 1..Len(o) : o[i] = p
      /\ \A i \in 1..Len(o) : \A q \in Imports(pr)[o[i]] : \E j \in 1..Len(o) : j < i /\ o[j] = q
  BY <1>1, ListedOrder
<1> DEFINE Same(p) == d[p] = e[p] <=> Depends(pr, p) = Depends(other, p)
           Wrong == {i \in 1..Len(o) : o[i] \in Listed(other) /\ ~Same(o[i])}
<1>3. Wrong = {}
  <2> SUFFICES ASSUME Wrong # {} PROVE FALSE
    OBVIOUS
  <2>1. Wrong \subseteq Nat
    BY <1>2
  <2>2. PICK i \in Wrong : \A j \in Wrong : i <= j
    BY <2>1, LeastNumber
  <2>3. i \in 1..Len(o) /\ o[i] \in Listed(pr) \cap Listed(other) /\ ~Same(o[i])
    BY <1>2
  <2>4. ASSUME NEW q \in Imports(pr)[o[i]] \cap Listed(other) PROVE Same(q)
    <3>1. PICK j \in 1..Len(o) : j < i /\ o[j] = q
      BY <1>2, <2>3
    <3>2. j \notin Wrong
      <4>1. i \in Nat /\ j \in Nat /\ ~(i <= j)
        BY <2>1, <2>2, <2>3, <3>1
      <4> HIDE DEF Wrong
      <4> QED
        BY <2>2, <4>1
    <3> QED
      BY <3>1, <3>2
  <2> QED
    BY <2>3, <2>4, SameAtOne
<1>4. ASSUME NEW p \in Listed(pr) \cap Listed(other) PROVE Same(p)
  <2>1. PICK i \in 1..Len(o) : o[i] = p
    BY <1>2
  <2> QED
    BY <1>3, <2>1
<1> QED
  BY <1>4

LEMMA SameLink ==
  ASSUME NEW pr \in Projects, NEW other \in Projects, NEW d, NEW e,
         ListedDrvs(pr, d), ListedDrvs(other, e), NEW p \in Listed(pr) \cap Listed(other)
  PROVE  LinkDrv(pr, p, d) = LinkDrv(other, p, e) <=>
           /\ Depends(pr, p) = Depends(other, p)
           /\ BinaryName(pr, p) = BinaryName(other, p)
           /\ Modinfo(pr) = Modinfo(other)
<1> DEFINE A == {d[q] : q \in TransitiveClosure(pr, p)}
           B == {e[q] : q \in TransitiveClosure(other, p)}
<1>1. LinkDrv(pr, p, d) = LinkDrv(other, p, e) <=>
        BinaryName(pr, p) = BinaryName(other, p) /\ Modinfo(pr) = Modinfo(other) /\ A = B
  BY DEF LinkDrv
<1>2. A = B => Depends(pr, p) = Depends(other, p)
  <2> SUFFICES ASSUME A = B PROVE Depends(pr, p) = Depends(other, p)
    OBVIOUS
  <2>1. p \in TransitiveClosure(pr, p) /\ TransitiveClosure(other, p) \subseteq Listed(other)
    BY ClosureFacts
  <2>2. PICK q \in TransitiveClosure(other, p) : d[p] = e[q]
    BY <2>1
  <2>3. d[p].pkg = p /\ e[q].pkg = q
    BY <2>1 DEF ListedDrvs, ListedDrv
  <2>4. d[p] = e[p]
    BY <2>2, <2>3
  <2> QED
    BY <2>4, SameDerivation
<1>3. Depends(pr, p) = Depends(other, p) => A = B
  <2> SUFFICES ASSUME Depends(pr, p) = Depends(other, p) PROVE A = B
    OBVIOUS
  <2>1. TransitiveClosure(pr, p) = TransitiveClosure(other, p)
    BY DEF Depends
  <2>2. ASSUME NEW q \in TransitiveClosure(pr, p) PROVE d[q] = e[q]
    <3>1. q \in Listed(pr) /\ q \in Listed(other) /\ Depends(pr, q) = Depends(other, q)
      BY ClosureFacts, DependsBelow
    <3> QED
      BY <3>1, SameDerivation
  <2> QED
    BY <2>1, <2>2
<1> HIDE DEF A, B
<1> QED
  BY <1>1, <1>2, <1>3

-----------------------------------------------------------------------------
(***************************************************************************)
(* The invariant: what each phase of Resolve can rely on.                  *)
(***************************************************************************)
Phases == {"idle", "modules", "cache", "list", "stage", "specify", "register", "finals"}

\* The phases after the modules were built, after the cache was set up, after
\* the packages were sorted, staged, and specified.
BuiltPhases == {"cache", "list", "stage", "specify", "register", "finals"}
ReadyPhases == {"list", "stage", "specify", "register", "finals"}
SortedPhases == {"stage", "specify", "register", "finals"}
StagedPhases == {"specify", "register", "finals"}
SpecifiedPhases == {"register", "finals"}

RunInv ==
  /\ phase \in Phases /\ n \in Nat
  /\ phase # "idle" => project \in Projects /\ lock \in Locks[project]
  /\ phase \notin StagedPhases => drv = <<>>
  /\ phase # "finals" => finals = <<>>

\* Each module came from where the lockfile's hash says, and is in the store.
BuiltInv ==
  phase \in BuiltPhases =>
    \A k \in DOMAIN lock.mod :
      Fod(lock, k).fetch = lock.mod[k] /\ FodOutput(lock, k) \in store

HasFilesBefore(t, f) == \A g \in File : g < f => <<t, g>> \in DOMAIN files

\* What the goroutine of key k has done for the tree t.
Mirrored(k, t) ==
  \/ \E f \in File : at[k] \in {Lstat(f), Symlink(f)} /\ HasFilesBefore(t, f)
  \/ at[k] = Metadata /\ HasFilesBefore(t, NFiles + 1)
  \/ at[k] = Done /\ HasFilesBefore(t, NFiles + 1) /\ t \in meta
  \/ at[k] \in {Exists, Fault}

\* The cache holds only what the lockfile names, each file at its place.
CacheHolds ==
  /\ \A x \in DOMAIN files : files[x] \in DOMAIN lock.mod /\ lock.mod[files[x]] = x[1]
  /\ \A t \in meta : \E k \in DOMAIN lock.mod : t = lock.mod[k]

CacheInv ==
  phase = "cache" =>
    /\ DOMAIN at = DOMAIN lock.mod
    /\ \A k \in DOMAIN lock.mod : place[k] = lock.mod[k] /\ Mirrored(k, lock.mod[k])
    /\ CacheHolds

ReadyInv ==
  phase \in ReadyPhases =>
    /\ CacheHolds
    /\ \A k \in DOMAIN lock.mod :
         lock.mod[k] \in meta /\ HasFilesBefore(lock.mod[k], NFiles + 1)

SortedInv ==
  phase \in SortedPhases =>
    /\ order \in TopologicalOrders(Listed(project), Imports(project))
    /\ Readable(project)
    /\ \A p \in Listed(project) \cap Foreign : Key(project.gomod, Owner[p]) \in DOMAIN lock.mod

\* Whether the source of p is in the store.
SourceAdded(p) == SourceOf(project, lock, p) \in store

StagedInv ==
  /\ phase = "stage" => n <= Len(order) /\ \A i \in 1..n : SourceAdded(order[i])
  /\ phase \in StagedPhases => \A p \in Listed(project) : SourceAdded(p)

\* The derivations made so far are those of PackageDrv.
DrvInv ==
  /\ phase = "specify" => n <= Len(order) /\ DOMAIN drv = {order[i] : i \in 1..n}
  /\ phase \in SpecifiedPhases => DOMAIN drv = Listed(project)
  /\ phase \in StagedPhases =>
       \A p \in DOMAIN drv : drv[p] = PackageDrv(project, lock, p, drv)

RegisteredInv ==
  /\ phase = "register" => n <= Len(order) /\ \A i \in 1..n : drv[order[i]] \in store
  /\ phase = "finals" => \A p \in Listed(project) : drv[p] \in store

\* Links of listed packages, and a collector of links before it.
LinkedFrom(pr, d, fs) ==
  /\ Len(fs) \in Nat \ {0} /\ DOMAIN fs = 1..Len(fs)
  /\ \A i \in 1..Len(fs) :
       \/ \E p \in Listed(pr) : fs[i] = LinkDrv(pr, p, d)
       \/ /\ fs[i].kind = "collect"
          /\ \A e \in fs[i].deps : \E j \in 1..Len(fs) : j < i /\ e = fs[j]

FinalInv ==
  phase = "finals" =>
    /\ LinkedFrom(project, drv, finals)
    /\ n <= Len(finals) /\ \A i \in 1..n : finals[i] \in store

ResolveInv ==
  /\ RunInv /\ BuiltInv /\ CacheInv /\ ReadyInv /\ SortedInv /\ StagedInv
  /\ DrvInv /\ RegisteredInv /\ FinalInv /\ OnlyForACause /\ LockErrorIsEarned

\* A lockfile that has the tree go.mod selects for a key has it under that key.
KeyedByRequirement ==
  \A pr \in Projects : \A lk \in Locks[pr] :
    LET wanted == CollectGoModModules(pr.gomod) IN
    \A k \in DOMAIN wanted \cap DOMAIN lk.mod :
      (\E l \in DOMAIN lk.mod : lk.mod[l] = wanted[k]) => lk.mod[k] = wanted[k]

\* The last run made the derivations of what was listed then.
LastInv ==
  \A l \in last :
    l.project \in Projects /\ ListedDrvs(l.project, l.drv) /\ LinkedFrom(l.project, l.drv, l.finals)

-----------------------------------------------------------------------------
(***************************************************************************)
(* Every step keeps the invariant.                                         *)
(***************************************************************************)
LEMMA InitResolveInv == Init => ResolveInv
<1> SUFFICES ASSUME Init PROVE ResolveInv
  OBVIOUS
<1>1. phase = "idle" /\ n = 0 /\ drv = <<>> /\ finals = <<>> /\ outcome = "none"
  BY DEF Init
<1>2. RunInv
  BY <1>1 DEF RunInv, Phases, StagedPhases
<1>3. BuiltInv /\ CacheInv /\ ReadyInv /\ SortedInv /\ StagedInv
  BY <1>1 DEF BuiltInv, BuiltPhases, CacheInv, ReadyInv, ReadyPhases, SortedInv,
              SortedPhases, StagedInv, StagedPhases
<1>4. DrvInv /\ RegisteredInv /\ FinalInv /\ OnlyForACause /\ LockErrorIsEarned
  BY <1>1 DEF DrvInv, StagedPhases, SpecifiedPhases, RegisteredInv, FinalInv,
              OnlyForACause, LockErrorIsEarned
<1> QED
  BY <1>2, <1>3, <1>4 DEF ResolveInv

\* Between two runs there is nothing to keep but how the last one ended.
LEMMA IdleKeeps ==
  ASSUME phase' = "idle", n' = 0, drv' = <<>>, finals' = <<>>,
         OnlyForACause', LockErrorIsEarned'
  PROVE  ResolveInv'
<1>1. RunInv'
  BY DEF RunInv, Phases, StagedPhases
<1>2. BuiltInv' /\ CacheInv' /\ ReadyInv' /\ SortedInv' /\ StagedInv'
  BY DEF BuiltInv, BuiltPhases, CacheInv, ReadyInv, ReadyPhases, SortedInv,
         SortedPhases, StagedInv, StagedPhases
<1>3. DrvInv' /\ RegisteredInv' /\ FinalInv'
  BY DEF DrvInv, StagedPhases, SpecifiedPhases, RegisteredInv, FinalInv
<1> QED
  BY <1>1, <1>2, <1>3 DEF ResolveInv

\* A run may end with any result that is not resolve's own mistake, and with a
\* complaint about the lockfile if it earned that.
LEMMA ReturnKeeps ==
  ASSUME NEW result, Return(result), result # "internal",
         result = "lock" =>
           \E k \in DOMAIN CollectGoModModules(project.gomod) :
             \/ k \notin DOMAIN lock.mod
             \/ lock.mod[k] # CollectGoModModules(project.gomod)[k]
  PROVE  ResolveInv'
<1>1. /\ phase' = "idle" /\ n' = 0 /\ drv' = <<>> /\ finals' = <<>> /\ outcome' = result
      /\ project' = project /\ lock' = lock
  BY DEF Return
<1>2. OnlyForACause'
  BY <1>1 DEF OnlyForACause
<1>3. LockErrorIsEarned'
  BY <1>1 DEF LockErrorIsEarned
<1> QED
  BY <1>1, <1>2, <1>3, IdleKeeps

\* In a phase after the cache is set up, what was done before stays as it was.
LEMMA LaterKeeps ==
  ASSUME ResolveInv, phase \in ReadyPhases, phase' \in ReadyPhases,
         UNCHANGED <<project, lock, outcome, cacheVars>>, store \subseteq store'
  PROVE  BuiltInv' /\ CacheInv' /\ ReadyInv' /\ OnlyForACause' /\ LockErrorIsEarned'
<1>1. project' = project /\ lock' = lock /\ outcome' = outcome /\ files' = files /\ meta' = meta
  BY DEF cacheVars
<1>2. BuiltInv'
  BY <1>1 DEF ResolveInv, BuiltInv, ReadyPhases, BuiltPhases
<1>3. CacheInv'
  BY DEF CacheInv, ReadyPhases
<1>4. ReadyInv'
  BY <1>1 DEF ResolveInv, ReadyInv, CacheHolds, HasFilesBefore
<1>5. OnlyForACause' /\ LockErrorIsEarned'
  BY <1>1 DEF ResolveInv, OnlyForACause, LockErrorIsEarned
<1> QED
  BY <1>2, <1>3, <1>4, <1>5

LEMMA SortedKeeps ==
  ASSUME ResolveInv, phase \in SortedPhases,
         UNCHANGED <<project, lock, order, meta>>
  PROVE  SortedInv'
  BY DEF ResolveInv, SortedInv, Readable

LEMMA BeginKeeps == ResolveInv /\ Begin => ResolveInv'
<1> SUFFICES ASSUME ResolveInv, Begin PROVE ResolveInv'
  OBVIOUS
<1>1. /\ phase = "idle" /\ phase' = "modules" /\ outcome' = "none"
      /\ project' \in Projects /\ lock' \in Locks[project']
      /\ n' = n /\ drv' = drv /\ finals' = finals
  BY DEF Begin
<1>2. RunInv'
  BY <1>1 DEF ResolveInv, RunInv, Phases, StagedPhases
<1>3. BuiltInv' /\ CacheInv' /\ ReadyInv' /\ SortedInv' /\ StagedInv'
  BY <1>1 DEF BuiltInv, BuiltPhases, CacheInv, ReadyInv, ReadyPhases, SortedInv,
              SortedPhases, StagedInv, StagedPhases
<1>4. DrvInv' /\ RegisteredInv' /\ FinalInv' /\ OnlyForACause' /\ LockErrorIsEarned'
  BY <1>1 DEF DrvInv, StagedPhases, SpecifiedPhases, RegisteredInv, FinalInv,
              OnlyForACause, LockErrorIsEarned
<1> QED
  BY <1>2, <1>3, <1>4 DEF ResolveInv

LEMMA CollectGarbageKeeps == ResolveInv /\ CollectGarbage => ResolveInv'
<1> SUFFICES ASSUME ResolveInv, CollectGarbage PROVE ResolveInv'
  OBVIOUS
<1>1. /\ phase = "idle" /\ phase' = "idle"
      /\ UNCHANGED <<project, lock, outcome, n, drv, finals>>
  BY DEF CollectGarbage, local
<1>2. RunInv'
  BY <1>1 DEF ResolveInv, RunInv
<1>3. BuiltInv' /\ CacheInv' /\ ReadyInv' /\ SortedInv' /\ StagedInv'
  BY <1>1 DEF BuiltInv, BuiltPhases, CacheInv, ReadyInv, ReadyPhases, SortedInv,
              SortedPhases, StagedInv, StagedPhases
<1>4. DrvInv' /\ RegisteredInv' /\ FinalInv' /\ OnlyForACause' /\ LockErrorIsEarned'
  BY <1>1 DEF ResolveInv, DrvInv, StagedPhases, SpecifiedPhases, RegisteredInv, FinalInv,
              OnlyForACause, LockErrorIsEarned
<1> QED
  BY <1>2, <1>3, <1>4 DEF ResolveInv

LEMMA FaultedKeeps == ResolveInv /\ Faulted => ResolveInv'
<1> SUFFICES ASSUME ResolveInv, Faulted PROVE ResolveInv'
  OBVIOUS
<1>1. Return("fault")
  BY DEF Faulted
<1> QED
  BY <1>1, ReturnKeeps

\* A step within the phases before the cache is set up.
LEMMA EarlyKeeps ==
  ASSUME ResolveInv, phase \in {"modules", "cache"}, phase' \in {"modules", "cache"},
         UNCHANGED <<project, lock, outcome, drv, finals>>, n' \in Nat,
         BuiltInv', CacheInv'
  PROVE  ResolveInv'
<1>1. RunInv'
  BY DEF ResolveInv, RunInv, Phases, StagedPhases
<1>2. ReadyInv' /\ SortedInv' /\ StagedInv'
  BY DEF ReadyInv, ReadyPhases, SortedInv, SortedPhases, StagedInv, StagedPhases
<1>3. DrvInv' /\ RegisteredInv' /\ FinalInv' /\ OnlyForACause' /\ LockErrorIsEarned'
  BY DEF ResolveInv, DrvInv, StagedPhases, SpecifiedPhases, RegisteredInv, FinalInv,
         OnlyForACause, LockErrorIsEarned
<1> QED
  BY <1>1, <1>2, <1>3 DEF ResolveInv

LEMMA RegisterModuleKeeps ==
  ASSUME ResolveInv, NEW k \in todo, RegisterModule(k)
  PROVE  ResolveInv'
<1>1. /\ phase = "modules" /\ phase' = "modules"
      /\ UNCHANGED <<project, lock, outcome, drv, finals, n>>
  BY DEF RegisterModule, Stay
<1>2. BuiltInv' /\ CacheInv'
  BY <1>1 DEF BuiltInv, BuiltPhases, CacheInv
<1> QED
  BY <1>1, <1>2, EarlyKeeps DEF ResolveInv, RunInv

LEMMA BuildModulesKeeps == ResolveInv /\ BuildModules => ResolveInv'
<1> SUFFICES ASSUME ResolveInv, BuildModules PROVE ResolveInv'
  OBVIOUS
<1>1. CASE Stop("hash")
  BY <1>1, ReturnKeeps DEF Stop
<1>2. CASE /\ \A k \in DOMAIN lock.mod : Fod(lock, k).fetch = Fod(lock, k).hash
           /\ store' = store \cup {FodOutput(lock, k) : k \in DOMAIN lock.mod}
           /\ Launch(Places(lock))
           /\ GoTo("cache")
           /\ UNCHANGED <<todo, order, drv, finals>>
  <2>1. /\ phase = "modules" /\ phase' = "cache" /\ n' = 0
        /\ UNCHANGED <<project, lock, outcome, drv, finals>>
    BY <1>2 DEF BuildModules, GoTo
  <2>2. \A k \in DOMAIN lock.mod : Fod(lock, k).fetch = lock.mod[k]
    BY <1>2 DEF Fod
  <2>3. BuiltInv'
    BY <1>2, <2>1, <2>2 DEF BuiltInv
  <2>4. CacheInv'
    <3>1. /\ DOMAIN at' = DOMAIN lock.mod /\ files' = <<>> /\ meta' = {}
          /\ \A k \in DOMAIN lock.mod : place'[k] = lock.mod[k] /\ at'[k] = Lstat(1)
      BY <1>2, <2>2 DEF Launch, Places
    <3>2. CacheHolds'
      BY <3>1 DEF CacheHolds
    <3>3. \A k \in DOMAIN lock.mod : Mirrored(k, lock.mod[k])'
      <4>1. 1 \in File /\ \A g \in File : ~(g < 1)
        BY NFilesAssumption DEF File
      <4> QED
        BY <3>1, <4>1 DEF Mirrored, HasFilesBefore
    <3> QED
      BY <2>1, <3>1, <3>2, <3>3 DEF CacheInv
  <2> QED
    BY <2>1, <2>3, <2>4, EarlyKeeps
<1> QED
  BY <1>1, <1>2 DEF BuildModules

LEMMA NFilesNat == NFiles \in Nat /\ File \subseteq Nat /\ NFiles \in File
  BY NFilesAssumption DEF File

\* After a file, the goroutine goes on to the next one or to the metadata.
LEMMA AfterFileRight ==
  ASSUME NEW k, NEW t, NEW f \in File, at'[k] = AfterFile(f),
         \A g \in File : g < f => <<t, g>> \in DOMAIN files', <<t, f>> \in DOMAIN files'
  PROVE  Mirrored(k, t)'
<1>1. CASE f = NFiles
  <2>1. \A g \in File : g < NFiles + 1 => g < f \/ g = f
    BY <1>1, NFilesNat
  <2> QED
    BY <1>1, <2>1 DEF Mirrored, HasFilesBefore, AfterFile
<1>2. CASE f # NFiles
  <2>1. f + 1 \in File /\ \A g \in File : g < f + 1 => g < f \/ g = f
    BY <1>2, NFilesNat DEF File
  <2> QED
    BY <1>2, <2>1 DEF Mirrored, HasFilesBefore, AfterFile
<1> QED
  BY <1>1, <1>2

LEMMA AtFile ==
  ASSUME NEW k, NEW t, Mirrored(k, t), NEW f \in File, at[k] \in {Lstat(f), Symlink(f)}
  PROVE  HasFilesBefore(t, f)
  BY DEF Mirrored, Lstat, Symlink, Metadata, Done, Exists, Fault

LEMMA AtMetadata ==
  ASSUME NEW k, NEW t, Mirrored(k, t), at[k] = Metadata
  PROVE  HasFilesBefore(t, NFiles + 1)
  BY DEF Mirrored, Lstat, Symlink, Metadata, Done, Exists, Fault

LEMMA AtDone ==
  ASSUME NEW k, NEW t, Mirrored(k, t), at[k] = Done
  PROVE  HasFilesBefore(t, NFiles + 1) /\ t \in meta
  BY DEF Mirrored, Lstat, Symlink, Metadata, Done, Exists, Fault

\* What the goroutine of one key does to the cache.
LEMMA MirrorKeeps ==
  ASSUME ResolveInv, phase = "cache", UNCHANGED <<phase, lock>>,
         NEW k \in DOMAIN at, Mirror(k) \/ SystemError(k)
  PROVE  CacheInv'
<1>1. /\ DOMAIN at = DOMAIN lock.mod
      /\ \A l \in DOMAIN lock.mod : place[l] = lock.mod[l] /\ Mirrored(l, lock.mod[l])
      /\ CacheHolds
  BY DEF ResolveInv, CacheInv
<1> DEFINE Kept == CacheInv'
<1>2. ASSUME NEW next, at' = [at EXCEPT ![k] = next], DOMAIN files \subseteq DOMAIN files',
             meta \subseteq meta', UNCHANGED place, Mirrored(k, lock.mod[k])', CacheHolds'
      PROVE  Kept
  <2>1. ASSUME NEW l \in DOMAIN lock.mod, l # k PROVE Mirrored(l, lock.mod[l])'
    <3>1. at'[l] = at[l] /\ lock'.mod[l] = lock.mod[l]
      BY <1>2, <2>1
    <3> QED
      BY <1>1, <1>2, <3>1 DEF Mirrored, HasFilesBefore
  <2>2. DOMAIN at' = DOMAIN at
    BY <1>2
  <2> QED
    BY <1>1, <1>2, <2>1, <2>2 DEF CacheInv
<1>3. PICK t : t = lock.mod[k] /\ t = lock'.mod[k] /\ place[k] = t /\ Mirrored(k, t)
  BY <1>1
<1>4. ASSUME NEW f \in File, LookUp(k, f) PROVE Kept
  <2>1. HasFilesBefore(t, f) /\ UNCHANGED <<place, files, meta>>
    BY <1>3, <1>4, AtFile DEF LookUp
  <2>2. CacheHolds'
    BY <1>1, <2>1 DEF CacheHolds
  <2>3. CASE <<t, f>> \in DOMAIN files
    <3>1. at' = [at EXCEPT ![k] = AfterFile(f)] /\ at'[k] = AfterFile(f)
      BY <1>3, <1>4, <2>3 DEF LookUp
    <3>2. Mirrored(k, t)'
      BY <2>1, <2>3, <3>1, AfterFileRight DEF HasFilesBefore
    <3> QED
      BY <1>2, <1>3, <2>1, <2>2, <3>1, <3>2 DEF Mirrored, HasFilesBefore
  <2>4. CASE <<t, f>> \notin DOMAIN files
    <3>1. at' = [at EXCEPT ![k] = Symlink(f)] /\ at'[k] = Symlink(f)
      BY <1>3, <1>4, <2>4 DEF LookUp
    <3>2. Mirrored(k, lock.mod[k])'
      BY <1>3, <2>1, <3>1 DEF Mirrored, HasFilesBefore
    <3> QED
      BY <1>2, <2>1, <2>2, <3>1, <3>2
  <2> QED
    BY <2>3, <2>4
<1>5. ASSUME NEW f \in File, MakeLink(k, f) PROVE Kept
  <2>1. HasFilesBefore(t, f) /\ UNCHANGED <<place, meta>>
    BY <1>3, <1>5, AtFile DEF MakeLink
  <2>2. CASE at' = [at EXCEPT ![k] = Exists] /\ UNCHANGED files
    <3>1. at'[k] = Exists
      BY <2>2
    <3>2. Mirrored(k, lock.mod[k])' /\ CacheHolds'
      BY <1>1, <2>1, <2>2, <3>1 DEF Mirrored, CacheHolds
    <3> QED
      BY <1>2, <2>1, <2>2, <3>2
  <2>3. CASE /\ at' = [at EXCEPT ![k] = AfterFile(f)]
             /\ files' = With(files, <<place[k], f>>, k)
    <3>1. /\ DOMAIN files' = DOMAIN files \cup {<<t, f>>}
          /\ \A x \in DOMAIN files' : files'[x] = IF x = <<t, f>> THEN k ELSE files[x]
      BY <1>3, <2>3 DEF With
    <3>2. at'[k] = AfterFile(f)
      BY <2>3
    <3>3. Mirrored(k, t)'
      BY <2>1, <3>1, <3>2, AfterFileRight DEF HasFilesBefore
    <3>4. CacheHolds'
      BY <1>1, <1>3, <2>1, <3>1 DEF CacheHolds
    <3> QED
      BY <1>2, <1>3, <2>1, <2>3, <3>1, <3>3, <3>4 DEF Mirrored, HasFilesBefore
  <2> QED
    BY <1>5, <2>2, <2>3 DEF MakeLink
<1>6. ASSUME WriteMetadata(k) PROVE Kept
  <2>1. /\ HasFilesBefore(t, NFiles + 1) /\ at' = [at EXCEPT ![k] = Done] /\ at'[k] = Done
        /\ meta' = meta \cup {t} /\ UNCHANGED <<place, files>>
    BY <1>3, <1>6, AtMetadata DEF WriteMetadata
  <2>2. Mirrored(k, lock.mod[k])'
    BY <1>3, <2>1 DEF Mirrored, HasFilesBefore
  <2>3. CacheHolds'
    BY <1>1, <1>3, <2>1 DEF CacheHolds
  <2> QED
    BY <1>2, <2>1, <2>2, <2>3
<1>7. ASSUME SystemError(k) PROVE Kept
  <2>1. at' = [at EXCEPT ![k] = Fault] /\ at'[k] = Fault /\ UNCHANGED <<place, files, meta>>
    BY <1>7 DEF SystemError
  <2>2. Mirrored(k, lock.mod[k])' /\ CacheHolds'
    BY <1>1, <2>1 DEF Mirrored, CacheHolds
  <2> QED
    BY <1>2, <2>1, <2>2
<1> QED
  BY <1>4, <1>5, <1>6, <1>7 DEF Mirror

LEMMA FillCacheKeeps == ResolveInv /\ (FillCache \/ CacheFault) => ResolveInv'
<1> SUFFICES ASSUME ResolveInv, FillCache \/ CacheFault PROVE ResolveInv'
  OBVIOUS
<1>1. /\ phase = "cache" /\ \E k \in DOMAIN at : Mirror(k) \/ SystemError(k)
      /\ UNCHANGED <<phase, project, lock, outcome, drv, finals, n, store>>
  BY DEF FillCache, CacheFault, Stay, local
<1>2. CacheInv'
  BY <1>1, MirrorKeeps
<1>3. BuiltInv'
  BY <1>1 DEF ResolveInv, BuiltInv
<1> QED
  BY <1>1, <1>2, <1>3, EarlyKeeps DEF ResolveInv, RunInv

\* What is left of the invariant, for a step after the cache is set up.
LEMMA LaterStep ==
  ASSUME ResolveInv, phase \in ReadyPhases, phase' \in ReadyPhases,
         UNCHANGED <<project, lock, outcome, cacheVars>>, store \subseteq store',
         n' \in Nat, phase' \notin StagedPhases => drv' = <<>>,
         phase' # "finals" => finals' = <<>>,
         SortedInv', StagedInv', DrvInv', RegisteredInv', FinalInv'
  PROVE  ResolveInv'
<1>1. RunInv'
  BY DEF ResolveInv, RunInv, ReadyPhases, Phases
<1> QED
  BY <1>1, LaterKeeps DEF ResolveInv

LEMMA WaitCacheKeeps == ResolveInv /\ WaitCache => ResolveInv'
<1> SUFFICES ASSUME ResolveInv, WaitCache PROVE ResolveInv'
  OBVIOUS
<1>1. CASE Stop("cache")
  BY <1>1, ReturnKeeps DEF Stop
<1>2. CASE ~CacheFails /\ GoTo("list") /\ UNCHANGED <<store, todo, order, drv, finals, cacheVars>>
  <2>1. /\ phase = "cache" /\ phase' = "list" /\ n' = 0
        /\ UNCHANGED <<project, lock, outcome, store, drv, finals, files, meta>>
    BY <1>2 DEF WaitCache, GoTo, cacheVars
  <2>2. CacheHolds /\ \A k \in DOMAIN lock.mod : Mirrored(k, lock.mod[k]) /\ at[k] = Done
    BY <1>2, <2>1 DEF ResolveInv, CacheInv, CacheFails
  <2>3. \A k \in DOMAIN lock.mod :
          lock.mod[k] \in meta /\ HasFilesBefore(lock.mod[k], NFiles + 1)
    BY <2>2, AtDone
  <2>4. ReadyInv'
    BY <2>1, <2>2, <2>3 DEF ReadyInv, CacheHolds, HasFilesBefore
  <2>5. RunInv'
    BY <2>1 DEF ResolveInv, RunInv, Phases, StagedPhases
  <2>6. BuiltInv' /\ CacheInv'
    BY <2>1 DEF ResolveInv, BuiltInv, BuiltPhases, CacheInv
  <2>7. SortedInv' /\ StagedInv' /\ DrvInv' /\ RegisteredInv' /\ FinalInv'
    BY <2>1 DEF SortedInv, SortedPhases, StagedInv, StagedPhases, DrvInv, SpecifiedPhases,
                RegisteredInv, FinalInv
  <2>8. OnlyForACause' /\ LockErrorIsEarned'
    BY <2>1 DEF ResolveInv, OnlyForACause, LockErrorIsEarned
  <2> QED
    BY <2>4, <2>5, <2>6, <2>7, <2>8 DEF ResolveInv
<1> QED
  BY <1>1, <1>2 DEF WaitCache

LEMMA ListPackagesKeeps == ResolveInv /\ ListPackages => ResolveInv'
<1> SUFFICES ASSUME ResolveInv, ListPackages PROVE ResolveInv'
  OBVIOUS
<1> DEFINE wanted == CollectGoModModules(project.gomod)
<1>1. phase = "list" /\ project \in Projects
  BY DEF ListPackages, ResolveInv, RunInv
<1>2. ASSUME NEW p \in Listed(project) \cap Foreign
      PROVE  /\ Key(project.gomod, Owner[p]) \in DOMAIN wanted
             /\ wanted[Key(project.gomod, Owner[p])] = ListedTree(project, p)
  <2>1. Owner[p] \in Fetched(project.gomod)
    BY <1>1, ListedFacts
  <2>2. Key(project.gomod, Owner[p])[1] = Owner[p]
    BY DEF Key
  <2> QED
    BY <2>1, <2>2 DEF CollectGoModModules, ListedTree
<1>3. \A k \in DOMAIN lock.mod : lock.mod[k] \in meta
  BY <1>1 DEF ResolveInv, ReadyInv, ReadyPhases
<1>4. ASSUME ~Readable(project) \/
             \E p \in Listed(project) \cap Foreign : Key(project.gomod, Owner[p]) \notin DOMAIN lock.mod
      PROVE  \E k \in DOMAIN wanted : k \notin DOMAIN lock.mod \/ lock.mod[k] # wanted[k]
  <2>1. CASE ~Readable(project)
    <3>1. PICK p \in Listed(project) \cap Foreign : ListedTree(project, p) \notin meta
      BY <2>1 DEF Readable
    <3> QED
      BY <1>2, <1>3, <3>1
  <2>2. CASE \E p \in Listed(project) \cap Foreign : Key(project.gomod, Owner[p]) \notin DOMAIN lock.mod
    BY <1>2, <2>2
  <2> QED
    BY <1>4, <2>1, <2>2
<1>5. CASE /\ ~Readable(project) \/
              \E p \in Listed(project) \cap Foreign : Key(project.gomod, Owner[p]) \notin DOMAIN lock.mod
           /\ Stop("lock")
  BY <1>4, <1>5, ReturnKeeps DEF Stop
<1>6. CASE /\ Readable(project)
           /\ \A p \in Listed(project) \cap Foreign : Key(project.gomod, Owner[p]) \in DOMAIN lock.mod
           /\ order' = SortPackages(Listed(project), Imports(project))
           /\ GoTo("stage")
           /\ UNCHANGED <<store, todo, drv, finals, cacheVars>>
  <2>1. /\ phase' = "stage" /\ n' = 0
        /\ UNCHANGED <<project, lock, outcome, store, drv, finals, cacheVars, meta>>
    BY <1>6 DEF GoTo, cacheVars
  <2>2. order' \in TopologicalOrders(Listed(project), Imports(project))
    BY <1>1, <1>6, SortedIsOrder
  <2>3. SortedInv'
    BY <1>6, <2>1, <2>2 DEF SortedInv, Readable
  <2>4. StagedInv'
    <3>1. 0 <= Len(order')
      BY <1>1, <2>2, ListedOrder
    <3> QED
      BY <2>1, <3>1 DEF StagedInv, StagedPhases
  <2>5. DrvInv' /\ RegisteredInv' /\ FinalInv'
    BY <2>1 DEF DrvInv, StagedPhases, SpecifiedPhases, RegisteredInv, FinalInv
  <2> QED
    BY <1>1, <2>1, <2>3, <2>4, <2>5, LaterStep
       DEF ResolveInv, RunInv, ReadyPhases, StagedPhases
<1> QED
  BY <1>5, <1>6 DEF ListPackages

\* What the later phases know of order.
LEMMA OrderRight ==
  ASSUME ResolveInv, phase \in SortedPhases
  PROVE  /\ project \in Projects
         /\ order \in Seq(Listed(project)) /\ Len(order) \in Nat
         /\ \A i, j \in 1..Len(order) : i # j => order[i] # order[j]
         /\ \A i \in 1..Len(order) : order[i] \in Listed(project)
         /\ \A p \in Listed(project) : \E i \in 1..Len(order) : order[i] = p
         /\ \A i \in 1..Len(order) : \A q \in Imports(project)[order[i]] :
              \E j \in 1..Len(order) : j < i /\ order[j] = q
<1>1. project \in Projects /\ order \in TopologicalOrders(Listed(project), Imports(project))
  BY DEF ResolveInv, RunInv, SortedInv, SortedPhases
<1> QED
  BY <1>1, ListedOrder

LEMMA StageKeeps == ResolveInv /\ (StageNext \/ StageEnd) => ResolveInv'
<1> SUFFICES ASSUME ResolveInv, StageNext \/ StageEnd PROVE ResolveInv'
  OBVIOUS
<1>1. /\ phase = "stage" /\ n \in Nat /\ n <= Len(order)
      /\ \A i \in 1..n : SourceAdded(order[i])
      /\ UNCHANGED <<project, lock, outcome, order, drv, finals, cacheVars, meta>>
      /\ drv = <<>> /\ finals = <<>>
  BY DEF StageNext, StageEnd, Stay, GoTo, cacheVars, ResolveInv, RunInv, StagedInv, StagedPhases
<1>2. SortedInv'
  BY <1>1, SortedKeeps DEF SortedPhases
<1>3. CASE StageNext
  <2>1. /\ phase' = "stage" /\ n < Len(order) /\ n' = n + 1 /\ store \subseteq store'
        /\ order[n + 1] \in Local => LocalSource(project, order[n + 1]) \in store'
    BY <1>3 DEF StageNext, Stay
  <2>2. n + 1 \in 1..Len(order) /\ order[n + 1] \in Listed(project) /\ Len(order) \in Nat
    BY <1>1, <2>1, OrderRight DEF SortedPhases
  <2>3. SourceOf(project, lock, order[n + 1]) \in store'
    <3>1. CASE order[n + 1] \in Local
      BY <2>1, <3>1 DEF SourceOf
    <3>2. CASE order[n + 1] \notin Local
      <4>1. order[n + 1] \in Foreign
        BY <1>1, <2>2, <3>2, OrderRight, ListedFacts, GraphOf DEF SortedPhases, Package
      <4>2. Key(project.gomod, Owner[order[n + 1]]) \in DOMAIN lock.mod
        BY <1>1, <2>2, <4>1 DEF ResolveInv, SortedInv, SortedPhases
      <4> QED
        BY <1>1, <2>1, <3>2, <4>2 DEF ResolveInv, BuiltInv, BuiltPhases, SourceOf
    <3> QED
      BY <3>1, <3>2
  <2>4. \A i \in 1..n + 1 : SourceOf(project, lock, order[i]) \in store'
    BY <1>1, <2>1, <2>3 DEF SourceAdded
  <2>5. StagedInv'
    BY <1>1, <2>1, <2>2, <2>4 DEF StagedInv, StagedPhases, SourceAdded
  <2>6. DrvInv' /\ RegisteredInv' /\ FinalInv'
    BY <2>1 DEF DrvInv, StagedPhases, SpecifiedPhases, RegisteredInv, FinalInv
  <2> QED
    BY <1>1, <1>2, <2>1, <2>5, <2>6, LaterStep DEF ReadyPhases
<1>4. CASE StageEnd
  <2>1. phase' = "specify" /\ n = Len(order) /\ n' = 0 /\ store' = store
    BY <1>4 DEF StageEnd, GoTo
  <2>2. \A p \in Listed(project) : SourceAdded(p)
    BY <1>1, <2>1, OrderRight DEF SortedPhases
  <2>3. StagedInv'
    BY <1>1, <2>1, <2>2 DEF StagedInv, SourceAdded
  <2>4. DrvInv'
    <3>1. DOMAIN drv' = {} /\ 1..0 = {} /\ Len(order) \in Nat
      BY <1>1, OrderRight DEF SortedPhases
    <3> QED
      BY <1>1, <2>1, <3>1 DEF DrvInv, StagedPhases, SpecifiedPhases
  <2>5. RegisteredInv' /\ FinalInv'
    BY <2>1 DEF RegisteredInv, FinalInv
  <2> QED
    BY <1>1, <1>2, <2>1, <2>3, <2>4, <2>5, LaterStep DEF ReadyPhases, StagedPhases
<1> QED
  BY <1>3, <1>4

\* In the later phases the sources stay where they are.
LEMMA StagedKeeps ==
  ASSUME ResolveInv, phase \in StagedPhases, phase' \in StagedPhases,
         UNCHANGED <<project, lock>>, store \subseteq store'
  PROVE  StagedInv'
<1>1. \A p \in Listed(project) : SourceOf(project, lock, p) \in store'
  BY DEF ResolveInv, StagedInv, SourceAdded
<1> QED
  BY <1>1 DEF StagedInv, SourceAdded, StagedPhases

LEMMA SpecifyKeeps == ResolveInv /\ (SpecifyNext \/ SpecifyEnd) => ResolveInv'
<1> SUFFICES ASSUME ResolveInv, SpecifyNext \/ SpecifyEnd PROVE ResolveInv'
  OBVIOUS
<1>1. /\ phase = "specify" /\ n \in Nat /\ n <= Len(order)
      /\ DOMAIN drv = {order[i] : i \in 1..n}
      /\ \A p \in DOMAIN drv : drv[p] = PackageDrv(project, lock, p, drv)
      /\ finals = <<>>
  BY DEF SpecifyNext, SpecifyEnd, ResolveInv, RunInv, DrvInv, StagedPhases
<1>2. /\ Len(order) \in Nat
      /\ \A i, j \in 1..Len(order) : i # j => order[i] # order[j]
      /\ \A p \in Listed(project) : \E i \in 1..Len(order) : order[i] = p
      /\ \A i \in 1..Len(order) : order[i] \in Listed(project)
      /\ \A i \in 1..Len(order) : \A q \in Imports(project)[order[i]] :
           \E j \in 1..Len(order) : j < i /\ order[j] = q
  BY <1>1, OrderRight DEF SortedPhases
<1>3. CASE SpecifyNext
  <2> DEFINE p == order[n + 1]
  <2>1. n < Len(order) /\ n + 1 \in 1..Len(order)
    BY <1>1, <1>2, <1>3 DEF SpecifyNext
  <2>2. Imports(project)[p] \subseteq DOMAIN drv
    <3> SUFFICES ASSUME NEW q \in Imports(project)[p] PROVE q \in DOMAIN drv
      OBVIOUS
    <3>1. PICK j \in 1..Len(order) : j < n + 1 /\ order[j] = q
      BY <1>2, <2>1
    <3>2. j \in 1..n
      BY <1>1, <3>1
    <3> QED
      BY <1>1, <3>1, <3>2
  <2>3. /\ drv' = With(drv, p, PackageDrv(project, lock, p, drv)) /\ n' = n + 1
        /\ phase' = "specify" /\ store' = store
        /\ UNCHANGED <<project, lock, outcome, order, finals, cacheVars, meta>>
    BY <1>3, <2>2 DEF SpecifyNext, Stay, cacheVars
  <2>4. p \notin DOMAIN drv
    <3>1. \A i \in 1..n : i \in 1..Len(order) /\ i # n + 1
      BY <1>1, <1>2
    <3> QED
      BY <1>1, <1>2, <2>1, <3>1
  <2> HIDE DEF p
  <2>5. /\ DOMAIN drv' = DOMAIN drv \cup {p} /\ drv'[p] = PackageDrv(project, lock, p, drv)
        /\ \A q \in DOMAIN drv : drv'[q] = drv[q]
    BY <2>3, <2>4 DEF With
  <2>6. \A q \in DOMAIN drv \cup {p} : Imports(project)[q] \subseteq DOMAIN drv
    <3>1. ASSUME NEW q \in DOMAIN drv, NEW r \in Imports(project)[q] PROVE r \in DOMAIN drv
      <4>1. PICK i \in 1..n : q = order[i]
        BY <1>1
      <4>2. PICK j \in 1..Len(order) : j < i /\ order[j] = r
        BY <1>1, <1>2, <4>1
      <4>3. j \in 1..n
        BY <1>1, <4>1, <4>2
      <4> QED
        BY <1>1, <4>2, <4>3
    <3> QED
      BY <2>2, <3>1
  <2>7. \A q \in DOMAIN drv \cup {p} :
          PackageDrv(project, lock, q, drv') = PackageDrv(project, lock, q, drv)
    <3> SUFFICES ASSUME NEW q \in DOMAIN drv \cup {p}
                 PROVE  PackageDrv(project, lock, q, drv') = PackageDrv(project, lock, q, drv)
      OBVIOUS
    <3>1. \A r \in Imports(project)[q] : drv'[r] = drv[r]
      BY <2>5, <2>6
    <3>2. {drv'[r] : r \in Imports(project)[q]} = {drv[r] : r \in Imports(project)[q]}
      BY <3>1
    <3> QED
      BY <3>2 DEF PackageDrv
  <2>8. DrvInv'
    <3>1. \A q \in DOMAIN drv' : drv'[q] = PackageDrv(project, lock, q, drv')
      BY <1>1, <2>5, <2>7
    <3>2. DOMAIN drv' = {order[i] : i \in 1..n + 1}
      <4>1. 1..n + 1 = (1..n) \cup {n + 1}
        BY <1>1
      <4> QED
        BY <1>1, <2>5, <4>1 DEF p
    <3> QED
      BY <1>1, <1>2, <2>1, <2>3, <3>1, <3>2 DEF DrvInv, SpecifiedPhases
  <2>9. SortedInv' /\ StagedInv'
    BY <1>1, <2>3, SortedKeeps, StagedKeeps DEF SortedPhases, StagedPhases
  <2>10. RegisteredInv' /\ FinalInv'
    BY <2>3 DEF RegisteredInv, FinalInv
  <2> QED
    BY <1>1, <2>3, <2>8, <2>9, <2>10, LaterStep DEF ReadyPhases, StagedPhases
<1>4. CASE SpecifyEnd
  <2>1. /\ n = Len(order) /\ phase' = "register" /\ n' = 0 /\ store' = store
        /\ UNCHANGED <<project, lock, outcome, order, drv, finals, cacheVars, meta>>
    BY <1>4 DEF SpecifyEnd, GoTo, cacheVars
  <2>2. DOMAIN drv = Listed(project)
    BY <1>1, <1>2, <2>1
  <2>3. DrvInv'
    BY <1>1, <2>1, <2>2 DEF DrvInv
  <2>4. SortedInv' /\ StagedInv'
    BY <1>1, <2>1, SortedKeeps, StagedKeeps DEF SortedPhases, StagedPhases
  <2>5. RegisteredInv' /\ FinalInv'
    BY <1>2, <2>1 DEF RegisteredInv, FinalInv
  <2> QED
    BY <1>1, <2>1, <2>3, <2>4, <2>5, LaterStep DEF ReadyPhases, StagedPhases
<1> QED
  BY <1>3, <1>4

\* In the later phases the derivations of the packages stay as they are.
LEMMA SpecifiedKeeps ==
  ASSUME ResolveInv, phase \in SpecifiedPhases, phase' \in SpecifiedPhases,
         UNCHANGED <<project, lock, order, drv, meta>>, store \subseteq store'
  PROVE  SortedInv' /\ StagedInv' /\ DrvInv'
<1>1. SortedInv' /\ StagedInv'
  BY SortedKeeps, StagedKeeps DEF SortedPhases, StagedPhases, SpecifiedPhases
<1>2. DrvInv'
  BY DEF ResolveInv, DrvInv, StagedPhases, SpecifiedPhases
<1> QED
  BY <1>1, <1>2

\* The store has all that the next package's derivation refers to.
LEMMA InputsAreThere ==
  ASSUME ResolveInv, phase = "register", n < Len(order)
  PROVE  /\ n + 1 \in 1..Len(order) /\ order[n + 1] \in Listed(project)
         /\ References(drv[order[n + 1]]) \subseteq store
<1>1. /\ n \in Nat /\ \A i \in 1..n : drv[order[i]] \in store
      /\ DOMAIN drv = Listed(project) /\ \A p \in Listed(project) : SourceAdded(p)
      /\ \A p \in DOMAIN drv : drv[p] = PackageDrv(project, lock, p, drv)
  BY DEF ResolveInv, RunInv, RegisteredInv, DrvInv, StagedInv, SpecifiedPhases, StagedPhases
<1> DEFINE p == order[n + 1]
<1>2. /\ Len(order) \in Nat
      /\ \A i \in 1..Len(order) : order[i] \in Listed(project)
      /\ \A i \in 1..Len(order) : \A q \in Imports(project)[order[i]] :
           \E j \in 1..Len(order) : j < i /\ order[j] = q
  BY OrderRight DEF SortedPhases
<1>3. n + 1 \in 1..Len(order) /\ p \in Listed(project)
  BY <1>1, <1>2
<1>4. ASSUME NEW q \in Imports(project)[p] PROVE drv[q] \in store
  <2>1. PICK j \in 1..Len(order) : j < n + 1 /\ order[j] = q
    BY <1>2, <1>3
  <2>2. j \in 1..n
    BY <1>1, <2>1
  <2> QED
    BY <1>1, <2>1, <2>2
<1> HIDE DEF p
<1>5. drv[p] = PackageDrv(project, lock, p, drv) /\ SourceOf(project, lock, p) \in store
  BY <1>1, <1>3 DEF SourceAdded
<1>6. References(drv[p]) = {drv[q] : q \in Imports(project)[p]} \cup {SourceOf(project, lock, p)}
  BY <1>5 DEF References, PackageDrv
<1> QED
  BY <1>3, <1>4, <1>5, <1>6 DEF p

LEMMA RegisterNextKeeps == ResolveInv /\ RegisterNext => ResolveInv'
<1> SUFFICES ASSUME ResolveInv, RegisterNext PROVE ResolveInv'
  OBVIOUS
<1>1. phase = "register" /\ n < Len(order) /\ n \in Nat /\ finals = <<>>
  BY DEF RegisterNext, ResolveInv, RunInv
<1>2. References(drv[order[n + 1]]) \subseteq store /\ n + 1 \in 1..Len(order)
  BY <1>1, InputsAreThere
<1>3. /\ phase' = "register" /\ n' = n + 1 /\ store' = store \cup {drv[order[n + 1]]}
      /\ UNCHANGED <<project, lock, outcome, order, drv, finals, cacheVars, meta>>
  BY <1>2 DEF RegisterNext, DerivationAdd, Refused, Stay, cacheVars
<1>4. SortedInv' /\ StagedInv' /\ DrvInv'
  BY <1>1, <1>3, SpecifiedKeeps DEF SpecifiedPhases
<1>5. RegisteredInv'
  <2>1. \A i \in 1..n : drv[order[i]] \in store
    BY <1>1 DEF ResolveInv, RegisteredInv
  <2>2. \A i \in 1..n + 1 : i \in 1..n \/ i = n + 1
    BY <1>1
  <2>3. n + 1 <= Len(order)
    BY <1>2
  <2> QED
    BY <1>1, <1>3, <2>1, <2>2, <2>3 DEF RegisteredInv
<1>6. FinalInv'
  BY <1>3 DEF FinalInv
<1> QED
  BY <1>1, <1>3, <1>4, <1>5, <1>6, LaterStep DEF ReadyPhases, StagedPhases

LEMMA FinalDrvsAreLinks ==
  ASSUME project \in Projects, project.mains # {}, NEW mains \in SetToSeqs(project.mains)
  PROVE  LinkedFrom(project, drv, FinalDrvs(mains))
<1> DEFINE c == Cardinality(project.mains)
           links == [i \in DOMAIN mains |-> LinkDrv(project, mains[i], drv)]
<1>1. project.mains \subseteq Listed(project) /\ IsFiniteSet(project.mains)
  BY ListedFacts, GraphOf, FS_Subset DEF ProjectType
<1>2. c \in Nat \ {0}
  BY <1>1, FS_CardinalityType, FS_EmptySet
<1>3. mains \in [1..c -> project.mains]
  BY DEF SetToSeqs
<1> HIDE DEF c
<1>4. /\ links \in Seq({LinkDrv(project, p, drv) : p \in project.mains})
      /\ Len(links) = c /\ \A i \in 1..c : links[i] = LinkDrv(project, mains[i], drv)
  BY <1>2, <1>3
<1>5. \A i \in 1..c : \E p \in Listed(project) : links[i] = LinkDrv(project, p, drv)
  BY <1>1, <1>3, <1>4
<1>6. FinalDrvs(mains) = IF Len(links) = 1 THEN links ELSE Append(links, CollectorDrv(links))
  BY DEF FinalDrvs
<1> HIDE DEF links
<1>7. DOMAIN links = 1..c
  BY <1>2, <1>4
<1>8. CASE Len(links) = 1
  BY <1>2, <1>4, <1>5, <1>6, <1>7, <1>8 DEF LinkedFrom
<1>9. CASE Len(links) # 1
  <2> DEFINE col == CollectorDrv(links)
             fs == Append(links, col)
  <2>1. /\ Len(fs) = c + 1 /\ DOMAIN fs = 1..c + 1 /\ fs[c + 1] = col
        /\ \A i \in 1..c : fs[i] = links[i]
    BY <1>2, <1>4
  <2>2. col.kind = "collect" /\ col.deps = {links[i] : i \in 1..c}
    BY <1>7 DEF CollectorDrv
  <2> HIDE DEF fs, col
  <2>3. \A e \in col.deps : \E j \in 1..c + 1 : j < c + 1 /\ e = fs[j]
    BY <1>2, <2>1, <2>2
  <2>4. ASSUME NEW i \in 1..c + 1
        PROVE  \/ \E p \in Listed(project) : fs[i] = LinkDrv(project, p, drv)
               \/ /\ fs[i].kind = "collect"
                  /\ \A e \in fs[i].deps : \E j \in 1..c + 1 : j < i /\ e = fs[j]
    <3>1. CASE i \in 1..c
      BY <1>5, <2>1, <3>1
    <3>2. CASE i = c + 1
      BY <2>1, <2>2, <2>3, <3>2
    <3> QED
      BY <1>2, <3>1, <3>2
  <2>5. c + 1 \in Nat \ {0}
    BY <1>2
  <2>6. LinkedFrom(project, drv, fs)
    BY <2>1, <2>4, <2>5 DEF LinkedFrom
  <2> QED
    BY <1>6, <1>9, <2>6 DEF fs, col
<1> QED
  BY <1>8, <1>9

LEMMA BuildFinalKeeps == ResolveInv /\ BuildFinal => ResolveInv'
<1> SUFFICES ASSUME ResolveInv, BuildFinal PROVE ResolveInv'
  OBVIOUS
<1>1. phase = "register" /\ n = Len(order) /\ project \in Projects
  BY DEF BuildFinal, ResolveInv, RunInv
<1>2. CASE Stop("no main")
  BY <1>2, ReturnKeeps DEF Stop
<1>3. CASE /\ project.mains # {}
           /\ \E mains \in SetToSeqs(project.mains) :
                InOrder(mains) /\ finals' = FinalDrvs(mains)
           /\ GoTo("finals")
           /\ UNCHANGED <<store, todo, order, drv, cacheVars>>
  <2>1. /\ phase' = "finals" /\ n' = 0 /\ store' = store
        /\ UNCHANGED <<project, lock, outcome, order, drv, cacheVars, meta>>
    BY <1>3 DEF GoTo, cacheVars
  <2>2. LinkedFrom(project, drv, finals')
    BY <1>1, <1>3, FinalDrvsAreLinks
  <2>3. FinalInv'
    BY <2>1, <2>2 DEF FinalInv, LinkedFrom
  <2>4. SortedInv' /\ StagedInv' /\ DrvInv'
    BY <1>1, <2>1, SpecifiedKeeps DEF SpecifiedPhases
  <2>5. \A p \in Listed(project) : drv[p] \in store
    BY <1>1, OrderRight DEF ResolveInv, RegisteredInv, SortedPhases
  <2>6. RegisteredInv'
    BY <2>1, <2>5 DEF RegisteredInv
  <2> QED
    BY <1>1, <2>1, <2>3, <2>4, <2>6, LaterStep DEF ReadyPhases, StagedPhases
<1> QED
  BY <1>2, <1>3 DEF BuildFinal

LEMMA RegisterFinalKeeps == ResolveInv /\ RegisterFinal => ResolveInv'
<1> SUFFICES ASSUME ResolveInv, RegisterFinal PROVE ResolveInv'
  OBVIOUS
<1>1. /\ phase = "finals" /\ n < Len(finals) /\ n \in Nat /\ project \in Projects
      /\ LinkedFrom(project, drv, finals) /\ \A i \in 1..n : finals[i] \in store
      /\ \A p \in Listed(project) : drv[p] \in store
  BY DEF RegisterFinal, ResolveInv, RunInv, FinalInv, RegisteredInv
<1>2. n + 1 \in 1..Len(finals)
  BY <1>1 DEF LinkedFrom
<1>3. References(finals[n + 1]) \subseteq store
  <2>1. CASE \E p \in Listed(project) : finals[n + 1] = LinkDrv(project, p, drv)
    <3>1. PICK p \in Listed(project) : finals[n + 1] = LinkDrv(project, p, drv)
      BY <2>1
    <3>2. References(finals[n + 1]) = {drv[q] : q \in TransitiveClosure(project, p)}
      BY <3>1 DEF References, IsDrv, LinkDrv
    <3> QED
      BY <1>1, <3>2, ClosureFacts
  <2>2. CASE /\ finals[n + 1].kind = "collect"
             /\ \A e \in finals[n + 1].deps :
                  \E j \in 1..Len(finals) : j < n + 1 /\ e = finals[j]
    <3>1. References(finals[n + 1]) = finals[n + 1].deps
      BY <2>2 DEF References, IsDrv
    <3>2. \A j \in 1..Len(finals) : j < n + 1 => j \in 1..n
      BY <1>1 DEF LinkedFrom
    <3> QED
      BY <1>1, <2>2, <3>1, <3>2
  <2> QED
    BY <1>1, <1>2, <2>1, <2>2 DEF LinkedFrom
<1>4. /\ phase' = "finals" /\ n' = n + 1 /\ store' = store \cup {finals[n + 1]}
      /\ UNCHANGED <<project, lock, outcome, order, drv, finals, cacheVars, meta>>
  BY <1>1, <1>3 DEF RegisterFinal, DerivationAdd, Refused, Stay, cacheVars
<1>5. SortedInv' /\ StagedInv' /\ DrvInv'
  BY <1>1, <1>4, SpecifiedKeeps DEF SpecifiedPhases
<1>6. RegisteredInv'
  BY <1>1, <1>4 DEF RegisteredInv
<1>7. FinalInv'
  <2>1. \A i \in 1..n + 1 : i \in 1..n \/ i = n + 1
    BY <1>1
  <2>2. n + 1 <= Len(finals)
    BY <1>2
  <2>3. LinkedFrom(project', drv', finals')
    BY <1>1, <1>4
  <2>4. \A i \in 1..n + 1 : finals[i] \in store'
    BY <1>1, <1>4, <2>1
  <2> QED
    BY <1>4, <2>2, <2>3, <2>4 DEF FinalInv
<1> QED
  BY <1>1, <1>4, <1>5, <1>6, <1>7, LaterStep DEF ReadyPhases, StagedPhases

LEMMA WriteOutKeeps == ResolveInv /\ WriteOut => ResolveInv'
<1> SUFFICES ASSUME ResolveInv, WriteOut PROVE ResolveInv'
  OBVIOUS
<1>1. /\ phase = "finals" /\ n = Len(finals) /\ LinkedFrom(project, drv, finals)
      /\ \A i \in 1..n : finals[i] \in store
  BY DEF WriteOut, ResolveInv, FinalInv
<1>2. finals[n] \in store
  BY <1>1 DEF LinkedFrom
<1>3. Return("ok")
  BY <1>2 DEF WriteOut
<1> QED
  BY <1>3, ReturnKeeps

LEMMA StutterKeeps == ResolveInv /\ UNCHANGED vars => ResolveInv'
<1> SUFFICES ASSUME ResolveInv, UNCHANGED vars PROVE ResolveInv'
  OBVIOUS
<1>1. UNCHANGED <<project, lock, phase, outcome, store, order, n, drv, finals, place, at,
                  files, meta>>
  BY DEF vars, local, cacheVars
<1>2. RunInv' /\ BuiltInv' /\ SortedInv' /\ StagedInv'
  BY <1>1 DEF ResolveInv, RunInv, BuiltInv, SortedInv, Readable, StagedInv, SourceAdded
<1>3. CacheInv' /\ ReadyInv'
  BY <1>1 DEF ResolveInv, CacheInv, ReadyInv, CacheHolds, Mirrored, HasFilesBefore
<1>4. DrvInv' /\ RegisteredInv' /\ FinalInv' /\ OnlyForACause' /\ LockErrorIsEarned'
  BY <1>1 DEF ResolveInv, DrvInv, RegisteredInv, FinalInv, OnlyForACause, LockErrorIsEarned
<1> QED
  BY <1>2, <1>3, <1>4 DEF ResolveInv

LEMMA NextResolveInv == ResolveInv /\ [Next]_vars => ResolveInv'
<1> SUFFICES ASSUME ResolveInv, Next PROVE ResolveInv'
  BY StutterKeeps
<1>1. CASE Begin
  BY <1>1, BeginKeeps
<1>2. CASE CollectGarbage
  BY <1>2, CollectGarbageKeeps
<1>3. CASE Faulted
  BY <1>3, FaultedKeeps
<1>4. CASE \E k \in todo : RegisterModule(k)
  BY <1>4, RegisterModuleKeeps
<1>5. CASE BuildModules
  BY <1>5, BuildModulesKeeps
<1>6. CASE FillCache \/ CacheFault
  BY <1>6, FillCacheKeeps
<1>7. CASE WaitCache
  BY <1>7, WaitCacheKeeps
<1>8. CASE ListPackages
  BY <1>8, ListPackagesKeeps
<1>9. CASE StageNext \/ StageEnd
  BY <1>9, StageKeeps
<1>10. CASE SpecifyNext \/ SpecifyEnd
  BY <1>10, SpecifyKeeps
<1>11. CASE RegisterNext
  BY <1>11, RegisterNextKeeps
<1>12. CASE BuildFinal
  BY <1>12, BuildFinalKeeps
<1>13. CASE RegisterFinal
  BY <1>13, RegisterFinalKeeps
<1>14. CASE WriteOut
  BY <1>14, WriteOutKeeps
<1> QED
  BY <1>1, <1>2, <1>3, <1>4, <1>5, <1>6, <1>7, <1>8, <1>9, <1>10, <1>11, <1>12, <1>13,
     <1>14 DEF Next

LEMMA ResolveInvImplies == ResolveInv => GoListSeesTrees /\ LinkConsistent
<1> SUFFICES ASSUME ResolveInv PROVE GoListSeesTrees /\ LinkConsistent
  OBVIOUS
<1>1. GoListSeesTrees
  <2> SUFFICES ASSUME phase \notin {"idle", "modules", "cache"}, NEW k \in DOMAIN lock.mod
               PROVE  LET t == Fod(lock, k).fetch IN
                        /\ t \in meta
                        /\ \A f \in File :
                             <<t, f>> \in DOMAIN files /\ lock.mod[files[<<t, f>>]] = t
    BY DEF GoListSeesTrees
  <2>1. phase \in ReadyPhases
    BY DEF ResolveInv, RunInv, Phases, ReadyPhases
  <2>2. Fod(lock, k).fetch = lock.mod[k]
    BY <2>1 DEF ResolveInv, BuiltInv, ReadyPhases, BuiltPhases
  <2>3. /\ CacheHolds /\ lock.mod[k] \in meta
        /\ HasFilesBefore(lock.mod[k], NFiles + 1)
    BY <2>1 DEF ResolveInv, ReadyInv
  <2>4. ASSUME NEW f \in File
        PROVE  /\ <<lock.mod[k], f>> \in DOMAIN files
               /\ lock.mod[files[<<lock.mod[k], f>>]] = lock.mod[k]
    <3>1. f < NFiles + 1
      BY NFilesNat DEF File
    <3>2. <<lock.mod[k], f>> \in DOMAIN files
      BY <2>3, <3>1 DEF HasFilesBefore
    <3> QED
      BY <2>3, <3>2 DEF CacheHolds
  <2> QED
    BY <2>2, <2>3, <2>4
<1>2. LinkConsistent
  <2> SUFFICES ASSUME NEW i \in DOMAIN finals, finals[i].kind = "link"
               PROVE  /\ \A d \in finals[i].deps : d.deps \subseteq finals[i].deps
                      /\ \A d, e \in finals[i].deps : d.pkg = e.pkg => d = e
                      /\ \E d \in finals[i].deps : d.pkg = finals[i].pkg
    BY DEF LinkConsistent
  <2>1. phase = "finals"
    BY DEF ResolveInv, RunInv
  <2>2. /\ project \in Projects /\ LinkedFrom(project, drv, finals)
        /\ DOMAIN drv = Listed(project)
        /\ \A p \in DOMAIN drv : drv[p] = PackageDrv(project, lock, p, drv)
    BY <2>1 DEF ResolveInv, RunInv, FinalInv, DrvInv, StagedPhases, SpecifiedPhases
  <2>3. PICK p \in Listed(project) : finals[i] = LinkDrv(project, p, drv)
    BY <2>2 DEF LinkedFrom
  <2> DEFINE T == TransitiveClosure(project, p)
  <2>4. p \in T /\ T \subseteq Listed(project) /\ ClosedUnder(T, Imports(project))
    BY <2>2, ClosureFacts
  <2>5. finals[i].deps = {drv[q] : q \in T} /\ finals[i].pkg = p
    BY <2>3 DEF LinkDrv
  <2> HIDE DEF T
  <2>6. \A q \in T : drv[q].pkg = q /\ drv[q].deps = {drv[r] : r \in Imports(project)[q]}
    BY <2>2, <2>4 DEF PackageDrv
  <2>7. ASSUME NEW q \in T PROVE drv[q].deps \subseteq {drv[r] : r \in T}
    BY <2>4, <2>6 DEF ClosedUnder
  <2> QED
    BY <2>4, <2>5, <2>6, <2>7
<1> QED
  BY <1>1, <1>2

\* A run of resolve never fails by a mistake of its own: every derivation is
\* added after all it refers to, whatever earlier runs left in the store.
THEOREM FailsOnlyForACause == Spec => []OnlyForACause
<1>1. ResolveInv => OnlyForACause
  BY DEF ResolveInv
<1> QED
  BY <1>1, InitResolveInv, NextResolveInv, PTL DEF Spec

\* A lockfile that has what go.mod selects is never called stale.
THEOREM StaleLocksOnly == Spec => []LockErrorIsEarned
<1>1. ResolveInv => LockErrorIsEarned
  BY DEF ResolveInv
<1> QED
  BY <1>1, InitResolveInv, NextResolveInv, PTL DEF Spec

\* Once go list may run, the cache has every module of the lockfile with all
\* its files, in whichever order its goroutines ran and however many share a
\* place.
THEOREM CacheIsComplete == Spec => []GoListSeesTrees
  BY InitResolveInv, NextResolveInv, ResolveInvImplies, PTL DEF Spec

\* A binary is linked from a closed set with one archive of each package.
THEOREM LinksAreClosed == Spec => []LinkConsistent
  BY InitResolveInv, NextResolveInv, ResolveInvImplies, PTL DEF Spec

-----------------------------------------------------------------------------
(***************************************************************************)
(* What a lockfile adds that has each tree under the key it is wanted for. *)
(***************************************************************************)
LEMMA SourcesAreListed ==
  ASSUME KeyedByRequirement, ResolveInv, phase \in SortedPhases, NEW p \in Listed(project)
  PROVE  SourceOf(project, lock, p) = ListedSource(project, p)
<1>1. CASE p \in Local
  BY <1>1 DEF SourceOf, ListedSource
<1>2. CASE p \notin Local
  <2> DEFINE k == Key(project.gomod, Owner[p])
             wanted == CollectGoModModules(project.gomod)
  <2>1. project \in Projects /\ lock \in Locks[project]
    BY DEF ResolveInv, RunInv, SortedPhases
  <2>2. p \in Foreign
    BY <1>2, <2>1, ListedFacts, GraphOf DEF Package
  <2>3. k \in DOMAIN wanted /\ wanted[k] = ListedTree(project, p)
    <3>1. Owner[p] \in Fetched(project.gomod) /\ k[1] = Owner[p]
      BY <2>1, <2>2, ListedFacts DEF Key
    <3> QED
      BY <3>1 DEF CollectGoModModules, ListedTree
  <2>4. k \in DOMAIN lock.mod /\ ListedTree(project, p) \in meta
    BY <2>2 DEF ResolveInv, SortedInv, Readable
  <2>5. \E l \in DOMAIN lock.mod : lock.mod[l] = ListedTree(project, p)
    BY <2>4 DEF ResolveInv, ReadyInv, CacheHolds, SortedPhases, ReadyPhases
  <2> HIDE DEF k
  <2>6. lock.mod[k] = ListedTree(project, p)
    BY <2>1, <2>3, <2>4, <2>5 DEF KeyedByRequirement
  <2> QED
    BY <1>2, <2>6 DEF SourceOf, FodOutput, ListedSource, k
<1> QED
  BY <1>1, <1>2

LEMMA DrvsAreListed ==
  ASSUME KeyedByRequirement, ResolveInv, phase \in SpecifiedPhases
  PROVE  ListedDrvs(project, drv)
<1>1. /\ DOMAIN drv = Listed(project)
      /\ \A p \in DOMAIN drv : drv[p] = PackageDrv(project, lock, p, drv)
  BY DEF ResolveInv, DrvInv, SpecifiedPhases, StagedPhases
<1>2. \A p \in Listed(project) : SourceOf(project, lock, p) = ListedSource(project, p)
  BY SourcesAreListed DEF SpecifiedPhases, SortedPhases
<1> QED
  BY <1>1, <1>2 DEF ListedDrvs, ListedDrv, PackageDrv

LEMMA LastKeeps ==
  ASSUME KeyedByRequirement, ResolveInv, LastInv, [Next]_vars
  PROVE  LastInv'
<1>1. CASE last' = last
  BY <1>1 DEF LastInv
<1>2. CASE WriteOut
  <2>1. CASE last' = {[project |-> project, drv |-> drv, finals |-> finals]}
    <3>1. /\ project \in Projects /\ ListedDrvs(project, drv)
          /\ LinkedFrom(project, drv, finals)
      BY <1>2, DrvsAreListed DEF WriteOut, ResolveInv, RunInv, FinalInv, SpecifiedPhases
    <3> QED
      BY <2>1, <3>1 DEF LastInv
  <2> QED
    BY <1>1, <1>2, <2>1 DEF WriteOut, Stop
<1>3. CASE UNCHANGED vars
  BY <1>1, <1>3 DEF vars
<1>4. CASE Next /\ ~WriteOut
  <2>1. CASE Begin \/ CollectGarbage \/ Faulted \/ CacheFault
    BY <1>1, <2>1 DEF Begin, CollectGarbage, Faulted, CacheFault
  <2>2. CASE \E k \in todo : RegisterModule(k)
    BY <1>1, <2>2 DEF RegisterModule, Stay
  <2>3. CASE BuildModules \/ FillCache \/ WaitCache \/ ListPackages \/ StageNext \/ StageEnd
    BY <1>1, <2>3 DEF BuildModules, FillCache, WaitCache, ListPackages, StageNext, StageEnd,
                      Stop, GoTo, Stay
  <2>4. CASE SpecifyNext \/ SpecifyEnd \/ RegisterNext \/ BuildFinal \/ RegisterFinal
    BY <1>1, <2>4 DEF SpecifyNext, SpecifyEnd, RegisterNext, BuildFinal, RegisterFinal,
                      Refused, Stop, GoTo, Stay
  <2> QED
    BY <1>4, <2>1, <2>2, <2>3, <2>4 DEF Next
<1> QED
  BY <1>2, <1>3, <1>4

LEMMA LastInvImplies ==
  ASSUME KeyedByRequirement, ResolveInv, LastInv
  PROVE  SourceIsListed /\ RebuiltIffChanged /\ RelinkedIffChanged
<1>1. ASSUME Building PROVE project \in Projects /\ ListedDrvs(project, drv)
  BY <1>1, DrvsAreListed DEF Building, SpecifiedPhases, ResolveInv, RunInv
<1>2. SourceIsListed
  <2> SUFFICES ASSUME Building, NEW p \in DOMAIN drv \cap Foreign
               PROVE  drv[p].src.hash = ListedTree(project, p)
    BY DEF SourceIsListed
  <2>1. drv[p] = ListedDrv(project, p, drv) /\ p \notin Local
    BY <1>1, PackageAssumption DEF ListedDrvs
  <2> QED
    BY <2>1 DEF ListedDrv, ListedSource
<1>3. RebuiltIffChanged
  <2> SUFFICES ASSUME Building, NEW l \in last, NEW p \in DOMAIN drv \cap DOMAIN l.drv
               PROVE  drv[p] = l.drv[p] <=> Depends(project, p) = Depends(l.project, p)
    BY DEF RebuiltIffChanged
  <2>1. l.project \in Projects /\ ListedDrvs(l.project, l.drv)
    BY DEF LastInv
  <2>2. p \in Listed(project) \cap Listed(l.project)
    BY <1>1, <2>1 DEF ListedDrvs
  <2> QED
    BY <1>1, <2>1, <2>2, SameDerivation
<1>4. RelinkedIffChanged
  <2> SUFFICES ASSUME NEW l \in last, NEW i \in DOMAIN finals, NEW j \in DOMAIN l.finals,
                      finals[i].kind = "link", l.finals[j].kind = "link",
                      finals[i].pkg = l.finals[j].pkg
               PROVE  finals[i] = l.finals[j] <=>
                        /\ Depends(project, finals[i].pkg) = Depends(l.project, finals[i].pkg)
                        /\ BinaryName(project, finals[i].pkg) = BinaryName(l.project, finals[i].pkg)
                        /\ Modinfo(project) = Modinfo(l.project)
    BY DEF RelinkedIffChanged
  <2>1. phase = "finals"
    BY DEF ResolveInv, RunInv
  <2>2. LinkedFrom(project, drv, finals) /\ Building
    BY <2>1 DEF ResolveInv, FinalInv, Building
  <2>3. PICK p \in Listed(project) : finals[i] = LinkDrv(project, p, drv)
    BY <2>2 DEF LinkedFrom
  <2>4. /\ l.project \in Projects /\ ListedDrvs(l.project, l.drv)
        /\ LinkedFrom(l.project, l.drv, l.finals)
    BY DEF LastInv
  <2>5. PICK q \in Listed(l.project) : l.finals[j] = LinkDrv(l.project, q, l.drv)
    BY <2>4 DEF LinkedFrom
  <2>6. finals[i].pkg = p /\ p = q
    BY <2>3, <2>5 DEF LinkDrv
  <2> QED
    BY <1>1, <2>2, <2>3, <2>4, <2>5, <2>6, SameLink
<1> QED
  BY <1>2, <1>3, <1>4

\* Every package of another module is compiled from the tree go list read; the
\* run resolve_merge shows that the condition on the lockfiles is needed.
THEOREM CompilesWhatIsListed == KeyedByRequirement /\ Spec => []SourceIsListed
<1> SUFFICES ASSUME KeyedByRequirement PROVE Spec => []SourceIsListed
  OBVIOUS
<1>1. Init => ResolveInv /\ LastInv
  BY InitResolveInv DEF Init, LastInv
<1>2. ResolveInv /\ LastInv /\ [Next]_vars => (ResolveInv /\ LastInv)'
  BY NextResolveInv, LastKeeps
<1>3. ResolveInv /\ LastInv => SourceIsListed
  BY LastInvImplies
<1> QED
  BY <1>1, <1>2, <1>3, PTL DEF Spec

\* Between two runs that succeed, whatever failed or was deleted in between, a
\* package's derivation changes exactly if what it is compiled from did.
THEOREM RebuildsWhatChanged == KeyedByRequirement /\ Spec => []RebuiltIffChanged
<1> SUFFICES ASSUME KeyedByRequirement PROVE Spec => []RebuiltIffChanged
  OBVIOUS
<1>1. Init => ResolveInv /\ LastInv
  BY InitResolveInv DEF Init, LastInv
<1>2. ResolveInv /\ LastInv /\ [Next]_vars => (ResolveInv /\ LastInv)'
  BY NextResolveInv, LastKeeps
<1>3. ResolveInv /\ LastInv => RebuiltIffChanged
  BY LastInvImplies
<1> QED
  BY <1>1, <1>2, <1>3, PTL DEF Spec

\* And that of a binary exactly if something it is linked from, its name or
\* the recorded list of modules did.
THEOREM RelinksWhatChanged == KeyedByRequirement /\ Spec => []RelinkedIffChanged
<1> SUFFICES ASSUME KeyedByRequirement PROVE Spec => []RelinkedIffChanged
  OBVIOUS
<1>1. Init => ResolveInv /\ LastInv
  BY InitResolveInv DEF Init, LastInv
<1>2. ResolveInv /\ LastInv /\ [Next]_vars => (ResolveInv /\ LastInv)'
  BY NextResolveInv, LastKeeps
<1>3. ResolveInv /\ LastInv => RelinkedIffChanged
  BY LastInvImplies
<1> QED
  BY <1>1, <1>2, <1>3, PTL DEF Spec

-----------------------------------------------------------------------------
(***************************************************************************)
(* toposort.Sort, for any graph: the order that Resolve and the test       *)
(* runner take for granted is what the depth-first visit comes to.         *)
(***************************************************************************)
SortType ==
  /\ depsOf \in [SortKeys -> SUBSET SortKeys] /\ nodes \in SUBSET SortKeys
  /\ state \in [SortKeys -> {"unvisited", "visiting", "visited"}]
  /\ visits \in Seq(SortKeys) /\ sorted \in Seq(nodes)
  /\ verdict \in {"none", "sorted", "cycle"}

\* What is being visited is a path that begins at a node; it does not come
\* twice to a key.
VisitsInv ==
  /\ \A i, j \in 1..Len(visits) :
       i < j => visits[j] \in Above[visits[i]] /\ visits[i] # visits[j]
  /\ \A k \in SortKeys : state[k] = "visiting" <=> \E i \in 1..Len(visits) : visits[i] = k
  /\ \A k \in SortKeys : state[k] # "unvisited" => k \in Reach(nodes, depsOf)

\* What was visited is closed under dependencies, and without a cycle.
VisitedInv ==
  \A k \in SortKeys : state[k] = "visited" =>
    k \notin Above[k] /\ \A d \in depsOf[k] : state[d] = "visited"

\* The nodes among it are listed, each once and after what it depends on.
ResultInv ==
  /\ \A k \in nodes : state[k] = "visited" <=> \E i \in 1..Len(sorted) : sorted[i] = k
  /\ \A i, j \in 1..Len(sorted) : i # j => sorted[i] # sorted[j]
  /\ \A i, j \in 1..Len(sorted) : sorted[j] \in Above[sorted[i]] => j < i

VerdictInv ==
  /\ verdict = "cycle" => Cyclic /\ sorted = <<>>
  /\ verdict = "sorted" => \A k \in nodes : state[k] = "visited"

SortInv ==
  /\ SortType /\ VisitedInv /\ VerdictInv
  /\ verdict # "cycle" => VisitsInv /\ ResultInv

\* Above is the least closed set with the dependencies, as Reach is of nodes.
LEMMA AboveFacts ==
  ASSUME SortType, NEW k \in SortKeys
  PROVE  /\ depsOf[k] \subseteq Above[k]
         /\ Above[k] \subseteq SortKeys
         /\ ClosedUnder(Above[k], depsOf)
         /\ \A C : depsOf[k] \subseteq C /\ ClosedUnder(C, depsOf) => Above[k] \subseteq C
<1>1. /\ DOMAIN depsOf = SortKeys /\ IsFiniteSet(SortKeys)
      /\ ClosedUnder(SortKeys, depsOf) /\ depsOf[k] \subseteq SortKeys
  BY SortAssumption DEF SortType, ClosedUnder
<1> DEFINE R == Reach(depsOf[k], depsOf)
<1>2. /\ depsOf[k] \subseteq R /\ R \subseteq SortKeys /\ ClosedUnder(R, depsOf)
      /\ \A C : depsOf[k] \subseteq C /\ ClosedUnder(C, depsOf) => R \subseteq C
  BY <1>1, ReachFacts
<1> HIDE DEF R
<1>3. Above[k] = R
  BY DEF Above, R
<1> QED
  BY <1>2, <1>3

LEMMA NodesReach ==
  ASSUME SortType
  PROVE  /\ nodes \subseteq Reach(nodes, depsOf)
         /\ Reach(nodes, depsOf) \subseteq SortKeys
         /\ ClosedUnder(Reach(nodes, depsOf), depsOf)
         /\ \A C : nodes \subseteq C /\ ClosedUnder(C, depsOf) => Reach(nodes, depsOf) \subseteq C
<1>1. /\ DOMAIN depsOf = SortKeys /\ IsFiniteSet(SortKeys)
      /\ ClosedUnder(SortKeys, depsOf) /\ nodes \subseteq SortKeys
  BY SortAssumption DEF SortType, ClosedUnder
<1> DEFINE R == Reach(nodes, depsOf)
<1>2. /\ nodes \subseteq R /\ R \subseteq SortKeys /\ ClosedUnder(R, depsOf)
      /\ \A C : nodes \subseteq C /\ ClosedUnder(C, depsOf) => R \subseteq C
  BY <1>1, ReachFacts
<1> QED
  BY <1>2

\* The next key is one of those that remain.
LEMMA NextKey ==
  ASSUME SortType, Remaining # {}
  PROVE  /\ Min(Remaining) \in Remaining
         /\ Min(Remaining) \in SortKeys
         /\ state[Min(Remaining)] # "visited"
         /\ visits = <<>> => Min(Remaining) \in nodes
         /\ visits # <<>> => Min(Remaining) \in depsOf[visits[Len(visits)]]
<1>1. visits # <<>> => Len(visits) \in 1..Len(visits) /\ visits[Len(visits)] \in SortKeys
  BY DEF SortType
<1>2. Remaining \subseteq SortKeys
  BY <1>1 DEF Remaining, Last, SortType
<1>3. \E m \in Remaining : \A k \in Remaining : m <= k
  BY <1>2, SortAssumption, LeastNumber
<1>4. Min(Remaining) \in Remaining
  BY <1>3 DEF Min
<1>5. /\ Min(Remaining) \in IF visits = <<>> THEN nodes ELSE depsOf[Last(visits)]
      /\ state[Min(Remaining)] # "visited"
  BY <1>4 DEF Remaining
<1> QED
  BY <1>2, <1>4, <1>5 DEF Last

\* Nothing but the marks, the visits, the result and the verdict changes.
LEMMA GraphStays ==
  ASSUME SortNext \/ UNCHANGED sortVars
  PROVE  /\ depsOf' = depsOf /\ nodes' = nodes /\ Above' = Above
         /\ Reach(nodes, depsOf)' = Reach(nodes, depsOf)
<1>1. depsOf' = depsOf /\ nodes' = nodes
  BY DEF SortNext, Enter, MeetCycle, Leave, Finish, SortEnded, sortVars
<1> QED
  BY <1>1 DEF Above

LEMMA SortInitInv ==
  ASSUME SortInit
  PROVE  SortInv
<1>1. SortType
  BY SortAssumption DEF SortInit, SortType
<1>2. Len(visits) = 0 /\ Len(sorted) = 0 /\ \A k \in SortKeys : state[k] = "unvisited"
  BY DEF SortInit
<1>3. verdict = "none" /\ nodes \subseteq SortKeys
  BY <1>1 DEF SortInit, SortType
<1> QED
  BY <1>1, <1>2, <1>3 DEF SortInv, VisitedInv, VerdictInv, VisitsInv, ResultInv

LEMMA EnterKeeps ==
  ASSUME SortInv, Enter
  PROVE  SortInv'
<1> DEFINE key == Min(Remaining)
           l == Len(visits)
<1>1. /\ SortType /\ VisitedInv /\ VisitsInv /\ ResultInv /\ verdict = "none"
      /\ Remaining # {} /\ state[key] = "unvisited"
      /\ state' = [state EXCEPT ![key] = "visiting"]
      /\ visits' = Append(visits, key)
      /\ sorted' = sorted /\ verdict' = "none"
  BY DEF SortInv, Enter
<1>2. depsOf' = depsOf /\ nodes' = nodes /\ Above' = Above /\ Reach(nodes, depsOf)' = Reach(nodes, depsOf)
  BY GraphStays DEF SortNext
<1>3. /\ key \in SortKeys
      /\ visits = <<>> => key \in nodes
      /\ visits # <<>> => key \in depsOf[visits[l]]
  BY <1>1, NextKey
<1> HIDE DEF key
<1>4. /\ \A k \in SortKeys : state'[k] = IF k = key THEN "visiting" ELSE state[k]
      /\ state' \in [SortKeys -> {"unvisited", "visiting", "visited"}]
  BY <1>1, <1>3 DEF SortType
<1>5. /\ visits' \in Seq(SortKeys) /\ Len(visits') = l + 1 /\ visits'[l + 1] = key /\ l \in Nat
      /\ \A i \in 1..l : visits'[i] = visits[i] /\ visits[i] \in SortKeys
  BY <1>1, <1>3 DEF SortType
<1>6. SortType'
  BY <1>1, <1>2, <1>4, <1>5 DEF SortType
<1>7. VisitedInv'
  BY <1>1, <1>2, <1>4 DEF VisitedInv, SortType
<1>8. VisitsInv'
  <2>1. ASSUME NEW i \in 1..l PROVE key \in Above[visits[i]] /\ visits[i] # key
    <3>1. visits # <<>> /\ l \in 1..l /\ visits[i] \in SortKeys /\ visits[l] \in SortKeys
      BY <1>1, <1>5, <2>1 DEF SortType
    <3>2. visits[l] \in Above[visits[i]] \/ l = i
      BY <1>1, <3>1 DEF VisitsInv
    <3>3. /\ depsOf[visits[i]] \subseteq Above[visits[i]]
          /\ ClosedUnder(Above[visits[i]], depsOf)
      BY <1>1, <3>1, AboveFacts
    <3>4. key \in Above[visits[i]]
      BY <1>3, <3>1, <3>2, <3>3 DEF ClosedUnder
    <3>5. state[visits[i]] = "visiting"
      BY <1>1, <3>1 DEF VisitsInv
    <3> QED
      BY <1>1, <3>4, <3>5
  <2>2. \A i, j \in 1..l + 1 : i < j => visits'[j] \in Above[visits'[i]] /\ visits'[i] # visits'[j]
    BY <1>1, <1>5, <2>1 DEF VisitsInv
  <2>3. ASSUME NEW k \in SortKeys
        PROVE  state'[k] = "visiting" <=> \E i \in 1..l + 1 : visits'[i] = k
    <3>1. CASE k = key
      BY <1>4, <1>5, <3>1
    <3>2. CASE k # key
      BY <1>1, <1>4, <1>5, <3>2 DEF VisitsInv
    <3> QED
      BY <3>1, <3>2
  <2>4. key \in Reach(nodes, depsOf)
    <3>1. CASE visits = <<>>
      BY <1>1, <1>3, <3>1, NodesReach
    <3>2. CASE visits # <<>>
      <4>1. l \in 1..l /\ visits[l] \in SortKeys
        BY <1>1, <3>2 DEF SortType
      <4>2. state[visits[l]] = "visiting"
        BY <1>1, <4>1 DEF VisitsInv
      <4>3. visits[l] \in Reach(nodes, depsOf)
        BY <1>1, <4>1, <4>2 DEF VisitsInv
      <4> QED
        BY <1>1, <1>3, <3>2, <4>3, NodesReach DEF ClosedUnder
    <3> QED
      BY <3>1, <3>2
  <2>5. \A k \in SortKeys : state'[k] # "unvisited" => k \in Reach(nodes, depsOf)
    BY <1>1, <1>4, <2>4 DEF VisitsInv
  <2> QED
    BY <1>2, <1>5, <2>2, <2>3, <2>5 DEF VisitsInv
<1>9. ResultInv'
  <2>1. \A k \in nodes : k \in SortKeys /\ (state'[k] = "visited" <=> state[k] = "visited")
    BY <1>1, <1>4 DEF SortType
  <2> QED
    BY <1>1, <1>2, <2>1 DEF ResultInv
<1>10. VerdictInv'
  BY <1>1 DEF VerdictInv
<1> QED
  BY <1>6, <1>7, <1>8, <1>9, <1>10 DEF SortInv

\* The key is on a cycle: what it depends on leads to the innermost visit, and
\* that to the key.
LEMMA MeetCycleKeeps ==
  ASSUME SortInv, MeetCycle
  PROVE  SortInv'
<1> DEFINE key == Min(Remaining)
           l == Len(visits)
<1>1. /\ SortType /\ VisitedInv /\ VisitsInv /\ verdict = "none"
      /\ Remaining # {} /\ state[key] = "visiting"
      /\ state' = state /\ visits' = <<>> /\ sorted' = <<>> /\ verdict' = "cycle"
  BY DEF SortInv, MeetCycle
<1>2. depsOf' = depsOf /\ nodes' = nodes /\ Above' = Above /\ Reach(nodes, depsOf)' = Reach(nodes, depsOf)
  BY GraphStays DEF SortNext
<1>3. /\ key \in SortKeys
      /\ visits # <<>> => key \in depsOf[visits[l]]
  BY <1>1, NextKey
<1> HIDE DEF key
<1>4. PICK i \in 1..l : visits[i] = key
  BY <1>1, <1>3 DEF VisitsInv
<1>5. visits # <<>> /\ l \in 1..l /\ visits[l] \in SortKeys
  BY <1>1, <1>4 DEF SortType
<1>6. /\ depsOf[key] \subseteq Above[key]
      /\ ClosedUnder(Above[key], depsOf)
  BY <1>1, <1>3, AboveFacts
<1>7. key \in Above[key]
  <2>1. CASE i = l
    BY <1>3, <1>4, <1>5, <1>6, <2>1
  <2>2. CASE i # l
    <3>1. visits[l] \in Above[key]
      BY <1>1, <1>4, <1>5, <2>2 DEF VisitsInv
    <3> QED
      BY <1>3, <1>5, <1>6, <3>1 DEF ClosedUnder
  <2> QED
    BY <2>1, <2>2
<1>8. key \in Reach(nodes, depsOf)
  BY <1>1, <1>3 DEF VisitsInv
<1>9. Cyclic'
  BY <1>2, <1>7, <1>8 DEF Cyclic
<1>10. SortType'
  BY <1>1, <1>2 DEF SortType
<1>11. VisitedInv'
  BY <1>1, <1>2 DEF VisitedInv
<1> QED
  BY <1>1, <1>9, <1>10, <1>11 DEF SortInv, VerdictInv

\* All that the key depends on was visited, and with it all that is above it:
\* so the key is not above itself, and goes behind what is.
LEMMA LeaveKeeps ==
  ASSUME SortInv, Leave
  PROVE  SortInv'
<1> DEFINE key == visits[Len(visits)]
           l == Len(visits)
           s == Len(sorted)
<1>1. /\ SortType /\ VisitedInv /\ VisitsInv /\ ResultInv /\ verdict = "none"
      /\ Remaining = {} /\ visits # <<>>
      /\ state' = [state EXCEPT ![key] = "visited"]
      /\ sorted' = (IF key \in nodes THEN Append(sorted, key) ELSE sorted)
      /\ visits' = Front(visits) /\ verdict' = "none"
  BY DEF SortInv, Leave, Last
<1>2. depsOf' = depsOf /\ nodes' = nodes /\ Above' = Above /\ Reach(nodes, depsOf)' = Reach(nodes, depsOf)
  BY GraphStays DEF SortNext
<1>3. l \in Nat /\ l \in 1..l /\ key \in SortKeys /\ \A i \in 1..l : visits[i] \in SortKeys
  BY <1>1 DEF SortType
<1>4. /\ visits' \in Seq(SortKeys) /\ Len(visits') = l - 1
      /\ \A i \in 1..l - 1 : visits'[i] = visits[i]
  <2>1. visits' = SubSeq(visits, 1, l - 1)
    BY <1>1 DEF Front
  <2>2. l - 1 \in Int /\ \A i \in 1..l - 1 : i \in 1..l
    BY <1>3
  <2>3. \A i \in 1..l - 1 : visits[i] \in SortKeys
    BY <1>3, <2>2
  <2> HIDE DEF l
  <2>4. /\ visits' \in Seq(SortKeys)
        /\ Len(visits') = IF 1 <= l - 1 THEN (l - 1) - 1 + 1 ELSE 0
        /\ \A i \in 1..(l - 1) - 1 + 1 : visits'[i] = visits[1 + i - 1]
    BY <2>1, <2>2, <2>3, SubSeqProperties
  <2>5. \A i \in 1..l - 1 : i \in 1..(l - 1) - 1 + 1 /\ 1 + i - 1 = i
    BY <2>2
  <2> QED
    BY <1>3, <2>2, <2>4, <2>5
<1>5. state[key] = "visiting" /\ key \in Reach(nodes, depsOf)
  BY <1>1, <1>3 DEF VisitsInv
<1>6. \A d \in depsOf[key] : d \in SortKeys /\ state[d] = "visited"
  BY <1>1, <1>3 DEF Remaining, Last, SortType
<1> DEFINE V == {k \in SortKeys : state[k] = "visited"}
<1>7. ClosedUnder(V, depsOf) /\ depsOf[key] \subseteq V
  BY <1>1, <1>6 DEF ClosedUnder, VisitedInv, SortType
<1>8. /\ Above[key] \subseteq V
      /\ \A k \in V : Above[k] \subseteq V
  <2>1. Above[key] \subseteq V
    BY <1>1, <1>3, <1>7, AboveFacts
  <2>2. ASSUME NEW k \in V PROVE Above[k] \subseteq V
    <3>1. depsOf[k] \subseteq V
      BY <1>7 DEF ClosedUnder
    <3> QED
      BY <1>1, <1>7, <3>1, AboveFacts
  <2> QED
    BY <2>1, <2>2
<1>9. key \notin Above[key] /\ \A k \in V : key \notin Above[k]
  BY <1>5, <1>8
<1> HIDE DEF key
<1>10. /\ \A k \in SortKeys : state'[k] = IF k = key THEN "visited" ELSE state[k]
       /\ state' \in [SortKeys -> {"unvisited", "visiting", "visited"}]
  BY <1>1, <1>3 DEF SortType
<1>11. /\ s \in Nat /\ sorted' \in Seq(nodes)
       /\ key \in nodes => /\ Len(sorted') = s + 1 /\ sorted'[s + 1] = key
                           /\ \A i \in 1..s : sorted'[i] = sorted[i]
       /\ key \notin nodes => sorted' = sorted
  BY <1>1 DEF SortType
<1>12. \A i \in 1..s : sorted[i] \in nodes /\ sorted[i] \in V
  <2>1. \A i \in 1..s : sorted[i] \in nodes
    BY <1>1 DEF SortType
  <2> QED
    BY <1>1, <2>1 DEF ResultInv, SortType
<1>13. SortType'
  BY <1>1, <1>2, <1>4, <1>10, <1>11 DEF SortType
<1>14. VisitedInv'
  BY <1>1, <1>2, <1>6, <1>9, <1>10 DEF VisitedInv, SortType
<1>15. VisitsInv'
  <2>1. \A i, j \in 1..l - 1 : i < j => visits'[j] \in Above[visits'[i]] /\ visits'[i] # visits'[j]
    BY <1>1, <1>3, <1>4 DEF VisitsInv
  <2>2. \A i \in 1..l - 1 : visits[i] # key
    BY <1>1, <1>3 DEF VisitsInv, key
  <2>3. ASSUME NEW k \in SortKeys
        PROVE  state'[k] = "visiting" <=> \E i \in 1..l - 1 : visits'[i] = k
    <3>1. CASE k = key
      BY <1>4, <1>10, <2>2, <3>1
    <3>2. CASE k # key
      <4>1. state[k] = "visiting" <=> \E i \in 1..l : visits[i] = k
        BY <1>1 DEF VisitsInv
      <4>2. \A i \in 1..l : visits[i] = k => i \in 1..l - 1
        BY <1>3, <3>2 DEF key
      <4> QED
        BY <1>3, <1>4, <1>10, <3>2, <4>1, <4>2
    <3> QED
      BY <3>1, <3>2
  <2>4. \A k \in SortKeys : state'[k] # "unvisited" => k \in Reach(nodes, depsOf)
    BY <1>1, <1>5, <1>10 DEF VisitsInv
  <2> QED
    BY <1>2, <1>4, <2>1, <2>3, <2>4 DEF VisitsInv
<1>16. ResultInv'
  <2>1. CASE key \in nodes
    <3>1. \A k \in nodes : state'[k] = "visited" <=> \E i \in 1..s + 1 : sorted'[i] = k
      <4> SUFFICES ASSUME NEW k \in nodes
                   PROVE  state'[k] = "visited" <=> \E i \in 1..s + 1 : sorted'[i] = k
        OBVIOUS
      <4>1. k \in SortKeys /\ (state[k] = "visited" <=> \E i \in 1..s : sorted[i] = k)
        BY <1>1 DEF ResultInv, SortType
      <4>2. CASE k = key
        BY <1>10, <1>11, <2>1, <4>1, <4>2
      <4>3. CASE k # key
        BY <1>10, <1>11, <2>1, <4>1, <4>3
      <4> QED
        BY <4>2, <4>3
    <3>2. \A i \in 1..s : sorted[i] # key /\ key \notin Above[sorted[i]]
      BY <1>5, <1>9, <1>12
    <3>3. \A i, j \in 1..s + 1 : i # j => sorted'[i] # sorted'[j]
      BY <1>1, <1>11, <2>1, <3>2 DEF ResultInv
    <3>4. \A i, j \in 1..s + 1 : sorted'[j] \in Above[sorted'[i]] => j < i
      BY <1>1, <1>9, <1>11, <2>1, <3>2 DEF ResultInv
    <3> QED
      BY <1>2, <1>11, <2>1, <3>1, <3>3, <3>4 DEF ResultInv
  <2>2. CASE key \notin nodes
    <3>1. \A k \in nodes : k \in SortKeys /\ state'[k] = state[k]
      BY <1>1, <1>10, <2>2 DEF SortType
    <3> QED
      BY <1>1, <1>2, <1>11, <2>2, <3>1 DEF ResultInv
  <2> QED
    BY <2>1, <2>2
<1>17. VerdictInv'
  BY <1>1 DEF VerdictInv
<1> QED
  BY <1>13, <1>14, <1>15, <1>16, <1>17 DEF SortInv

LEMMA FinishKeeps ==
  ASSUME SortInv, Finish
  PROVE  SortInv'
<1>1. /\ SortType /\ VisitedInv /\ VisitsInv /\ ResultInv
      /\ Remaining = {} /\ visits = <<>>
      /\ state' = state /\ visits' = visits /\ sorted' = sorted /\ verdict' = "sorted"
  BY DEF SortInv, Finish
<1>2. depsOf' = depsOf /\ nodes' = nodes /\ Above' = Above /\ Reach(nodes, depsOf)' = Reach(nodes, depsOf)
  BY GraphStays DEF SortNext
<1>3. \A k \in nodes : state[k] = "visited"
  BY <1>1 DEF Remaining
<1>4. SortType'
  BY <1>1, <1>2 DEF SortType
<1>5. VisitedInv' /\ VisitsInv' /\ ResultInv'
  BY <1>1, <1>2 DEF VisitedInv, VisitsInv, ResultInv
<1>6. VerdictInv'
  BY <1>1, <1>2, <1>3 DEF VerdictInv
<1> QED
  BY <1>4, <1>5, <1>6 DEF SortInv

THEOREM SortInvHolds == SortSpec => []SortInv
<1>1. SortInit => SortInv
  BY SortInitInv
<1>2. SortInv /\ [SortNext]_sortVars => SortInv'
  <2> SUFFICES ASSUME SortInv, [SortNext]_sortVars PROVE SortInv'
    OBVIOUS
  <2>1. CASE UNCHANGED sortVars
    <3>1. /\ depsOf' = depsOf /\ nodes' = nodes /\ state' = state /\ visits' = visits
          /\ sorted' = sorted /\ verdict' = verdict /\ Above' = Above
          /\ Reach(nodes, depsOf)' = Reach(nodes, depsOf)
      BY <2>1, GraphStays DEF sortVars
    <3> QED
      BY <3>1 DEF SortInv, SortType, VisitsInv, VisitedInv, ResultInv, VerdictInv, Cyclic
  <2> QED
    BY <2>1, EnterKeeps, MeetCycleKeeps, LeaveKeeps, FinishKeeps DEF SortNext, SortEnded
<1> QED
  BY <1>1, <1>2, PTL DEF SortSpec

\* When Sort returns a result, the visited keys are all that can be reached.
LEMMA SortInvSorts ==
  ASSUME SortInv
  PROVE  SortIsTopological
<1>1. SortType /\ VisitedInv /\ VerdictInv
  BY DEF SortInv
<1>2. ASSUME verdict = "sorted" PROVE ~Cyclic
  <2> DEFINE V == {k \in SortKeys : state[k] = "visited"}
  <2>1. nodes \subseteq V
    BY <1>1, <1>2 DEF VerdictInv, SortType
  <2>2. ClosedUnder(V, depsOf)
    BY <1>1 DEF ClosedUnder, VisitedInv, SortType
  <2>3. Reach(nodes, depsOf) \subseteq V
    BY <1>1, <2>1, <2>2, NodesReach
  <2> QED
    BY <1>1, <2>3 DEF Cyclic, VisitedInv
<1>3. ASSUME verdict = "sorted" PROVE sorted \in TopologicalOrders(nodes, Above)
  <2> DEFINE s == Len(sorted)
  <2>1. ResultInv
    BY <1>3 DEF SortInv
  <2>2. s \in Nat /\ sorted \in [1..s -> nodes]
    BY <1>1 DEF SortType
  <2>3. \A i, j \in 1..s : sorted[i] = sorted[j] => i = j
    BY <2>1 DEF ResultInv
  <2>4. \A k \in nodes : \E i \in 1..s : sorted[i] = k
    BY <1>1, <1>3, <2>1 DEF ResultInv, VerdictInv
  <2>5. sorted \in Bijection(1..s, nodes)
    BY <2>2, <2>3, <2>4 DEF Bijection, Injection, Surjection, IsInjective
  <2>6. IsFiniteSet(1..s) /\ Cardinality(1..s) = s
    BY <2>2, FS_Interval
  <2>7. Cardinality(nodes) = s
    <3>1. ExistsBijection(1..s, nodes)
      BY <2>5 DEF ExistsBijection
    <3> QED
      BY <2>6, <3>1, FS_Bijection
  <2>8. sorted \in SetToSeqs(nodes)
    BY <2>2, <2>3, <2>7 DEF SetToSeqs
  <2>9. DOMAIN sorted = 1..s
    BY <2>2
  <2> QED
    BY <2>1, <2>8, <2>9 DEF TopologicalOrders, ResultInv
<1> QED
  BY <1>1, <1>2, <1>3 DEF SortIsTopological, VerdictInv

\* toposort.Sort: an error exactly if a cycle can be reached, and otherwise
\* every node once and after all it depends on.
THEOREM SortIsTopologicalHolds == SortSpec => []SortIsTopological
<1>1. SortInv => SortIsTopological
  BY SortInvSorts
<1> QED
  BY <1>1, SortInvHolds, PTL

\* So what Sort returns is one of the orders that stand for it elsewhere: in
\* the packages of Resolve and the recompiles of the test runner.
THEOREM SortGivesAnOrder ==
  SortSpec => [](verdict = "sorted" => sorted \in TopologicalOrders(nodes, depsOf))
<1>1. ASSUME SortInv, verdict = "sorted"
      PROVE  sorted \in TopologicalOrders(nodes, depsOf)
  <2>1. SortType /\ sorted \in TopologicalOrders(nodes, Above)
    BY <1>1, SortInvSorts DEF SortInv, SortIsTopological
  <2>2. /\ sorted \in SetToSeqs(nodes)
        /\ \A i, j \in DOMAIN sorted : sorted[j] \in Above[sorted[i]] => j < i
    BY <2>1 DEF TopologicalOrders
  <2>3. \A i \in DOMAIN sorted : sorted[i] \in SortKeys
    BY <2>1 DEF SortType
  <2>4. \A i \in DOMAIN sorted : depsOf[sorted[i]] \subseteq Above[sorted[i]]
    BY <2>1, <2>3, AboveFacts
  <2> QED
    BY <2>2, <2>4 DEF TopologicalOrders
<1>2. SortInv => (verdict = "sorted" => sorted \in TopologicalOrders(nodes, depsOf))
  BY <1>1
<1> QED
  BY <1>2, SortInvHolds, PTL

LEMMA MarkedFinite ==
  ASSUME NEW mark
  PROVE  IsFiniteSet(Marked(mark)) /\ Cardinality(Marked(mark)) \in Nat
<1>1. Marked(mark) \subseteq SortKeys
  BY DEF Marked
<1> QED
  BY <1>1, SortAssumption, FS_Subset, FS_CardinalityType

\* Every step of Sort marks a key further, or returns.
LEMMA StepsGrowFewer ==
  ASSUME SortInv, SortNext
  PROVE  StepsLeft' < StepsLeft \/ UNCHANGED sortVars
<1> DEFINE u == Cardinality(Marked("unvisited"))
           g == Cardinality(Marked("visiting"))
<1>1. u \in Nat /\ g \in Nat
  BY MarkedFinite
<1>2. SortType
  BY DEF SortInv
<1>3. CASE Enter
  <2> DEFINE key == Min(Remaining)
  <2>1. /\ verdict = "none" /\ verdict' = "none" /\ Remaining # {}
        /\ state[key] = "unvisited" /\ state' = [state EXCEPT ![key] = "visiting"]
    BY <1>3 DEF Enter
  <2>2. key \in SortKeys
    BY <1>2, <2>1, NextKey
  <2> HIDE DEF key
  <2>3. /\ Marked("unvisited")' = Marked("unvisited") \ {key} /\ key \in Marked("unvisited")
        /\ Marked("visiting")' = Marked("visiting") \cup {key} /\ key \notin Marked("visiting")
    BY <1>2, <2>1, <2>2 DEF Marked, SortType
  <2>4. u' = u - 1 /\ g' = g + 1
    BY <2>3, MarkedFinite, FS_RemoveElement, FS_AddElement
  <2> QED
    BY <1>1, <2>1, <2>4 DEF StepsLeft
<1>4. CASE Leave
  <2> DEFINE key == visits[Len(visits)]
  <2>1. /\ verdict = "none" /\ verdict' = "none" /\ visits # <<>> /\ VisitsInv
        /\ state' = [state EXCEPT ![key] = "visited"]
    BY <1>4 DEF Leave, Last, SortInv
  <2>2. key \in SortKeys /\ Len(visits) \in 1..Len(visits)
    BY <1>2, <2>1 DEF SortType
  <2>3. state[key] = "visiting"
    BY <2>1, <2>2 DEF VisitsInv
  <2> HIDE DEF key
  <2>4. /\ Marked("unvisited")' = Marked("unvisited")
        /\ Marked("visiting")' = Marked("visiting") \ {key} /\ key \in Marked("visiting")
    BY <1>2, <2>1, <2>2, <2>3 DEF Marked, SortType
  <2>5. u' = u /\ g' = g - 1
    BY <2>4, MarkedFinite, FS_RemoveElement
  <2> QED
    BY <1>1, <2>1, <2>5 DEF StepsLeft
<1>5. CASE MeetCycle \/ Finish
  <2>1. verdict = "none" /\ verdict' # "none" /\ state' = state
    BY <1>5 DEF MeetCycle, Finish
  <2>2. u' = u /\ g' = g
    BY <2>1 DEF Marked
  <2> QED
    BY <1>1, <2>1, <2>2 DEF StepsLeft
<1>6. CASE SortEnded
  BY <1>6 DEF SortEnded
<1> QED
  BY <1>3, <1>4, <1>5, <1>6 DEF SortNext

\* The visit comes to an end, whatever the graph.
THEOREM VisitsEndHolds == SortSpec => VisitsEnd
<1>1. SortInv /\ [SortNext]_sortVars => [StepsLeft' < StepsLeft]_sortVars
  BY StepsGrowFewer
<1> QED
  BY <1>1, SortInvHolds, PTL DEF SortSpec, VisitsEnd
=============================================================================
