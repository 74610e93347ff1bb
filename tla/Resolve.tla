------------------------------ MODULE Resolve ------------------------------
(***************************************************************************)
(* `go2nix resolve` of the experimental mode: Resolve of                   *)
(* go/go2nix/pkg/resolve/resolve.go with the package graph of graph.go.    *)
(* From a project and its lockfile it makes one derivation for each        *)
(* module, package and binary, registers them in the Nix store, and writes *)
(* the last of them to $out.                                               *)
(*                                                                         *)
(* A store path is a hash of what it was made from, so it is modelled by   *)
(* the record of what it was made from: two paths are equal exactly if     *)
(* these are.  Tools, flags, overrides and the standard library are those  *)
(* of the Nix expression and the same in every derivation: left out.       *)
(*                                                                         *)
(* Definitions under "Seeded fault" are no part of the model.              *)
(***************************************************************************)
EXTENDS GoMod, ModCache, ImportGraph

CONSTANTS
  Local,          \* import paths of the project's own packages
  Foreign,        \* import paths of packages of other modules
  Owner,          \* Owner[p]: the path of the module foreign package p is in
  ForeignImports, \* ForeignImports[t][p]: what p imports in the module tree t
  Projects,       \* the sources Resolve may be given
  Locks,          \* Locks[project]: the lockfiles that may come with a project
  MaxRuns,        \* bound on the runs of Resolve
  MaxFaults       \* bound on the store and system calls that fail

Package == Local \cup Foreign

\* A project: its go.mod and, for each package of its own, what it imports,
\* its text, and whether it is a main package.
ProjectType(pr) ==
  /\ GoModType(pr.gomod)
  /\ DOMAIN pr.imports \subseteq Local
  /\ \A p \in DOMAIN pr.imports : pr.imports[p] \subseteq Package
  /\ DOMAIN pr.text = DOMAIN pr.imports
  /\ pr.mains \subseteq DOMAIN pr.imports

ASSUME ProjectsAssumption == \A pr \in Projects : ProjectType(pr)
ASSUME PackageAssumption == IsFiniteSet(Package) /\ Local \cap Foreign = {}
ASSUME OwnerAssumption == Owner \in [Foreign -> Path]

-----------------------------------------------------------------------------
(***************************************************************************)
(* What go list reports of a project.                                      *)
(***************************************************************************)

\* The tree go list reads foreign package p from.
ListedTree(pr, p) == Tree(pr.gomod, Owner[p])

Imports(pr) ==
  [p \in DOMAIN pr.imports \cup {q \in Foreign : Owner[q] \in DOMAIN pr.gomod.require} |->
     IF p \in Local THEN pr.imports[p] ELSE ForeignImports[ListedTree(pr, p)][p]]

Listed(pr) == Reach(DOMAIN pr.imports, Imports(pr))

\* go list and toposort.Sort fail if an import leads to no module that is
\* fetched, or in a circle; the projects given are without such imports.
Importable(pr) ==
  /\ \E found \in SUBSET DOMAIN Imports(pr) :
       /\ DOMAIN pr.imports \subseteq found
       /\ \A p \in found : Imports(pr)[p] \subseteq found
       /\ \A p \in found \cap Foreign : Owner[p] \in Fetched(pr.gomod)
  /\ TopologicalOrders(Listed(pr), Imports(pr)) # {}

ASSUME ImportsAssumption == \A pr \in Projects : Importable(pr)

-----------------------------------------------------------------------------
(***************************************************************************)
(* Store objects.  deps are the derivations a derivation is built from.    *)
(***************************************************************************)
None == [kind |-> "none"]

Fod(lk, k) ==
  [kind |-> "module", key |-> k, fetch |-> <<RecordedPath(lk, k), k[2]>>,
   hash |-> lk.mod[k], deps |-> {}]

\* Seeded fault: a module's output does not depend on its hash
\* (RebuiltIffChanged).
FodOutputByName(lk, k) == [kind |-> "tree", key |-> k, hash |-> <<>>]

\* What a module derivation builds: its name and its hash are known before.
FodOutput(lk, k) == [kind |-> "tree", key |-> k, hash |-> lk.mod[k]]

LocalSource(pr, p) == [kind |-> "source", pkg |-> p, text |-> pr.text[p]]

\* setupPkgSource: the staged files of a local package, or the whole tree of
\* the module, found by the key the graph gave the package.
SourceOf(pr, lk, p) ==
  IF p \in Local THEN LocalSource(pr, p)
  ELSE FodOutput(lk, Key(pr.gomod, Owner[p]))

\* buildPackageDrv; d maps the packages it imports to their derivations.
PackageDrv(pr, lk, p, d) ==
  [kind |-> "package", pkg |-> p, main |-> p \in pr.mains,
   src |-> SourceOf(pr, lk, p), deps |-> {d[q] : q \in Imports(pr)[p]}]

\* generateModinfo: the modules of all packages of the graph.
Modinfo(pr) ==
  {<<Owner[p], ListedTree(pr, p)>> : p \in Listed(pr) \cap Foreign}

\* A single binary is named after the project.
BinaryName(pr, p) == IF pr.mains = {p} THEN "pname" ELSE p

\* Seeded fault: only what main imports itself is linked (LinkConsistent).
DirectClosure(pr, p) == {p} \cup Imports(pr)[p]

\* transitiveClosure.
TransitiveClosure(pr, p) == Reach({p}, Imports(pr))

\* Seeded fault: every package of the graph is linked into every binary
\* (RelinkedIffChanged).
LinkDrvOfAll(pr, p, d) ==
  [kind |-> "link", pkg |-> p, name |-> BinaryName(pr, p), modinfo |-> Modinfo(pr),
   deps |-> {d[q] : q \in Listed(pr)}]

\* buildLinkDrv.
LinkDrv(pr, p, d) ==
  [kind |-> "link", pkg |-> p, name |-> BinaryName(pr, p), modinfo |-> Modinfo(pr),
   deps |-> {d[q] : q \in TransitiveClosure(pr, p)}]

\* buildCollectorDrv, whose script copies the binaries in this order.
CollectorDrv(links) ==
  [kind |-> "collect", order |-> links, deps |-> {links[i] : i \in DOMAIN links}]

IsDrv(o) == o.kind \in {"module", "package", "link", "collect"}

\* The objects o cannot be in the store without.
References(o) ==
  IF o.kind = "package" THEN o.deps \cup {o.src}
  ELSE IF IsDrv(o) THEN o.deps ELSE {}

-----------------------------------------------------------------------------
VARIABLES
  project,  \* the source of the current run, or of the last
  lock,     \* the lockfile that came with it
  phase,    \* where Resolve is: "idle" if it does not run
  outcome,  \* how the last run ended
  runs,     \* runs so far
  faults,   \* store and system calls that failed so far
  store,    \* the valid objects of the Nix store
  todo,     \* keys whose module derivation is to be registered
  order,    \* sorted: the packages of the graph, dependencies first
  n,        \* packages or derivations of the current phase that are done
  drv,      \* drv[p]: the derivation of package p
  finals,   \* the link derivations, and the collector if there is one
  out,      \* the derivation last written to $out
  last      \* the last run that succeeded, if any

local == <<todo, order, n, drv, finals>>
vars == <<project, lock, phase, outcome, runs, faults, store, local, out, last,
          cacheVars>>

Init ==
  /\ project \in Projects
  /\ lock = EmptyLock
  /\ phase = "idle"
  /\ outcome = "none"
  /\ runs = 0
  /\ faults = 0
  /\ store = {}
  /\ todo = {}
  /\ order = <<>>
  /\ n = 0
  /\ drv = <<>>
  /\ finals = <<>>
  /\ out = None
  /\ last = {}
  /\ NoCache

\* Resolve returns: its variables are gone, and the cache is removed.
Return(result) ==
  /\ phase' = "idle"
  /\ outcome' = result
  /\ todo' = {}
  /\ order' = <<>>
  /\ n' = 0
  /\ drv' = <<>>
  /\ finals' = <<>>
  /\ Empty
  /\ UNCHANGED <<project, lock, runs>>

Stop(result) == Return(result) /\ UNCHANGED <<faults, store, out, last>>

\* A call to the store, to go list or to the file system fails.
Faulted ==
  /\ phase \notin {"idle", "cache", "specify"}
  /\ faults < MaxFaults
  /\ faults' = faults + 1
  /\ Return("fault")
  /\ UNCHANGED <<store, out, last>>

GoTo(next) ==
  /\ phase' = next
  /\ n' = 0
  /\ UNCHANGED <<outcome, runs, faults, project, lock, out, last>>

Stay == UNCHANGED <<phase, outcome, runs, faults, project, lock, out, last>>

\* Store.DerivationAdd(o): the store takes o if it has all o refers to.
DerivationAdd(o) ==
  /\ References(o) \subseteq store
  /\ store' = store \cup {o}

Refused(o) ==
  /\ ~ References(o) \subseteq store
  /\ Stop("internal")

\* Between two runs, nix-collect-garbage deletes what neither $out nor
\* anything it was made from needs, or everything with $out.
CollectGarbage ==
  /\ phase = "idle"
  /\ \/ store' = {} /\ out' = None
     \/ /\ out # None
        /\ store' = Reach({out}, [o \in store |-> References(o)])
        /\ UNCHANGED out
  /\ UNCHANGED <<project, lock, phase, outcome, runs, faults, local, last, cacheVars>>

-----------------------------------------------------------------------------
(***************************************************************************)
(* Resolve.                                                                *)
(***************************************************************************)
Begin ==
  /\ phase = "idle"
  /\ runs < MaxRuns
  /\ runs' = runs + 1
  /\ project' \in Projects
  /\ lock' \in Locks[project']
  /\ phase' = "modules"
  /\ outcome' = "none"
  /\ todo' = DOMAIN lock'.mod
  /\ UNCHANGED <<faults, store, order, n, drv, finals, out, last, cacheVars>>

\* registerDerivations(fodDrvs), in the order of a Go map.
RegisterModule(k) ==
  /\ phase = "modules"
  /\ k \in todo
  /\ DerivationAdd(Fod(lock, k))
  /\ todo' = todo \ {k}
  /\ Stay
  /\ UNCHANGED <<order, n, drv, finals, cacheVars>>

\* Seeded fault: a tree is put where its key says (SourceIsListed).
PlacesByKey(lk) == [k \in DOMAIN lk.mod |-> k]

\* Where the tree of each key goes in the cache.
Places(lk) == [k \in DOMAIN lk.mod |-> Fod(lk, k).fetch]

\* buildFODs: one nix build of all modules.  A download with another hash than
\* the lockfile's fails.
BuildModules ==
  /\ phase = "modules"
  /\ todo = {}
  /\ LET fods == {Fod(lock, k) : k \in DOMAIN lock.mod} IN
     \/ /\ \A f \in fods : f.fetch = f.hash
        /\ store' = store \cup {FodOutput(lock, k) : k \in DOMAIN lock.mod}
        /\ Launch(Places(lock))
        /\ GoTo("cache")
        /\ UNCHANGED <<todo, order, drv, finals>>
     \/ /\ \E f \in fods : f.fetch # f.hash
        /\ Stop("hash")

\* A step of one of setupGOMODCACHE's goroutines.
FillCache ==
  /\ phase = "cache"
  /\ \E k \in DOMAIN at : Mirror(k)
  /\ Stay
  /\ UNCHANGED <<store, local>>

CacheFault ==
  /\ phase = "cache"
  /\ faults < MaxFaults
  /\ faults' = faults + 1
  /\ \E k \in DOMAIN at : SystemError(k)
  /\ UNCHANGED <<project, lock, phase, outcome, runs, store, local, out, last>>

\* g.Wait.
WaitCache ==
  /\ phase = "cache"
  /\ AllReturned
  /\ \/ CacheFails /\ Stop("cache")
     \/ ~CacheFails /\ GoTo("list") /\ UNCHANGED <<store, todo, order, drv, finals, cacheVars>>

\* Seeded fault: the modules of go.mod have to be in the lockfile as required
\* (LockErrorIsEarned).
ReadableAsRequired(pr) ==
  \A p \in Listed(pr) \cap Foreign : <<Owner[p], pr.gomod.require[Owner[p]]>> \in meta

\* go list finds every module of the graph in the cache.
Readable(pr) == \A p \in Listed(pr) \cap Foreign : ListedTree(pr, p) \in meta

\* ListDeps, buildPackageGraph and topoSort.  Without network, a module that
\* is not in the cache is an error of go list; a module without an entry in
\* the lockfile one of buildPackageGraph.
ListPackages ==
  /\ phase = "list"
  /\ \/ /\ Readable(project)
        /\ \A p \in Listed(project) \cap Foreign : Key(project.gomod, Owner[p]) \in DOMAIN lock.mod
        /\ order' = SortPackages(Listed(project), Imports(project))
        /\ GoTo("stage")
        /\ UNCHANGED <<store, todo, drv, finals, cacheVars>>
     \/ /\ ~Readable(project)
        /\ Stop("lock")
     \/ /\ Readable(project)
        /\ \E p \in Listed(project) \cap Foreign : Key(project.gomod, Owner[p]) \notin DOMAIN lock.mod
        /\ Stop("lock")

\* Seeded fault: what the last run staged is not staged again (OnlyForACause).
StageChanged ==
  /\ phase = "stage"
  /\ n < Len(order)
  /\ n' = n + 1
  /\ LET p == order[n + 1] IN
     store' = IF p \in Local /\ \A l \in last : p \notin DOMAIN l.project.text
                                              \/ l.project.text[p] # project.text[p]
              THEN store \cup {LocalSource(project, p)} ELSE store
  /\ Stay
  /\ UNCHANGED <<todo, order, drv, finals, cacheVars>>

\* stageLocalSources: one StoreAdd for each local package.
StageNext ==
  /\ phase = "stage"
  /\ n < Len(order)
  /\ n' = n + 1
  /\ store' = IF order[n + 1] \in Local
              THEN store \cup {LocalSource(project, order[n + 1])} ELSE store
  /\ Stay
  /\ UNCHANGED <<todo, order, drv, finals, cacheVars>>

StageEnd ==
  /\ phase = "stage"
  /\ n = Len(order)
  /\ GoTo("specify")
  /\ UNCHANGED <<store, todo, order, drv, finals, cacheVars>>

\* buildPackageDrv of the next package: an import without a derivation yet is
\* an error ("graph construction bug").
SpecifyNext ==
  /\ phase = "specify"
  /\ n < Len(order)
  /\ LET p == order[n + 1] IN
     \/ /\ Imports(project)[p] \subseteq DOMAIN drv
        /\ drv' = With(drv, p, PackageDrv(project, lock, p, drv))
        /\ n' = n + 1
        /\ Stay
        /\ UNCHANGED <<store, todo, order, finals, cacheVars>>
     \/ /\ ~ Imports(project)[p] \subseteq DOMAIN drv
        /\ Stop("internal")

SpecifyEnd ==
  /\ phase = "specify"
  /\ n = Len(order)
  /\ GoTo("register")
  /\ UNCHANGED <<store, todo, order, drv, finals, cacheVars>>

\* registerPackageDerivations, in topological order.
RegisterNext ==
  /\ phase = "register"
  /\ n < Len(order)
  /\ LET d == drv[order[n + 1]] IN
     \/ /\ DerivationAdd(d)
        /\ n' = n + 1
        /\ Stay
        /\ UNCHANGED <<todo, order, drv, finals, cacheVars>>
     \/ Refused(d)

\* The main packages, in the order of sorted.
InOrder(mains) ==
  \A i, j \in DOMAIN mains : i < j =>
    \E k, l \in DOMAIN order : k < l /\ order[k] = mains[i] /\ order[l] = mains[j]

\* buildFinalDrv: the links of the main packages and, for several, a collector.
FinalDrvs(mains) ==
  LET links == [i \in DOMAIN mains |-> LinkDrv(project, mains[i], drv)]
  IN IF Len(links) = 1 THEN links ELSE Append(links, CollectorDrv(links))

BuildFinal ==
  /\ phase = "register"
  /\ n = Len(order)
  /\ \/ /\ project.mains # {}
        /\ \E mains \in SetToSeqs(project.mains) :
             InOrder(mains) /\ finals' = FinalDrvs(mains)
        /\ GoTo("finals")
        /\ UNCHANGED <<store, todo, order, drv, cacheVars>>
     \/ project.mains = {} /\ Stop("no main")

RegisterFinal ==
  /\ phase = "finals"
  /\ n < Len(finals)
  /\ LET d == finals[n + 1] IN
     \/ /\ DerivationAdd(d)
        /\ n' = n + 1
        /\ Stay
        /\ UNCHANGED <<todo, order, drv, finals, cacheVars>>
     \/ Refused(d)

\* copyFile(finalDrvPath, $out).
WriteOut ==
  /\ phase = "finals"
  /\ n = Len(finals)
  /\ \/ /\ finals[n] \in store
        /\ out' = finals[n]
        /\ last' = {[project |-> project, drv |-> drv, finals |-> finals]}
        /\ Return("ok")
        /\ UNCHANGED <<faults, store>>
     \/ finals[n] \notin store /\ Stop("internal")

Next ==
  \/ Begin \/ CollectGarbage \/ Faulted
  \/ \E k \in todo : RegisterModule(k)
  \/ BuildModules \/ FillCache \/ CacheFault \/ WaitCache
  \/ ListPackages
  \/ StageNext \/ StageEnd
  \/ SpecifyNext \/ SpecifyEnd
  \/ RegisterNext \/ BuildFinal \/ RegisterFinal \/ WriteOut

Spec == Init /\ [][Next]_vars
-----------------------------------------------------------------------------
(***************************************************************************)
(* Properties                                                              *)
(***************************************************************************)
Building == phase \in {"register", "finals"}

\* A run never fails for a reason of its own: the store has every input of a
\* derivation when it is added, whatever earlier runs left there and the
\* garbage collector took, every import has its derivation, and what is
\* copied to $out exists.
OnlyForACause == outcome # "internal"

\* go list reads complete trees: after the cache is set up, every module of
\* the lockfile is in it, with all its files, and each leads into a download
\* of that module and no other.
GoListSeesTrees ==
  phase \notin {"idle", "modules", "cache"} =>
    \A k \in DOMAIN lock.mod : LET t == Fod(lock, k).fetch IN
      /\ t \in meta
      /\ \A f \in File :
           <<t, f>> \in DOMAIN files /\ lock.mod[files[<<t, f>>]] = t

\* A lockfile that names the tree go.mod selects for every module is never
\* reported as stale.
LockErrorIsEarned ==
  outcome = "lock" =>
    \E k \in DOMAIN CollectGoModModules(project.gomod) :
      \/ k \notin DOMAIN lock.mod
      \/ lock.mod[k] # CollectGoModModules(project.gomod)[k]

\* The source a foreign package is compiled from is the tree go list read it
\* from, whichever entry of the lockfile brought that tree.
SourceIsListed ==
  Building =>
    \A p \in DOMAIN drv \cap Foreign : drv[p].src.hash = ListedTree(project, p)

\* What a binary is linked from is closed: it has, once, every package that
\* anything linked was compiled against.
LinkConsistent ==
  \A i \in DOMAIN finals : finals[i].kind = "link" =>
    /\ \A d \in finals[i].deps : d.deps \subseteq finals[i].deps
    /\ \A d, e \in finals[i].deps : d.pkg = e.pkg => d = e
    /\ \E d \in finals[i].deps : d.pkg = finals[i].pkg

\* What a package is by itself: its text or its tree, and its imports.
Own(pr, q) ==
  [is |-> IF q \in Local THEN <<pr.text[q], q \in pr.mains>> ELSE ListedTree(pr, q),
   imports |-> Imports(pr)[q]]

\* What the compilation of p depends on, from p and all below it.
Depends(pr, p) == [q \in TransitiveClosure(pr, p) |-> Own(pr, q)]

\* Against the last run that succeeded, a package has a new derivation exactly
\* if something in its closure changed.
RebuiltIffChanged ==
  Building =>
    \A l \in last : \A p \in DOMAIN drv \cap DOMAIN l.drv :
      drv[p] = l.drv[p] <=> Depends(project, p) = Depends(l.project, p)

\* And a binary if something in its closure, its name, or the list of modules
\* recorded in it changed.
RelinkedIffChanged ==
  \A l \in last :
    \A i \in DOMAIN finals, j \in DOMAIN l.finals :
      LET d == finals[i] e == l.finals[j] IN
      d.kind = "link" /\ e.kind = "link" /\ d.pkg = e.pkg =>
        (d = e <=> /\ Depends(project, d.pkg) = Depends(l.project, d.pkg)
                   /\ BinaryName(project, d.pkg) = BinaryName(l.project, d.pkg)
                   /\ Modinfo(project) = Modinfo(l.project))

=============================================================================
