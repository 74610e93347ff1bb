----------------------------- MODULE TestRunner -----------------------------
(***************************************************************************)
(* The test runner, go/go2nix/pkg/testrunner/testrunner.go: for one local  *)
(* package after the other, compile its test variants and what must be     *)
(* recompiled against them, link a test binary and run it.                 *)
(*                                                                         *)
(* An importcfg is a set of <<import path, archive file>> entries.  Of an  *)
(* archive the model keeps which compile it came from and which compile    *)
(* every import was resolved to, as the linker's fingerprints do.          *)
(*                                                                         *)
(* Packages are numbered.                                                  *)
(*                                                                         *)
(* Definitions under "Seeded fault" are no part of the model: each is the  *)
(* definition below it with a mistake the property named there must catch. *)
(***************************************************************************)
EXTENDS ImportGraph, Integers

CONSTANTS
  Local,       \* packages of the main module and of its replaced siblings
  ThirdParty,  \* packages of other modules
  Graphs,      \* the import graphs to consider
  Sanitized,   \* sanitize(importPath), a number for every file name
  Split,       \* a compile importcfg of .x files is given (interface split)
  MaxTargets   \* bound: packages with test files

Pkg == Local \cup ThirdParty

ASSUME PackageAssumption ==
  IsFiniteSet(Pkg) /\ Pkg \subseteq Nat \ {0} /\ Local \cap ThirdParty = {}

ASSUME SanitizedAssumption == Sanitized \in [Local -> Nat \ {0}]

\* go list fails if imports lead in a circle.
ASSUME GraphsAssumption ==
  \A g \in Graphs : g \in [Pkg -> SUBSET Pkg] /\ TopologicalOrders(Pkg, g) # {}

\* Import paths: a package, its external test package, the test main.
XTest(p) == -p
TestMain == 0

\* Archive files: of a derivation (directory 0), or in a target's testDir.
Lib(p) == <<0, "a", p>>
Iface(p) == <<0, "x", p>>
InTestDir(t, name, n) == <<Sanitized[t], name, n>>

VARIABLES
  deps,        \* the import graph
  tests,       \* tests[p]: which of "internal", "external" test files p has
  scope,       \* local packages with an entry in LocalArchives
  pending,     \* targets to be tested, in list order
  phase,       \* where runPackageTests is for Head(pending)
  xtestImports,\* pkg.XTestImports, without the target itself
  recompile,   \* affected local dependents still to be recompiled
  recompiled,  \* those recompiled already
  files,       \* files[f]: the archive in f
  linkCfg, compileCfg  \* testImportCfg, testCompileImportCfg

vars == <<deps, tests, scope, pending, phase, xtestImports, recompile,
          recompiled, files, linkCfg, compileCfg>>

inputs == <<deps, tests, scope>>

target == Head(pending)

\* What a compile of path leaves: round names the target it was made for.
Archive(path, round, seen) == [path |-> path, round |-> round, seen |-> seen]

\* How an import was resolved: identifies the compile, not the file.
Id(a) == <<a.path, a.round>>

Built(p) == Archive(p, 0, {<<d, <<d, 0>>>> : d \in deps[p]})

\* The archives the package derivations made, and the importcfgs over them.
Derivations == [f \in {Lib(p) : p \in Pkg} \cup {Iface(p) : p \in Pkg} |-> Built(f[3])]
InCfg == scope \cup ThirdParty
LinkEntries == {<<p, Lib(p)>> : p \in InCfg}
CompileEntries == {<<p, IF p \in scope THEN Iface(p) ELSE Lib(p)>> : p \in InCfg}

\* The resolver's scope holds what the packages of the build import.
Scopes(g) ==
  {s \in SUBSET Local : \A p \in s \cup ThirdParty : g[p] \cap Local \subseteq s}

LocalDeps == [p \in Local |-> deps[p] \cap Local]

\* The packages to be tested, in an order toposort.Sort may have listed them.
Testable == {p \in scope : tests[p] # {}}
TestOrders ==
  TopologicalOrders(Testable, [p \in Local |-> Reach({p}, LocalDeps) \ {p}])

Init ==
  /\ deps \in Graphs
  /\ tests \in [Local -> SUBSET {"internal", "external"}]
  /\ Cardinality({p \in Local : tests[p] # {}}) <= MaxTargets
  /\ scope \in Scopes(deps)
  /\ pending \in TestOrders
  /\ phase = "start"
  /\ xtestImports = {}
  /\ recompile = <<>>
  /\ recompiled = {}
  /\ files = Derivations
  /\ linkCfg = {}
  /\ compileCfg = {}

Has(kind) == kind \in tests[target]

Importers(p) == {q \in Local : p \in deps[q]}

\* What a package of the resolved scope may import in its test files.
Importable == scope \cup ThirdParty

Goto(from, to) ==
  /\ pending # <<>>
  /\ phase = from
  /\ phase' = to

\* An error ends runPackageTests, and Run with it.
Fails == phase' = "failed"

-----------------------------------------------------------------------------
(***************************************************************************)
(* Compiling: imports are looked up in the compile importcfg when there is *)
(* one.  The archive is written over whatever the file held.               *)
(***************************************************************************)
Cfg == IF Split THEN compileCfg ELSE linkCfg
Lookup(cfg, path) == {e[2] : e \in {e \in cfg : e[1] = path}}
Resolved(paths) ==
  {<<e[1], Id(files[e[2]])>> : e \in {e \in Cfg : e[1] \in paths}}

Compile(path, paths, f) ==
  /\ \A p \in paths : Lookup(Cfg, p) # {}
  /\ files' = [g \in DOMAIN files \cup {f} |->
                 IF g = f THEN Archive(path, target, Resolved(paths)) ELSE files[g]]

\* overrideImportCfgEntry: one entry for path, the archive just compiled.
Override(cfg, path, f) == {e \in cfg : e[1] # path} \cup {<<path, f>>}

\* Seeded fault: only the link importcfg is overridden (LinkConsistent).
OverrideLink(path, f) ==
  /\ linkCfg' = Override(linkCfg, path, f)
  /\ UNCHANGED compileCfg

OverrideBoth(path, f) ==
  /\ linkCfg' = Override(linkCfg, path, f)
  /\ compileCfg' = IF Split THEN Override(compileCfg, path, f) ELSE compileCfg

-----------------------------------------------------------------------------
(***************************************************************************)
(* affectedLocalDeps: what the external test reaches among the local       *)
(* packages, and of that what depends on the target, dependencies first.   *)
(***************************************************************************)
XTestReachable(imports) == Reach(imports \cap Local, LocalDeps)

\* What leads to the target within the packages of among.
Dependents(among) ==
  Reach({target}, [p \in Local |-> (Importers(p) \cap among) \ {target}]) \ {target}

\* Seeded faults: only direct importers (LinkConsistent); also what the
\* external test does not reach (RecompiledIsNeeded).
DirectDependents(imports) == Importers(target) \cap XTestReachable(imports)
AllDependents(imports) == Dependents(Local)

AffectedLocalDeps(imports) == Dependents(XTestReachable(imports))

-----------------------------------------------------------------------------
(***************************************************************************)
(* runPackageTests, step by step.                                          *)
(***************************************************************************)

\* Seeded fault: the importcfgs of the target before are used (NoLeftovers).
StartInPlace ==
  /\ Goto("start", "internal")
  /\ linkCfg' = IF linkCfg = {} THEN LinkEntries ELSE linkCfg
  /\ compileCfg' = IF Split THEN CompileEntries ELSE {}
  /\ xtestImports' \in IF Has("external") THEN SUBSET (Importable \ {target}) ELSE {{}}
  /\ recompiled' = {}
  /\ UNCHANGED <<inputs, pending, recompile, files>>

\* Fresh copies of the importcfgs in the target's test directory.
Start ==
  /\ Goto("start", "internal")
  /\ linkCfg' = LinkEntries
  /\ compileCfg' = IF Split THEN CompileEntries ELSE {}
  /\ xtestImports' \in IF Has("external") THEN SUBSET (Importable \ {target}) ELSE {{}}
  /\ recompiled' = {}
  /\ UNCHANGED <<inputs, pending, recompile, files>>

\* The package with its internal test files, in place of the package.  These
\* import nothing that imports the package.
CompileInternal ==
  /\ Goto("internal", "affected")
  /\ IF Has("internal")
     THEN \E testImports \in SUBSET Importable :
            /\ target \notin Reach(testImports, deps)
            /\ LET f == InTestDir(target, "internal", 0)
               IN /\ Compile(target, deps[target] \cup testImports, f)
                  /\ OverrideBoth(target, f)
     ELSE UNCHANGED <<files, linkCfg, compileCfg>>
  /\ UNCHANGED <<inputs, pending, xtestImports, recompile, recompiled>>

\* Dependents are affected only when there are both kinds of test files.
ComputeAffected ==
  /\ Goto("affected", "recompile")
  /\ recompile' \in IF Has("internal") /\ Has("external")
                    THEN TopologicalOrders(AffectedLocalDeps(xtestImports), LocalDeps)
                    ELSE {<<>>}
  /\ UNCHANGED <<inputs, pending, xtestImports, recompiled, files, linkCfg, compileCfg>>

RecompileNext ==
  /\ recompile # <<>>
  /\ Goto("recompile", "recompile")
  /\ LET p == Head(recompile)
         f == InTestDir(target, "recomp", Sanitized[p])
     IN /\ Compile(p, deps[p], f)
        /\ OverrideBoth(p, f)
        /\ recompiled' = recompiled \cup {p}
  /\ recompile' = Tail(recompile)
  /\ UNCHANGED <<inputs, pending, xtestImports>>

\* An external test usually imports the package it tests, but need not.
CompileExternal ==
  /\ recompile = <<>>
  /\ Goto("recompile", "main")
  /\ IF Has("external")
     THEN \E own \in SUBSET {target} :
            LET f == InTestDir(target, "external", 0)
            IN /\ Compile(XTest(target), xtestImports \cup own, f)
               /\ OverrideBoth(XTest(target), f)
     ELSE UNCHANGED <<files, linkCfg, compileCfg>>
  /\ UNCHANGED <<inputs, pending, xtestImports, recompile, recompiled>>

\* _testmain imports a test variant only if that has tests or examples.
CompileTestMain ==
  /\ Goto("main", "link")
  /\ \E imports \in SUBSET ({p \in {target} : Has("internal")}
                              \cup {XTest(p) : p \in {q \in {target} : Has("external")}}) :
       Compile(TestMain, imports, InTestDir(target, "testmain", 0))
  /\ UNCHANGED <<inputs, pending, xtestImports, recompile, recompiled, linkCfg, compileCfg>>

\* The link and the run of the test binary; then the next target.
LinkAndRun ==
  /\ Goto("link", "start")
  /\ pending' = Tail(pending)
  /\ UNCHANGED <<inputs, xtestImports, recompile, recompiled, files, linkCfg, compileCfg>>

\* Any compile, the link or a test may fail.
Abort ==
  /\ pending # <<>>
  /\ phase \notin {"start", "failed"}
  /\ Fails
  /\ UNCHANGED <<inputs, pending, xtestImports, recompile, recompiled, files,
                 linkCfg, compileCfg>>

\* Run has returned.
Done == (pending = <<>> \/ phase = "failed") /\ UNCHANGED vars

Next ==
  \/ Start \/ CompileInternal \/ ComputeAffected \/ RecompileNext
  \/ CompileExternal \/ CompileTestMain \/ LinkAndRun \/ Abort \/ Done

Spec == Init /\ [][Next]_vars
-----------------------------------------------------------------------------
(***************************************************************************)
(* Properties                                                              *)
(***************************************************************************)

\* The archives the linker loads, from the test main on.
Loads ==
  [f \in DOMAIN files |-> UNION {Lookup(linkCfg, s[1]) : s \in files[f].seen}]

Linked == Reach({InTestDir(target, "testmain", 0)}, Loads)
Linking == pending # <<>> /\ phase = "link"

\* "Dependents must be recompiled so xtest compilation and linking see
\* consistent archives": every import of every archive that is linked leads,
\* by the link importcfg, to one archive, of the imported package, and of
\* the very compile the importer was compiled against.
LinkConsistent ==
  Linking =>
    \A f \in Linked : \A s \in files[f].seen :
      \E g \in Linked : Lookup(linkCfg, s[1]) = {g} /\ Id(files[g]) = s[2]

\* Recompiled is what the external test reaches and depends on the package,
\* nothing else, and only packages that the build resolved.
RecompiledIsNeeded ==
  Linking =>
    /\ recompiled \subseteq scope
    /\ recompiled =
         IF Has("internal") /\ Has("external")
         THEN {p \in Reach(xtestImports, deps) \cap Local :
                 p # target /\ target \in Reach({p}, deps)}
         ELSE {}

\* Test directories may have the same name, but no archive compiled for an
\* earlier target is linked into the test binary of a later one.
NoLeftovers ==
  Linking => \A f \in Linked : files[f].round \in {0, target}

=============================================================================
