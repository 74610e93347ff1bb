-------------------------- MODULE TestRunner_proofs --------------------------
(***************************************************************************)
(* Proofs about TestRunner, for any import graphs, tests and scopes, and   *)
(* any number of packages.                                                 *)
(***************************************************************************)
EXTENDS TestRunner, ImportGraph_proofs

-----------------------------------------------------------------------------
(***************************************************************************)
(* The invariant: where the archives are that the importcfgs name, what    *)
(* has to be recompiled, and what the archives were compiled against.      *)
(***************************************************************************)
Phases == {"start", "internal", "affected", "recompile", "main", "link", "failed"}

\* Within runPackageTests, after the internal test archive, after the external.
BusyPhases == {"internal", "affected", "recompile", "main", "link"}
LaterPhases == {"affected", "recompile", "main", "link"}
LastPhases == {"main", "link"}

Busy == pending # <<>> /\ phase \in BusyPhases

TypeInv ==
  /\ deps \in Graphs /\ scope \in Scopes(deps)
  /\ tests \in [Local -> SUBSET {"internal", "external"}]
  /\ pending \in Seq(Testable) /\ phase \in Phases
  /\ Busy => xtestImports \subseteq Importable \ {target}

\* Derivations stay as they were built.
FilesInv ==
  /\ IsFiniteSet(DOMAIN files)
  /\ \A p \in Pkg : /\ Lib(p) \in DOMAIN files /\ files[Lib(p)] = Built(p)
                    /\ Iface(p) \in DOMAIN files /\ files[Iface(p)] = Built(p)

\* The packages with an archive of their own in the target's directory.
Replaced ==
  IF phase \in LaterPhases /\ Has("internal") THEN {target} \cup recompiled ELSE {}

TestDirFile(p) ==
  IF p = target THEN InTestDir(target, "internal", 0)
  ELSE InTestDir(target, "recomp", Sanitized[p])

LinkFile(p) == IF p \in Replaced THEN TestDirFile(p) ELSE Lib(p)
CompileFile(p) ==
  IF p \in Replaced THEN TestDirFile(p) ELSE IF p \in scope THEN Iface(p) ELSE Lib(p)

ExternalFile == InTestDir(target, "external", 0)
MainFile == InTestDir(target, "testmain", 0)

ExternalEntries ==
  {e \in {<<XTest(target), ExternalFile>>} : phase \in LastPhases /\ Has("external")}

\* Both importcfgs have one entry for a package.
CfgInv ==
  Busy => /\ linkCfg = {<<p, LinkFile(p)>> : p \in InCfg} \cup ExternalEntries
          /\ compileCfg = IF Split THEN {<<p, CompileFile(p)>> : p \in InCfg} \cup ExternalEntries
                          ELSE {}

\* Only packages of the scope are recompiled, and only for both kinds of tests.
ListInv ==
  /\ phase \notin {"recompile", "failed"} => recompile = <<>>
  /\ Busy => /\ recompile \in Seq(scope \ {target})
             /\ recompiled \subseteq scope \ {target}
             /\ phase \in {"internal", "affected"} => recompiled = {}
             /\ ~(Has("internal") /\ Has("external")) => recompiled = {} /\ recompile = <<>>

\* What the target's directory holds was compiled for the target.
MadeFor(f) == f \in DOMAIN files /\ files[f].round = target

RoundInv ==
  Busy => /\ \A p \in Replaced : MadeFor(TestDirFile(p))
          /\ phase \in LastPhases /\ Has("external") => MadeFor(ExternalFile)
          /\ phase = "link" => MadeFor(MainFile)

PlaceInv == TypeInv /\ FilesInv /\ CfgInv /\ ListInv /\ RoundInv

\* Whether p is the target or depends on it.
Leads(p) == target \in Reach({p}, deps)

Needed ==
  IF Has("internal") /\ Has("external")
  THEN {p \in Reach(xtestImports, deps) \cap Local : p # target /\ Leads(p)} ELSE {}

\* left is what is to be done after done, each package after those it imports.
InTurn(left, done, needed, imports) ==
  /\ done \cup {left[i] : i \in 1..Len(left)} = needed
  /\ \A i \in 1..Len(left) :
       /\ left[i] \notin done
       /\ \A j \in 1..Len(left) : i # j => left[i] # left[j]
       /\ imports[left[i]] \cap needed \subseteq done \cup {left[j] : j \in 1..(i - 1)}

NeededInv ==
  Busy => /\ phase = "recompile" => InTurn(recompile, recompiled, Needed, deps)
          /\ phase \in LastPhases => recompiled = Needed

\* The packages whose archives do not depend on the archive that was replaced.
Fresh == {p \in InCfg : Replaced = {} \/ p \in Replaced \/ ~Leads(p)}

Round(p) == IF p \in Replaced THEN target ELSE 0
FreshImports == {<<p, <<p, Round(p)>>>> : p \in Fresh}

\* Archives in the target's directory were compiled against fresh ones.
FreshArchive(f, p) ==
  files[f].path = p /\ files[f].seen \subseteq FreshImports

ArchiveInv ==
  Busy => /\ \A p \in Replaced : FreshArchive(TestDirFile(p), p)
          /\ phase \in LastPhases /\ Has("external") => FreshArchive(ExternalFile, XTest(target))
          /\ phase = "link" =>
               files[MainFile].seen \subseteq
                 FreshImports \cup
                 {s \in {<<XTest(target), <<XTest(target), target>>>>} : Has("external")}

\* Packages of other modules import none of the project's.
ThirdPartyApart == \A g \in Graphs : \A p \in ThirdParty : g[p] \cap Local = {}

\* Local packages differ in the names of their files.
FilesApart == \A p, q \in Local : Sanitized[p] = Sanitized[q] => p = q

-----------------------------------------------------------------------------
(***************************************************************************)
(* What leads to the target.                                               *)
(***************************************************************************)
LEMMA GraphFacts ==
  ASSUME deps \in Graphs
  PROVE  /\ DOMAIN deps = Pkg /\ IsFiniteSet(Pkg) /\ ClosedUnder(Pkg, deps)
         /\ \A p \in Pkg : deps[p] \subseteq Pkg
         /\ TopologicalOrders(Pkg, deps) # {}
  BY GraphsAssumption, PackageAssumption DEF ClosedUnder

LEMMA LocalGraphFacts ==
  ASSUME deps \in Graphs
  PROVE  /\ DOMAIN LocalDeps = Local /\ IsFiniteSet(Local) /\ ClosedUnder(Local, LocalDeps)
         /\ \A p \in Local : LocalDeps[p] = deps[p] \cap Local
<1>1. IsFiniteSet(Local)
  BY PackageAssumption, FS_Subset DEF Pkg
<1> QED
  BY <1>1 DEF LocalDeps, ClosedUnder

LEMMA ReachInPkg ==
  ASSUME deps \in Graphs, NEW S, S \subseteq Pkg
  PROVE  /\ S \subseteq Reach(S, deps) /\ Reach(S, deps) \subseteq Pkg
         /\ ClosedUnder(Reach(S, deps), deps)
         /\ \A C : S \subseteq C /\ ClosedUnder(C, deps) => Reach(S, deps) \subseteq C
  BY GraphFacts, ReachFacts

LEMMA LeadsFacts ==
  ASSUME deps \in Graphs, target \in Local
  PROVE  /\ Leads(target)
         /\ \A p \in Pkg : \A q \in deps[p] : Leads(q) => Leads(p)
         /\ \A S \in SUBSET Pkg : \A p \in S : Leads(p) => target \in Reach(S, deps)
<1>1. target \in Pkg
  BY DEF Pkg
<1>2. Leads(target)
  BY <1>1, ReachInPkg DEF Leads
<1>3. ASSUME NEW p \in Pkg, NEW q \in deps[p], Leads(q) PROVE Leads(p)
  <2>1. q \in Pkg /\ {q} \subseteq Pkg /\ {p} \subseteq Pkg
    BY GraphFacts
  <2>2. q \in Reach({p}, deps)
    BY <2>1, ReachInPkg DEF ClosedUnder
  <2>3. Reach({q}, deps) \subseteq Reach({p}, deps)
    BY <2>1, <2>2, ReachInPkg
  <2> QED
    BY <1>3, <2>3 DEF Leads
<1>4. ASSUME NEW S \in SUBSET Pkg, NEW p \in S, Leads(p) PROVE target \in Reach(S, deps)
  <2>1. {p} \subseteq Pkg /\ {p} \subseteq Reach(S, deps) /\ ClosedUnder(Reach(S, deps), deps)
    BY ReachInPkg
  <2>2. Reach({p}, deps) \subseteq Reach(S, deps)
    BY <2>1, ReachInPkg
  <2> QED
    BY <1>4, <2>2 DEF Leads
<1> QED
  BY <1>2, <1>3, <1>4

\* What the target imports does not lead back to it.
LEMMA NoCircle ==
  ASSUME deps \in Graphs, target \in Local, NEW q \in deps[target]
  PROVE  ~Leads(q)
<1>1. target \in Pkg /\ q \in Pkg /\ {q} \subseteq Pkg /\ IsFiniteSet(Pkg)
  BY GraphFacts DEF Pkg
<1>2. PICK o : o \in TopologicalOrders(Pkg, deps)
  BY GraphFacts
<1>3. /\ o \in Seq(Pkg) /\ Len(o) \in Nat
      /\ \A i, j \in 1..Len(o) : i # j => o[i] # o[j]
      /\ \A i \in 1..Len(o) : o[i] \in Pkg
      /\ \A p \in Pkg : \E i \in 1..Len(o) : o[i] = p
      /\ \A i \in 1..Len(o) : \A x \in deps[o[i]] \cap Pkg : \E j \in 1..Len(o) : j < i /\ o[j] = x
  BY <1>1, <1>2, OrderFacts, SMTT(60)
<1>4. PICK k \in 1..Len(o) : o[k] = target
  BY <1>1, <1>3
<1> DEFINE C == {o[j] : j \in 1..(k - 1)}
<1>5. \A i \in 1..k : \A x \in deps[o[i]] : \E j \in 1..(k - 1) : o[j] = x
  <2> SUFFICES ASSUME NEW i \in 1..k, NEW x \in deps[o[i]] PROVE \E j \in 1..(k - 1) : o[j] = x
    OBVIOUS
  <2>1. i \in 1..Len(o) /\ x \in Pkg
    BY <1>3, GraphFacts, SMTT(30)
  <2>2. PICK j \in 1..Len(o) : j < i /\ o[j] = x
    BY <1>3, <2>1
  <2>3. Len(o) \in Nat
    BY <1>3
  <2>4. j \in 1..(k - 1)
    BY <2>2, <2>3
  <2> QED
    BY <2>2, <2>4
<1>6. q \in C
  <2>1. k \in 1..k /\ q \in deps[o[k]]
    BY <1>3, <1>4
  <2> QED
    BY <1>5, <2>1
<1>7. ClosedUnder(C, deps)
  BY <1>5 DEF ClosedUnder
<1>8. target \notin C
  <2> SUFFICES ASSUME NEW j \in 1..(k - 1), o[j] = o[k] PROVE FALSE
    BY <1>4
  <2>1. j \in 1..Len(o) /\ j # k
    BY <1>3
  <2> QED
    BY <1>3, <2>1
<1> HIDE DEF C
<1>9. Reach({q}, deps) \subseteq C
  BY <1>1, <1>6, <1>7, ReachInPkg
<1> QED
  BY <1>8, <1>9 DEF Leads

LEMMA ThirdPartyLeadsNowhere ==
  ASSUME ThirdPartyApart, deps \in Graphs, target \in Local, NEW p \in ThirdParty
  PROVE  ~Leads(p)
<1>1. {p} \subseteq Pkg /\ target \notin ThirdParty
  BY PackageAssumption DEF Pkg
<1>2. ClosedUnder(ThirdParty, deps)
  BY GraphFacts DEF ThirdPartyApart, ClosedUnder, Pkg
<1> QED
  BY <1>1, <1>2, ReachInPkg DEF Leads

-----------------------------------------------------------------------------
(***************************************************************************)
(* affectedLocalDeps.                                                      *)
(***************************************************************************)
LEMMA DependentsFacts ==
  ASSUME deps \in Graphs, target \in Local, NEW A, A \subseteq Local
  PROVE  /\ Dependents(A) \subseteq A \ {target}
         /\ \A p \in Dependents(A) : Leads(p)
         /\ \A p \in A \ {target} : deps[p] \cap (Dependents(A) \cup {target}) # {} => p \in Dependents(A)
<1> DEFINE back == [p \in Local |-> (Importers(p) \cap A) \ {target}]
           B == Reach({target}, back)
<1>1. /\ DOMAIN back = Local /\ IsFiniteSet(Local) /\ ClosedUnder(Local, back)
      /\ \A x, y : x \in Local => (y \in back[x] <=> y \in A /\ y # target /\ x \in deps[y])
  BY LocalGraphFacts DEF ClosedUnder, Importers
<1>2. Dependents(A) = B \ {target}
  BY DEF Dependents
<1> HIDE DEF back
<1>3. /\ {target} \subseteq B /\ B \subseteq Local /\ ClosedUnder(B, back)
      /\ \A C : {target} \subseteq C /\ ClosedUnder(C, back) => B \subseteq C
  BY <1>1, ReachFacts
<1> HIDE DEF B
<1>4. B \subseteq {target} \cup {p \in A : p # target /\ Leads(p)}
  <2> DEFINE C == {target} \cup {p \in A : p # target /\ Leads(p)}
  <2>1. C \subseteq Local /\ \A p \in C : Leads(p)
    BY LeadsFacts
  <2>2. ASSUME NEW x \in C, NEW y \in back[x] PROVE y \in C
    BY <1>1, <2>1, <2>2, LeadsFacts DEF Pkg
  <2>3. ClosedUnder(C, back)
    BY <2>2 DEF ClosedUnder
  <2> QED
    BY <1>3, <2>3
<1>5. ASSUME NEW p \in A \ {target}, NEW x \in deps[p] \cap B PROVE p \in B
  BY <1>1, <1>3 DEF ClosedUnder
<1> QED
  BY <1>2, <1>3, <1>4, <1>5

LEMMA XTestReachableFacts ==
  ASSUME deps \in Graphs, NEW imports
  PROVE  /\ imports \cap Local \subseteq XTestReachable(imports)
         /\ XTestReachable(imports) \subseteq Local
         /\ \A p \in XTestReachable(imports) : deps[p] \cap Local \subseteq XTestReachable(imports)
         /\ \A C : imports \cap Local \subseteq C /\ ClosedUnder(C, LocalDeps) => XTestReachable(imports) \subseteq C
<1> DEFINE R == Reach(imports \cap Local, LocalDeps)
<1>1. /\ imports \cap Local \subseteq R /\ R \subseteq Local /\ ClosedUnder(R, LocalDeps)
      /\ \A C : imports \cap Local \subseteq C /\ ClosedUnder(C, LocalDeps) => R \subseteq C
  BY LocalGraphFacts, ReachFacts
<1> HIDE DEF R
<1> QED
  BY <1>1, LocalGraphFacts DEF R, XTestReachable, ClosedUnder

\* It stays in the scope the build resolved.
LEMMA AffectedInScope ==
  ASSUME deps \in Graphs, scope \in Scopes(deps), target \in scope,
         NEW imports, imports \subseteq Importable
  PROVE  AffectedLocalDeps(imports) \subseteq scope \ {target}
<1>1. scope \subseteq Local /\ imports \cap Local \subseteq scope
  BY PackageAssumption DEF Scopes, Importable
<1>2. ClosedUnder(scope, LocalDeps)
  BY <1>1, LocalGraphFacts DEF ClosedUnder, Scopes
<1>3. XTestReachable(imports) \subseteq scope
  BY <1>1, <1>2, XTestReachableFacts
<1>4. Dependents(XTestReachable(imports)) \subseteq XTestReachable(imports) \ {target}
  BY <1>1, XTestReachableFacts, DependentsFacts
<1> QED
  BY <1>3, <1>4 DEF AffectedLocalDeps

\* It is what the external test reaches and depends on the target.
LEMMA AffectedIsNeeded ==
  ASSUME ThirdPartyApart, deps \in Graphs, target \in Local, NEW imports, imports \subseteq Pkg
  PROVE  AffectedLocalDeps(imports) =
           {p \in Reach(imports, deps) \cap Local : p # target /\ Leads(p)}
<1> DEFINE X == XTestReachable(imports)
           R == Reach(imports, deps)
           D == Dependents(X)
<1>1. /\ imports \subseteq R /\ R \subseteq Pkg /\ ClosedUnder(R, deps)
      /\ \A C : imports \subseteq C /\ ClosedUnder(C, deps) => R \subseteq C
  BY ReachInPkg
<1>2. /\ imports \cap Local \subseteq X /\ X \subseteq Local
      /\ \A p \in X : deps[p] \cap Local \subseteq X
      /\ \A C : imports \cap Local \subseteq C /\ ClosedUnder(C, LocalDeps) => X \subseteq C
  BY XTestReachableFacts
<1>3. \A p \in ThirdParty : deps[p] \subseteq ThirdParty
  BY GraphFacts DEF ThirdPartyApart, Pkg
<1> HIDE DEF X, R
<1>4. X = R \cap Local
  <2>1. ClosedUnder(R \cap Local, LocalDeps)
    BY <1>1, LocalGraphFacts DEF ClosedUnder
  <2>2. X \subseteq R \cap Local
    BY <1>1, <1>2, <2>1
  <2>3. ClosedUnder(X \cup ThirdParty, deps)
    BY <1>2, <1>3, GraphFacts DEF ClosedUnder, Pkg
  <2>4. R \subseteq X \cup ThirdParty
    BY <1>1, <1>2, <2>3 DEF Pkg
  <2> QED
    BY <2>2, <2>4, PackageAssumption
<1>5. /\ D \subseteq X \ {target} /\ \A p \in D : Leads(p)
      /\ \A p \in X \ {target} : deps[p] \cap (D \cup {target}) # {} => p \in D
  BY <1>2, DependentsFacts
<1> HIDE DEF D
<1>6. ASSUME NEW p \in X, p # target, Leads(p), p \notin D PROVE FALSE
  <2> DEFINE C == (X \ (D \cup {target})) \cup ThirdParty
  <2>1. p \in C /\ target \notin C
    BY <1>6, PackageAssumption
  <2>2. \A x \in C : deps[x] \subseteq C
    BY <1>2, <1>3, <1>5, GraphFacts DEF Pkg
  <2> HIDE DEF C
  <2>3. Reach({p}, deps) \subseteq C
    BY <1>2, <2>1, <2>2, ReachInPkg DEF ClosedUnder, Pkg
  <2> QED
    BY <1>6, <2>1, <2>3 DEF Leads
<1> QED
  BY <1>4, <1>5, <1>6 DEF AffectedLocalDeps, D, X, R

-----------------------------------------------------------------------------
(***************************************************************************)
(* Every step keeps PlaceInv.                                              *)
(***************************************************************************)
LEMMA InitPlaceInv == Init => PlaceInv
<1> SUFFICES ASSUME Init PROVE PlaceInv
  OBVIOUS
<1>1. deps \in Graphs /\ scope \in Scopes(deps) /\ tests \in [Local -> SUBSET {"internal", "external"}]
  BY DEF Init
<1>2. IsFiniteSet(Testable)
  BY <1>1, PackageAssumption, FS_Subset DEF Testable, Scopes, Pkg
<1>3. pending \in Seq(Testable)
  BY <1>2, OrderFacts DEF Init, TestOrders
<1>4. TypeInv
  BY <1>1, <1>3 DEF Init, TypeInv, Busy, BusyPhases, Phases
<1>5. FilesInv
  <2>1. /\ DOMAIN Derivations = {Lib(p) : p \in Pkg} \cup {Iface(p) : p \in Pkg}
        /\ \A p \in Pkg : Derivations[Lib(p)] = Built(p) /\ Derivations[Iface(p)] = Built(p)
    BY DEF Derivations, Lib, Iface
  <2>2. IsFiniteSet({Lib(p) : p \in Pkg})
    <3> DEFINE f == [p \in Pkg |-> Lib(p)]
    <3>1. f \in Surjection(Pkg, {Lib(p) : p \in Pkg})
      BY DEF Surjection
    <3> QED
      BY <3>1, FS_Surjection, PackageAssumption
  <2>4. IsFiniteSet({Iface(p) : p \in Pkg})
    <3> DEFINE f == [p \in Pkg |-> Iface(p)]
    <3>1. f \in Surjection(Pkg, {Iface(p) : p \in Pkg})
      BY DEF Surjection
    <3> QED
      BY <3>1, FS_Surjection, PackageAssumption
  <2>3. IsFiniteSet(DOMAIN Derivations)
    BY <2>1, <2>2, <2>4, FS_Union
  <2> QED
    BY <2>1, <2>3 DEF Init, FilesInv
<1>6. CfgInv /\ ListInv /\ RoundInv
  BY DEF Init, CfgInv, ListInv, RoundInv, Busy, BusyPhases
<1> QED
  BY <1>4, <1>5, <1>6 DEF PlaceInv

LEMMA TargetFacts ==
  ASSUME TypeInv, pending # <<>>
  PROVE  target \in scope /\ target \in Local /\ target \in Pkg /\ target \in Nat \ {0}
         /\ scope \subseteq Local /\ InCfg \subseteq Pkg
<1>1. target \in Testable
  BY DEF TypeInv, target
<1>2. scope \subseteq Local
  BY DEF TypeInv, Scopes
<1> QED
  BY <1>1, <1>2, PackageAssumption DEF Testable, Pkg, InCfg

\* A compile writes one file, and none that a derivation built.
LEMMA CompileKeeps ==
  ASSUME TypeInv, FilesInv, pending # <<>>, UNCHANGED <<deps, pending>>,
         NEW path, NEW paths, NEW name, NEW k, Compile(path, paths, InTestDir(target, name, k))
  PROVE  /\ FilesInv'
         /\ \A f : MadeFor(f) => MadeFor(f)'
         /\ MadeFor(InTestDir(target, name, k))'
         /\ files'[InTestDir(target, name, k)] = Archive(path, target, Resolved(paths))
         /\ \A f \in DOMAIN files : f # InTestDir(target, name, k) => files'[f] = files[f]
<1> DEFINE F == InTestDir(target, name, k)
           a == Archive(path, target, Resolved(paths))
<1>1. files' = [g \in DOMAIN files \cup {F} |-> IF g = F THEN a ELSE files[g]]
  BY DEF Compile
<1>2. \A p : F # Lib(p) /\ F # Iface(p)
  BY TargetFacts, SanitizedAssumption DEF InTestDir, Lib, Iface
<1>3. a.round = target
  BY DEF Archive
<1>7. target' = target /\ F' = F
  BY DEF target, InTestDir
<1> HIDE DEF F, a
<1>4. DOMAIN files' = DOMAIN files \cup {F} /\ files'[F] = a
      /\ \A g \in DOMAIN files : g # F => files'[g] = files[g]
  BY <1>1
<1>5. IsFiniteSet(DOMAIN files')
  BY <1>4, FS_AddElement DEF FilesInv
<1>6. FilesInv'
  BY <1>2, <1>4, <1>5 DEF FilesInv, Built
<1>8. \A f : MadeFor(f) => MadeFor(f)'
  BY <1>3, <1>4, <1>7 DEF MadeFor
<1>9. MadeFor(F)'
  BY <1>3, <1>4, <1>7 DEF MadeFor
<1> QED
  BY <1>4, <1>6, <1>8, <1>9 DEF F, a

\* What overrideImportCfgEntry makes of an importcfg.
LEMMA OverridePackage ==
  ASSUME NEW S, NEW F, NEW path \in S, NEW f
  PROVE  Override({<<p, F[p]>> : p \in S}, path, f)
           = {<<p, IF p = path THEN f ELSE F[p]>> : p \in S}
  BY DEF Override

LEMMA OverrideNew ==
  ASSUME NEW S, NEW F, NEW path, path \notin S, NEW f
  PROVE  Override({<<p, F[p]>> : p \in S}, path, f) = {<<p, F[p]>> : p \in S} \cup {<<path, f>>}
  BY DEF Override

\* A package is replaced in both importcfgs.
LEMMA ReplaceKeeps ==
  ASSUME TypeInv, CfgInv, Busy, UNCHANGED <<inputs, pending>>, phase' \in BusyPhases,
         ExternalEntries = {}, ExternalEntries' = {},
         NEW r \in InCfg, OverrideBoth(r, TestDirFile(r)), Replaced' = Replaced \cup {r}
  PROVE  CfgInv'
<1>1. /\ linkCfg = {<<p, LinkFile(p)>> : p \in InCfg}
      /\ Split => compileCfg = {<<p, CompileFile(p)>> : p \in InCfg}
      /\ ~Split => compileCfg = {}
  BY DEF CfgInv
<1>2. InCfg' = InCfg /\ target' = target /\ scope' = scope
  BY DEF inputs, InCfg, target
<1>3. \A p : TestDirFile(p)' = TestDirFile(p)
  BY <1>2 DEF TestDirFile, InTestDir
<1>4. /\ \A p \in InCfg : LinkFile(p)' = IF p = r THEN TestDirFile(r) ELSE LinkFile(p)
      /\ \A p \in InCfg : CompileFile(p)' = IF p = r THEN TestDirFile(r) ELSE CompileFile(p)
  BY <1>2, <1>3 DEF LinkFile, CompileFile
<1>5. linkCfg' = {<<p, LinkFile(p)'>> : p \in InCfg}
  <2> DEFINE F == [p \in InCfg |-> LinkFile(p)]
  <2>1. linkCfg = {<<p, F[p]>> : p \in InCfg} /\ \A p \in InCfg : F[p] = LinkFile(p)
    BY <1>1
  <2> HIDE DEF F
  <2>2. linkCfg' = Override(linkCfg, r, TestDirFile(r))
    BY DEF OverrideBoth
  <2>3. linkCfg' = {<<p, IF p = r THEN TestDirFile(r) ELSE F[p]>> : p \in InCfg}
    BY <2>1, <2>2, OverridePackage
  <2> QED
    BY <1>4, <2>1, <2>3
<1>6. CASE Split
  <2> DEFINE F == [p \in InCfg |-> CompileFile(p)]
  <2>1. compileCfg = {<<p, F[p]>> : p \in InCfg} /\ \A p \in InCfg : F[p] = CompileFile(p)
    BY <1>1, <1>6
  <2> HIDE DEF F
  <2>2. compileCfg' = Override(compileCfg, r, TestDirFile(r))
    BY <1>6 DEF OverrideBoth
  <2>3. compileCfg' = {<<p, IF p = r THEN TestDirFile(r) ELSE F[p]>> : p \in InCfg}
    BY <2>1, <2>2, OverridePackage
  <2>4. compileCfg' = {<<p, CompileFile(p)'>> : p \in InCfg}
    BY <1>4, <2>1, <2>3
  <2> QED
    BY <1>2, <1>5, <1>6, <2>4 DEF CfgInv
<1>7. CASE ~Split
  BY <1>1, <1>2, <1>5, <1>7 DEF CfgInv, OverrideBoth
<1> QED
  BY <1>6, <1>7

LEMMA SameTarget ==
  ASSUME UNCHANGED <<inputs, pending>>
  PROVE  /\ target' = target /\ InCfg' = InCfg /\ Testable' = Testable /\ Importable' = Importable
         /\ deps' = deps /\ tests' = tests /\ scope' = scope
         /\ Has("internal")' = Has("internal") /\ Has("external")' = Has("external")
         /\ \A p : TestDirFile(p)' = TestDirFile(p)
         /\ ExternalFile' = ExternalFile /\ MainFile' = MainFile
  BY DEF inputs, target, InCfg, Testable, Importable, Has, TestDirFile, ExternalFile, MainFile, InTestDir

LEMMA StaysTyped ==
  ASSUME TypeInv, Busy, UNCHANGED <<inputs, pending, xtestImports>>, phase' \in Phases
  PROVE  TypeInv'
  BY SameTarget DEF TypeInv, Busy

LEMMA StartKeeps == PlaceInv /\ Start => PlaceInv'
<1> SUFFICES ASSUME PlaceInv, Start PROVE PlaceInv'
  OBVIOUS
<1>1. /\ pending # <<>> /\ phase = "start" /\ phase' = "internal"
      /\ UNCHANGED <<inputs, pending, recompile, files>>
      /\ linkCfg' = LinkEntries /\ compileCfg' = IF Split THEN CompileEntries ELSE {}
      /\ recompiled' = {}
  BY DEF Start, Goto
<1>2. xtestImports' \subseteq Importable \ {target}
  BY DEF Start
<1>3. /\ target' = target /\ InCfg' = InCfg /\ Testable' = Testable /\ Importable' = Importable
      /\ deps' = deps /\ tests' = tests /\ scope' = scope
  BY <1>1, SameTarget
<1>4. Busy' /\ Replaced' = {} /\ ExternalEntries' = {}
  BY <1>1 DEF Busy, BusyPhases, LaterPhases, LastPhases, Replaced, ExternalEntries
<1>5. TypeInv'
  BY <1>1, <1>2, <1>3 DEF PlaceInv, TypeInv, Phases
<1>6. FilesInv'
  BY <1>1, <1>3 DEF PlaceInv, FilesInv, Built
<1>7. CfgInv'
  BY <1>1, <1>3, <1>4 DEF CfgInv, LinkEntries, CompileEntries, LinkFile, CompileFile
<1>8. ListInv'
  <2>1. recompile = <<>>
    BY <1>1 DEF PlaceInv, ListInv
  <2> QED
    BY <1>1, <2>1 DEF ListInv
<1>9. RoundInv'
  BY <1>1, <1>4 DEF RoundInv, LastPhases
<1> QED
  BY <1>5, <1>6, <1>7, <1>8, <1>9 DEF PlaceInv

LEMMA CompileInternalKeeps == PlaceInv /\ CompileInternal => PlaceInv'
<1> SUFFICES ASSUME PlaceInv, CompileInternal PROVE PlaceInv'
  OBVIOUS
<1>1. /\ pending # <<>> /\ phase = "internal" /\ phase' = "affected"
      /\ UNCHANGED <<inputs, pending, xtestImports, recompile, recompiled>>
  BY DEF CompileInternal, Goto
<1>2. /\ target' = target /\ InCfg' = InCfg /\ deps' = deps /\ tests' = tests /\ scope' = scope
      /\ Has("internal")' = Has("internal") /\ Has("external")' = Has("external")
      /\ \A p : TestDirFile(p)' = TestDirFile(p)
  BY <1>1, SameTarget
<1>3. Busy /\ Busy' /\ Replaced = {} /\ ExternalEntries = {} /\ ExternalEntries' = {}
  BY <1>1 DEF Busy, BusyPhases, LaterPhases, LastPhases, Replaced, ExternalEntries
<1>4. TypeInv'
  BY <1>1, <1>3, StaysTyped DEF PlaceInv, Phases
<1>5. ListInv' /\ recompiled = {}
  BY <1>1, <1>2, <1>3 DEF PlaceInv, ListInv
<1>6. CASE Has("internal")
  <2>1. PICK testImports \in SUBSET Importable :
          /\ Compile(target, deps[target] \cup testImports, InTestDir(target, "internal", 0))
          /\ OverrideBoth(target, InTestDir(target, "internal", 0))
    BY <1>6 DEF CompileInternal
  <2>2. TestDirFile(target) = InTestDir(target, "internal", 0)
    BY DEF TestDirFile
  <2>3. Replaced' = Replaced \cup {target}
    BY <1>1, <1>2, <1>3, <1>5, <1>6 DEF Replaced, LaterPhases
  <2>4. FilesInv' /\ MadeFor(InTestDir(target, "internal", 0))'
    BY <1>1, <1>2, <2>1, CompileKeeps DEF PlaceInv
  <2>5. CfgInv'
    <3>1. target \in InCfg
      BY <1>1, TargetFacts DEF PlaceInv, InCfg
    <3> QED
      BY <1>1, <1>3, <2>1, <2>2, <2>3, <3>1, ReplaceKeeps DEF PlaceInv, BusyPhases
  <2>6. RoundInv'
    <3>1. \A p \in Replaced' : TestDirFile(p)' = InTestDir(target, "internal", 0)
      BY <1>2, <1>3, <2>2, <2>3
    <3>2. InTestDir(target, "internal", 0)' = InTestDir(target, "internal", 0)
      BY <1>2 DEF InTestDir
    <3> QED
      BY <1>1, <1>2, <2>4, <3>1, <3>2 DEF RoundInv, MadeFor, LastPhases
  <2> QED
    BY <1>4, <1>5, <2>4, <2>5, <2>6 DEF PlaceInv
<1>7. CASE ~Has("internal")
  <2>1. UNCHANGED <<files, linkCfg, compileCfg>>
    BY <1>7 DEF CompileInternal
  <2>2. Replaced' = {}
    BY <1>2, <1>7 DEF Replaced
  <2>3. FilesInv'
    BY <1>2, <2>1 DEF PlaceInv, FilesInv, Built
  <2>4. CfgInv'
    BY <1>2, <1>3, <2>1, <2>2 DEF PlaceInv, CfgInv, LinkFile, CompileFile
  <2>5. RoundInv'
    BY <1>1, <2>2 DEF RoundInv, LastPhases
  <2> QED
    BY <1>4, <1>5, <2>3, <2>4, <2>5 DEF PlaceInv
<1> QED
  BY <1>6, <1>7

\* The order of what is affected.
LEMMA AffectedOrder ==
  ASSUME TypeInv, Busy, NEW o \in TopologicalOrders(AffectedLocalDeps(xtestImports), LocalDeps)
  PROVE  /\ AffectedLocalDeps(xtestImports) \subseteq scope \ {target}
         /\ o \in Seq(AffectedLocalDeps(xtestImports)) /\ Len(o) \in Nat
         /\ \A i, j \in 1..Len(o) : i # j => o[i] # o[j]
         /\ \A i \in 1..Len(o) : o[i] \in AffectedLocalDeps(xtestImports)
         /\ \A p \in AffectedLocalDeps(xtestImports) : \E i \in 1..Len(o) : o[i] = p
         /\ \A i \in 1..Len(o) : \A q \in LocalDeps[o[i]] \cap AffectedLocalDeps(xtestImports) :
              \E j \in 1..Len(o) : j < i /\ o[j] = q
<1>1. target \in scope /\ scope \subseteq Local
  BY TargetFacts DEF Busy
<1>2. AffectedLocalDeps(xtestImports) \subseteq scope \ {target}
  BY <1>1, AffectedInScope DEF TypeInv
<1> DEFINE A == AffectedLocalDeps(xtestImports)
<1>3. IsFiniteSet(A)
  BY <1>1, <1>2, PackageAssumption, FS_Subset DEF Pkg
<1> HIDE DEF A
<1>4. /\ o \in Seq(A) /\ Len(o) \in Nat
      /\ \A i, j \in 1..Len(o) : i # j => o[i] # o[j]
      /\ \A i \in 1..Len(o) : o[i] \in A
      /\ \A p \in A : \E i \in 1..Len(o) : o[i] = p
      /\ \A i \in 1..Len(o) : \A q \in LocalDeps[o[i]] \cap A : \E j \in 1..Len(o) : j < i /\ o[j] = q
  <2> DEFINE g == LocalDeps
  <2>1. o \in TopologicalOrders(A, g)
    BY DEF A
  <2> HIDE DEF g
  <2>2. /\ o \in Seq(A) /\ Len(o) \in Nat
        /\ \A i, j \in 1..Len(o) : i # j => o[i] # o[j]
        /\ \A i \in 1..Len(o) : o[i] \in A
        /\ \A p \in A : \E i \in 1..Len(o) : o[i] = p
        /\ \A i \in 1..Len(o) : \A q \in g[o[i]] \cap A : \E j \in 1..Len(o) : j < i /\ o[j] = q
    BY <1>3, <2>1, OrderFacts
  <2> QED
    BY <2>2 DEF g
<1> QED
  BY <1>2, <1>4 DEF A

LEMMA ComputeAffectedKeeps == PlaceInv /\ ComputeAffected => PlaceInv'
<1> SUFFICES ASSUME PlaceInv, ComputeAffected PROVE PlaceInv'
  OBVIOUS
<1>1. /\ pending # <<>> /\ phase = "affected" /\ phase' = "recompile"
      /\ UNCHANGED <<inputs, pending, xtestImports, recompiled, files, linkCfg, compileCfg>>
  BY DEF ComputeAffected, Goto
<1>2. /\ target' = target /\ InCfg' = InCfg /\ deps' = deps /\ tests' = tests /\ scope' = scope
      /\ Has("internal")' = Has("internal") /\ Has("external")' = Has("external")
      /\ \A p : TestDirFile(p)' = TestDirFile(p)
  BY <1>1, SameTarget
<1>3. Busy /\ Busy' /\ Replaced' = Replaced /\ ExternalEntries = {} /\ ExternalEntries' = {}
  BY <1>1, <1>2 DEF Busy, BusyPhases, LaterPhases, LastPhases, Replaced, ExternalEntries
<1>4. TypeInv'
  BY <1>1, <1>3, StaysTyped DEF PlaceInv, Phases
<1>5. FilesInv'
  BY <1>1, <1>2 DEF PlaceInv, FilesInv, Built
<1>6. CfgInv'
  BY <1>1, <1>2, <1>3 DEF PlaceInv, CfgInv, LinkFile, CompileFile
<1>7. ListInv'
  <2>1. CASE Has("internal") /\ Has("external")
    <3>1. recompile' \in TopologicalOrders(AffectedLocalDeps(xtestImports), LocalDeps)
      BY <2>1 DEF ComputeAffected
    <3>2. recompile' \in Seq(scope \ {target})
      BY <1>3, <3>1, AffectedOrder DEF PlaceInv
    <3> QED
      BY <1>1, <1>2, <1>3, <2>1, <3>2 DEF PlaceInv, ListInv
  <2>2. CASE ~(Has("internal") /\ Has("external"))
    BY <1>1, <1>2, <1>3, <2>2 DEF PlaceInv, ListInv, ComputeAffected
  <2> QED
    BY <2>1, <2>2
<1>8. RoundInv'
  BY <1>1, <1>2, <1>3 DEF PlaceInv, RoundInv, MadeFor, LastPhases
<1> QED
  BY <1>4, <1>5, <1>6, <1>7, <1>8 DEF PlaceInv

LEMMA RecompileNextKeeps == PlaceInv /\ RecompileNext => PlaceInv'
<1> SUFFICES ASSUME PlaceInv, RecompileNext PROVE PlaceInv'
  OBVIOUS
<1>0. PICK p : p = Head(recompile)
  OBVIOUS
<1>1. /\ pending # <<>> /\ phase = "recompile" /\ phase' = "recompile" /\ recompile # <<>>
      /\ UNCHANGED <<inputs, pending, xtestImports>>
      /\ Compile(p, deps[p], InTestDir(target, "recomp", Sanitized[p]))
      /\ OverrideBoth(p, InTestDir(target, "recomp", Sanitized[p]))
      /\ recompiled' = recompiled \cup {p} /\ recompile' = Tail(recompile)
  BY <1>0 DEF RecompileNext, Goto
<1>2. /\ target' = target /\ InCfg' = InCfg /\ deps' = deps /\ tests' = tests /\ scope' = scope
      /\ Has("internal")' = Has("internal") /\ Has("external")' = Has("external")
      /\ \A q : TestDirFile(q)' = TestDirFile(q)
  BY <1>1, SameTarget
<1>3. Busy /\ Busy' /\ ExternalEntries = {} /\ ExternalEntries' = {}
  BY <1>1 DEF Busy, BusyPhases, LastPhases, ExternalEntries
<1>4. /\ recompile \in Seq(scope \ {target}) /\ recompiled \subseteq scope \ {target}
      /\ Has("internal") /\ Has("external")
  BY <1>1, <1>3 DEF PlaceInv, ListInv
<1>5. p \in scope \ {target} /\ Tail(recompile) \in Seq(scope \ {target})
  BY <1>0, <1>1, <1>4
<1>6. TestDirFile(p) = InTestDir(target, "recomp", Sanitized[p])
  BY <1>5 DEF TestDirFile
<1>7. Replaced' = Replaced \cup {p}
  BY <1>1, <1>2, <1>4 DEF Replaced, LaterPhases
<1>8. TypeInv'
  BY <1>1, <1>3, StaysTyped DEF PlaceInv, Phases
<1>9. /\ FilesInv' /\ \A f : MadeFor(f) => MadeFor(f)'
      /\ MadeFor(InTestDir(target, "recomp", Sanitized[p]))'
  BY <1>1, <1>2, CompileKeeps DEF PlaceInv
<1>10. CfgInv'
  <2>1. p \in InCfg
    BY <1>5 DEF InCfg
  <2> QED
    BY <1>1, <1>3, <1>6, <1>7, <2>1, ReplaceKeeps DEF PlaceInv, BusyPhases
<1>11. ListInv'
  BY <1>1, <1>2, <1>3, <1>4, <1>5 DEF ListInv
<1>12. RoundInv'
  <2>1. \A q \in Replaced' : MadeFor(TestDirFile(q))'
    <3>1. ASSUME NEW q \in Replaced PROVE MadeFor(TestDirFile(q))'
      <4>1. MadeFor(TestDirFile(q))
        BY <1>3 DEF PlaceInv, RoundInv
      <4> QED
        BY <1>2, <1>9, <4>1 DEF MadeFor
    <3>2. MadeFor(TestDirFile(p))'
      BY <1>2, <1>6, <1>9 DEF MadeFor
    <3> QED
      BY <1>7, <3>1, <3>2
  <2> QED
    BY <1>1, <2>1 DEF RoundInv, LastPhases
<1> QED
  BY <1>8, <1>9, <1>10, <1>11, <1>12 DEF PlaceInv

LEMMA CompileExternalKeeps == PlaceInv /\ CompileExternal => PlaceInv'
<1> SUFFICES ASSUME PlaceInv, CompileExternal PROVE PlaceInv'
  OBVIOUS
<1>1. /\ pending # <<>> /\ phase = "recompile" /\ phase' = "main" /\ recompile = <<>>
      /\ UNCHANGED <<inputs, pending, xtestImports, recompile, recompiled>>
  BY DEF CompileExternal, Goto
<1>2. /\ target' = target /\ InCfg' = InCfg /\ deps' = deps /\ tests' = tests /\ scope' = scope
      /\ Has("internal")' = Has("internal") /\ Has("external")' = Has("external")
      /\ \A q : TestDirFile(q)' = TestDirFile(q)
      /\ ExternalFile' = ExternalFile
  BY <1>1, SameTarget
<1>3. Busy /\ Busy' /\ ExternalEntries = {} /\ Replaced' = Replaced
  BY <1>1, <1>2 DEF Busy, BusyPhases, LastPhases, ExternalEntries, Replaced, LaterPhases
<1>4. \A p : LinkFile(p)' = LinkFile(p) /\ CompileFile(p)' = CompileFile(p)
  BY <1>2, <1>3 DEF LinkFile, CompileFile, Lib, Iface
<1>5. TypeInv' /\ ListInv'
  BY <1>1, <1>2, <1>3, StaysTyped DEF PlaceInv, ListInv, Phases
<1>6. CASE Has("external")
  <2>1. PICK own \in SUBSET {target} :
          /\ Compile(XTest(target), xtestImports \cup own, InTestDir(target, "external", 0))
          /\ OverrideBoth(XTest(target), InTestDir(target, "external", 0))
    BY <1>6 DEF CompileExternal
  <2>2. /\ FilesInv' /\ \A f : MadeFor(f) => MadeFor(f)'
        /\ MadeFor(InTestDir(target, "external", 0))'
    BY <1>1, <1>2, <2>1, CompileKeeps DEF PlaceInv
  <2>3. ExternalEntries' = {<<XTest(target), ExternalFile>>}
    BY <1>1, <1>2, <1>6 DEF ExternalEntries, LastPhases, XTest
  <2>4. XTest(target) \notin InCfg
    BY <1>1, TargetFacts, PackageAssumption DEF PlaceInv, XTest
  <2>5. linkCfg' = {<<p, LinkFile(p)'>> : p \in InCfg} \cup ExternalEntries'
    <3> DEFINE F == [p \in InCfg |-> LinkFile(p)]
    <3>1. linkCfg = {<<p, F[p]>> : p \in InCfg} /\ \A p \in InCfg : F[p] = LinkFile(p)
      BY <1>3 DEF PlaceInv, CfgInv
    <3> HIDE DEF F
    <3>2. linkCfg' = {<<p, F[p]>> : p \in InCfg} \cup {<<XTest(target), ExternalFile>>}
      BY <2>1, <2>4, <3>1, OverrideNew DEF OverrideBoth, ExternalFile
    <3> QED
      BY <1>4, <2>3, <3>1, <3>2
  <2>6. ASSUME Split PROVE CfgInv'
    <3> DEFINE F == [p \in InCfg |-> CompileFile(p)]
    <3>1. compileCfg = {<<p, F[p]>> : p \in InCfg} /\ \A p \in InCfg : F[p] = CompileFile(p)
      BY <1>3, <2>6 DEF PlaceInv, CfgInv
    <3> HIDE DEF F
    <3>2. compileCfg' = {<<p, F[p]>> : p \in InCfg} \cup {<<XTest(target), ExternalFile>>}
      BY <2>1, <2>4, <2>6, <3>1, OverrideNew DEF OverrideBoth, ExternalFile
    <3>3. compileCfg' = {<<p, CompileFile(p)'>> : p \in InCfg} \cup ExternalEntries'
      BY <1>4, <2>3, <3>1, <3>2
    <3> QED
      BY <1>2, <2>5, <2>6, <3>3 DEF CfgInv
  <2>7. ASSUME ~Split PROVE CfgInv'
    BY <1>2, <1>3, <2>1, <2>5, <2>7 DEF PlaceInv, CfgInv, OverrideBoth
  <2>8. RoundInv'
    <3>1. \A q \in Replaced' : MadeFor(TestDirFile(q))'
      <4>1. \A q \in Replaced : MadeFor(TestDirFile(q))
        BY <1>3 DEF PlaceInv, RoundInv
      <4> QED
        BY <1>2, <1>3, <2>2, <4>1 DEF MadeFor
    <3>2. MadeFor(ExternalFile)'
      BY <1>2, <2>2 DEF MadeFor, ExternalFile
    <3> QED
      BY <1>1, <3>1, <3>2 DEF RoundInv
  <2> QED
    BY <1>5, <2>2, <2>6, <2>7, <2>8 DEF PlaceInv
<1>7. CASE ~Has("external")
  <2>1. UNCHANGED <<files, linkCfg, compileCfg>> /\ ExternalEntries' = {}
    BY <1>2, <1>7 DEF CompileExternal, ExternalEntries
  <2>2. FilesInv'
    BY <1>2, <2>1 DEF PlaceInv, FilesInv, Built
  <2>3. CfgInv'
    BY <1>2, <1>3, <1>4, <2>1 DEF PlaceInv, CfgInv
  <2>4. RoundInv'
    BY <1>1, <1>2, <1>3, <1>7, <2>1 DEF PlaceInv, RoundInv, MadeFor
  <2> QED
    BY <1>5, <2>2, <2>3, <2>4 DEF PlaceInv
<1> QED
  BY <1>6, <1>7

LEMMA CompileTestMainKeeps == PlaceInv /\ CompileTestMain => PlaceInv'
<1> SUFFICES ASSUME PlaceInv, CompileTestMain PROVE PlaceInv'
  OBVIOUS
<1>1. /\ pending # <<>> /\ phase = "main" /\ phase' = "link"
      /\ UNCHANGED <<inputs, pending, xtestImports, recompile, recompiled, linkCfg, compileCfg>>
  BY DEF CompileTestMain, Goto
<1>2. PICK imports : Compile(TestMain, imports, InTestDir(target, "testmain", 0))
  BY DEF CompileTestMain
<1>3. /\ target' = target /\ InCfg' = InCfg /\ deps' = deps /\ tests' = tests /\ scope' = scope
      /\ Has("internal")' = Has("internal") /\ Has("external")' = Has("external")
      /\ \A q : TestDirFile(q)' = TestDirFile(q)
      /\ ExternalFile' = ExternalFile /\ MainFile' = MainFile
  BY <1>1, SameTarget
<1>4. Busy /\ Busy' /\ ExternalEntries' = ExternalEntries /\ Replaced' = Replaced
  BY <1>1, <1>3 DEF Busy, BusyPhases, LastPhases, ExternalEntries, Replaced, LaterPhases, XTest
<1>5. TypeInv' /\ ListInv'
  BY <1>1, <1>3, <1>4, StaysTyped DEF PlaceInv, ListInv, Phases
<1>6. /\ FilesInv' /\ \A f : MadeFor(f) => MadeFor(f)'
      /\ MadeFor(InTestDir(target, "testmain", 0))'
  BY <1>1, <1>2, <1>3, CompileKeeps DEF PlaceInv
<1>7. CfgInv'
  BY <1>1, <1>3, <1>4 DEF PlaceInv, CfgInv, LinkFile, CompileFile
<1>8. RoundInv'
  <2>1. /\ \A q \in Replaced : MadeFor(TestDirFile(q))
        /\ Has("external") => MadeFor(ExternalFile)
    BY <1>1, <1>4 DEF PlaceInv, RoundInv, LastPhases
  <2>2. \A q \in Replaced' : MadeFor(TestDirFile(q))'
    BY <1>3, <1>4, <1>6, <2>1 DEF MadeFor
  <2>3. Has("external") => MadeFor(ExternalFile)'
    BY <1>3, <1>6, <2>1 DEF MadeFor
  <2>4. MadeFor(MainFile)'
    BY <1>3, <1>6 DEF MadeFor, MainFile
  <2> QED
    BY <1>1, <1>3, <2>2, <2>3, <2>4 DEF RoundInv
<1> QED
  BY <1>5, <1>6, <1>7, <1>8 DEF PlaceInv

\* Steps that leave runPackageTests, or change nothing.
LEMMA LeaveKeeps == PlaceInv /\ (LinkAndRun \/ Abort \/ UNCHANGED vars) => PlaceInv'
<1>1. ASSUME PlaceInv, LinkAndRun PROVE PlaceInv'
  <2>1. /\ pending # <<>> /\ phase = "link" /\ phase' = "start" /\ pending' = Tail(pending)
        /\ UNCHANGED <<inputs, recompile, recompiled, files, linkCfg, compileCfg>>
    BY <1>1 DEF LinkAndRun, Goto
  <2>2. ~Busy' /\ Testable' = Testable
    BY <2>1 DEF Busy, BusyPhases, inputs, Testable
  <2>3. pending' \in Seq(Testable)
    BY <1>1, <2>1 DEF PlaceInv, TypeInv
  <2>4. TypeInv'
    BY <1>1, <2>1, <2>2, <2>3 DEF PlaceInv, TypeInv, inputs, Phases
  <2>5. FilesInv'
    BY <1>1, <2>1 DEF PlaceInv, FilesInv, inputs, Built
  <2> QED
    BY <1>1, <2>1, <2>2, <2>4, <2>5 DEF PlaceInv, CfgInv, ListInv, RoundInv
<1>2. ASSUME PlaceInv, Abort PROVE PlaceInv'
  <2>1. /\ phase' = "failed"
        /\ UNCHANGED <<inputs, pending, recompile, recompiled, files, linkCfg, compileCfg>>
    BY <1>2 DEF Abort, Fails
  <2>2. ~Busy' /\ Testable' = Testable
    BY <2>1 DEF Busy, BusyPhases, inputs, Testable
  <2>4. TypeInv'
    BY <1>2, <2>1, <2>2 DEF PlaceInv, TypeInv, inputs, Phases
  <2>5. FilesInv'
    BY <1>2, <2>1 DEF PlaceInv, FilesInv, inputs, Built
  <2> QED
    BY <1>2, <2>1, <2>2, <2>4, <2>5 DEF PlaceInv, CfgInv, ListInv, RoundInv
<1>3. ASSUME PlaceInv, UNCHANGED vars PROVE PlaceInv'
  <2>1. /\ UNCHANGED <<inputs, pending, phase, xtestImports, recompile, recompiled, files, linkCfg, compileCfg>>
    BY <1>3 DEF vars, inputs
  <2>2. /\ target' = target /\ InCfg' = InCfg /\ Testable' = Testable /\ Importable' = Importable
        /\ deps' = deps /\ tests' = tests /\ scope' = scope
        /\ Has("internal")' = Has("internal") /\ Has("external")' = Has("external")
        /\ \A p : TestDirFile(p)' = TestDirFile(p)
        /\ ExternalFile' = ExternalFile /\ MainFile' = MainFile
    BY <2>1, SameTarget
  <2>3. Busy' = Busy /\ Replaced' = Replaced /\ ExternalEntries' = ExternalEntries
    BY <2>1, <2>2 DEF Busy, Replaced, ExternalEntries, XTest
  <2>4. TypeInv' /\ FilesInv' /\ ListInv'
    BY <1>3, <2>1, <2>2, <2>3 DEF PlaceInv, TypeInv, FilesInv, ListInv, Built
  <2>5. CfgInv'
    BY <1>3, <2>1, <2>2, <2>3 DEF PlaceInv, CfgInv, LinkFile, CompileFile
  <2>6. RoundInv'
    BY <1>3, <2>1, <2>2, <2>3 DEF PlaceInv, RoundInv, MadeFor
  <2> QED
    BY <2>4, <2>5, <2>6 DEF PlaceInv
<1> QED
  BY <1>1, <1>2, <1>3

LEMMA NextPlaceInv == PlaceInv /\ [Next]_vars => PlaceInv'
  BY StartKeeps, CompileInternalKeeps, ComputeAffectedKeeps, RecompileNextKeeps,
     CompileExternalKeeps, CompileTestMainKeeps, LeaveKeeps DEF Next, Done

-----------------------------------------------------------------------------
(***************************************************************************)
(* What is linked.                                                         *)
(***************************************************************************)
LEMMA LookupFacts ==
  ASSUME PlaceInv, Linking
  PROVE  /\ Busy
         /\ \A p \in InCfg : Lookup(linkCfg, p) = {LinkFile(p)}
         /\ Has("external") => Lookup(linkCfg, XTest(target)) = {ExternalFile}
         /\ \A path : Lookup(linkCfg, path) \subseteq
                        {LinkFile(p) : p \in InCfg} \cup {f \in {ExternalFile} : Has("external")}
<1>1. Busy
  BY DEF Linking, Busy, BusyPhases
<1>2. linkCfg = {<<p, LinkFile(p)>> : p \in InCfg} \cup ExternalEntries
  BY <1>1 DEF PlaceInv, CfgInv
<1>3. ExternalEntries = {e \in {<<XTest(target), ExternalFile>>} : Has("external")}
  BY DEF ExternalEntries, Linking, LastPhases
<1>4. XTest(target) \notin InCfg
  BY TargetFacts, PackageAssumption DEF PlaceInv, Linking, XTest
<1>5. ASSUME NEW p \in InCfg PROVE Lookup(linkCfg, p) = {LinkFile(p)}
  <2> DEFINE E == {e \in linkCfg : e[1] = p}
  <2>1. E = {<<p, LinkFile(p)>>}
    BY <1>2, <1>3, <1>4
  <2>2. Lookup(linkCfg, p) = {e[2] : e \in E}
    BY DEF Lookup
  <2> HIDE DEF E
  <2> QED
    BY <2>1, <2>2
<1>6. ASSUME Has("external") PROVE Lookup(linkCfg, XTest(target)) = {ExternalFile}
  <2> DEFINE E == {e \in linkCfg : e[1] = XTest(target)}
  <2>1. E = {<<XTest(target), ExternalFile>>}
    BY <1>2, <1>3, <1>4, <1>6
  <2>2. Lookup(linkCfg, XTest(target)) = {e[2] : e \in E}
    BY DEF Lookup
  <2> HIDE DEF E
  <2> QED
    BY <2>1, <2>2
<1>7. ASSUME NEW path, NEW f \in Lookup(linkCfg, path)
      PROVE  f \in {LinkFile(p) : p \in InCfg} \cup {g \in {ExternalFile} : Has("external")}
  BY <1>2, <1>3 DEF Lookup
<1> QED
  BY <1>1, <1>5, <1>6, <1>7

LEMMA PlacesAreThere ==
  ASSUME PlaceInv, Linking
  PROVE  /\ \A p \in InCfg : /\ LinkFile(p) \in DOMAIN files
                              /\ files[LinkFile(p)].round = IF p \in Replaced THEN target ELSE 0
         /\ Has("external") => MadeFor(ExternalFile)
         /\ MadeFor(MainFile)
<1>1. Busy /\ phase = "link"
  BY DEF Linking, Busy, BusyPhases
<1>2. /\ \A p \in Replaced : MadeFor(TestDirFile(p))
      /\ Has("external") => MadeFor(ExternalFile)
      /\ MadeFor(MainFile)
  BY <1>1 DEF PlaceInv, RoundInv, LastPhases
<1>3. ASSUME NEW p \in InCfg
      PROVE  LinkFile(p) \in DOMAIN files /\ files[LinkFile(p)].round = IF p \in Replaced THEN target ELSE 0
  <2>1. CASE p \in Replaced
    BY <1>2, <2>1 DEF LinkFile, MadeFor
  <2>2. CASE p \notin Replaced
    <3>1. p \in Pkg
      BY TargetFacts DEF PlaceInv, Linking
    <3>2. Lib(p) \in DOMAIN files /\ files[Lib(p)] = Built(p)
      BY <3>1 DEF PlaceInv, FilesInv
    <3> QED
      BY <2>2, <3>2 DEF LinkFile, Built, Archive
  <2> QED
    BY <2>1, <2>2
<1> QED
  BY <1>2, <1>3

LEMMA LinkedFacts ==
  ASSUME PlaceInv, Linking, NEW C, C \subseteq DOMAIN files, MainFile \in C,
         \A f \in C : \A s \in files[f].seen : Lookup(linkCfg, s[1]) \subseteq C
  PROVE  /\ Linked \subseteq C
         /\ \A f \in Linked : \A s \in files[f].seen : Lookup(linkCfg, s[1]) \subseteq Linked
<1> DEFINE L == Loads
<1>1. DOMAIN L = DOMAIN files /\ \A f \in DOMAIN files : L[f] = UNION {Lookup(linkCfg, s[1]) : s \in files[f].seen}
  BY DEF Loads
<1> HIDE DEF L
<1>2. IsFiniteSet(DOMAIN L)
  BY <1>1 DEF PlaceInv, FilesInv
<1>3. ClosedUnder(C, L)
  BY <1>1 DEF ClosedUnder
<1>4. Linked = Reach({MainFile}, L)
  BY DEF Linked, MainFile, L
<1>5. Linked \subseteq C /\ ClosedUnder(Linked, L)
  BY <1>1, <1>2, <1>3, <1>4, ReachFacts
<1>6. ASSUME NEW f \in Linked, NEW s \in files[f].seen PROVE Lookup(linkCfg, s[1]) \subseteq Linked
  <2>1. f \in DOMAIN files /\ L[f] \subseteq Linked
    BY <1>5 DEF ClosedUnder
  <2> QED
    BY <1>1, <2>1
<1> QED
  BY <1>5, <1>6

\* Nothing compiled for an earlier target gets into a test binary, even when
\* test directories have one name.
THEOREM NothingLeftOver == Spec => []NoLeftovers
<1>1. PlaceInv => NoLeftovers
  <2> SUFFICES ASSUME PlaceInv, Linking PROVE \A f \in Linked : files[f].round \in {0, target}
    BY DEF NoLeftovers
  <2> DEFINE C == {LinkFile(p) : p \in InCfg} \cup {f \in {ExternalFile} : Has("external")} \cup {MainFile}
  <2>1. \A f \in C : f \in DOMAIN files /\ files[f].round \in {0, target}
    BY PlacesAreThere DEF MadeFor
  <2>2. MainFile \in C /\ \A path : Lookup(linkCfg, path) \subseteq C
    BY LookupFacts
  <2> HIDE DEF C
  <2>3. Linked \subseteq C
    BY <2>1, <2>2, LinkedFacts
  <2> QED
    BY <2>1, <2>3
<1> QED
  BY <1>1, InitPlaceInv, NextPlaceInv, PTL DEF Spec

-----------------------------------------------------------------------------
(***************************************************************************)
(* What is recompiled.                                                     *)
(***************************************************************************)
LEMMA InitNeededInv == Init => NeededInv
  BY DEF Init, NeededInv, Busy, BusyPhases

LEMMA SameNeeded ==
  ASSUME UNCHANGED <<inputs, pending, xtestImports>>
  PROVE  Needed' = Needed
<1>1. /\ target' = target /\ deps' = deps
      /\ Has("internal")' = Has("internal") /\ Has("external")' = Has("external")
  BY SameTarget
<1> QED
  BY <1>1 DEF Needed, Leads

LEMMA ComputeAffectedNeeded ==
  ASSUME ThirdPartyApart, PlaceInv, ComputeAffected
  PROVE  NeededInv'
<1>1. /\ pending # <<>> /\ phase = "affected" /\ phase' = "recompile"
      /\ UNCHANGED <<inputs, pending, xtestImports, recompiled>>
  BY DEF ComputeAffected, Goto
<1>2. Needed' = Needed /\ deps' = deps
  BY <1>1, SameNeeded DEF inputs
<1>3. Busy /\ target \in Local /\ deps \in Graphs
  BY <1>1, TargetFacts DEF Busy, BusyPhases, PlaceInv, TypeInv
<1>4. recompiled = {}
  BY <1>1, <1>3 DEF PlaceInv, ListInv
<1>5. CASE Has("internal") /\ Has("external")
  <2>1. xtestImports \subseteq Pkg
    BY <1>1, <1>3, TargetFacts DEF PlaceInv, TypeInv, Importable, InCfg
  <2>2. AffectedLocalDeps(xtestImports) = Needed
    BY <1>3, <1>5, <2>1, AffectedIsNeeded DEF Needed
  <2>3. recompile' \in TopologicalOrders(AffectedLocalDeps(xtestImports), LocalDeps)
    BY <1>5 DEF ComputeAffected
  <2> DEFINE o == recompile'
  <2>4. /\ o \in Seq(Needed) /\ Len(o) \in Nat
        /\ \A i, j \in 1..Len(o) : i # j => o[i] # o[j]
        /\ \A i \in 1..Len(o) : o[i] \in Needed
        /\ \A p \in Needed : \E i \in 1..Len(o) : o[i] = p
        /\ \A i \in 1..Len(o) : \A q \in LocalDeps[o[i]] \cap Needed :
             \E j \in 1..Len(o) : j < i /\ o[j] = q
    BY <1>3, <2>2, <2>3, AffectedOrder DEF PlaceInv
  <2>5. Needed \subseteq Local
    BY DEF Needed
  <2> HIDE DEF o
  <2>6. {o[i] : i \in 1..Len(o)} = Needed
    BY <2>4, SMTT(30)
  <2>7. ASSUME NEW i \in 1..Len(o), NEW q \in deps[o[i]] \cap Needed
        PROVE  \E j \in 1..(i - 1) : o[j] = q
    <3>1. q \in LocalDeps[o[i]] \cap Needed
      BY <1>3, <2>4, <2>5, <2>7, LocalGraphFacts
    <3>2. PICK j \in 1..Len(o) : j < i /\ o[j] = q
      BY <2>4, <3>1
    <3>3. j \in 1..(i - 1)
      BY <2>4, <3>2
    <3> QED
      BY <3>2, <3>3
  <2>8. InTurn(o, {}, Needed, deps)
    <3>1. \A i \in 1..Len(o) : deps[o[i]] \cap Needed \subseteq {o[j] : j \in 1..(i - 1)}
      BY <2>7
    <3>2. \A i \in 1..Len(o) : \A j \in 1..Len(o) : i # j => o[i] # o[j]
      BY <2>4
    <3> QED
      BY <2>6, <3>1, <3>2 DEF InTurn
  <2> QED
    BY <1>1, <1>2, <1>4, <2>8 DEF NeededInv, LastPhases, o
<1>6. CASE ~(Has("internal") /\ Has("external"))
  <2>1. recompile' = <<>> /\ Needed = {}
    BY <1>6 DEF ComputeAffected, Needed
  <2>2. 1..Len(recompile') = {}
    BY <2>1
  <2>3. InTurn(recompile', {}, {}, deps)
    BY <2>2 DEF InTurn
  <2> QED
    BY <1>1, <1>2, <1>4, <2>1, <2>3 DEF NeededInv, LastPhases
<1> QED
  BY <1>5, <1>6

LEMMA RecompileNextNeeded ==
  ASSUME PlaceInv, NeededInv, RecompileNext
  PROVE  NeededInv'
<1>1. /\ pending # <<>> /\ phase = "recompile" /\ phase' = "recompile" /\ recompile # <<>>
      /\ UNCHANGED <<inputs, pending, xtestImports>>
      /\ recompiled' = recompiled \cup {Head(recompile)} /\ recompile' = Tail(recompile)
  BY DEF RecompileNext, Goto
<1>2. Busy
  BY <1>1 DEF Busy, BusyPhases
<1>3. Needed' = Needed /\ deps' = deps
  BY <1>1, SameNeeded DEF inputs
<1>4. recompile \in Seq(scope \ {target})
  BY <1>2 DEF PlaceInv, ListInv
<1> DEFINE r == recompile
           t == Tail(recompile)
<1>5. /\ Len(r) \in Nat \ {0} /\ Len(t) = Len(r) - 1 /\ Head(r) = r[1]
      /\ \A i \in 1..Len(t) : t[i] = r[i + 1]
  BY <1>1, <1>4
<1>6. /\ recompiled \cup {r[i] : i \in 1..Len(r)} = Needed
      /\ \A i \in 1..Len(r) :
           /\ r[i] \notin recompiled
           /\ \A j \in 1..Len(r) : i # j => r[i] # r[j]
           /\ deps[r[i]] \cap Needed \subseteq recompiled \cup {r[j] : j \in 1..(i - 1)}
  BY <1>1, <1>2 DEF NeededInv, InTurn
<1> HIDE DEF r, t
<1>7. {r[i] : i \in 1..Len(r)} = {r[1]} \cup {t[i] : i \in 1..Len(t)}
  <2>1. ASSUME NEW i \in 1..Len(r) PROVE r[i] \in {r[1]} \cup {t[j] : j \in 1..Len(t)}
    <3>1. CASE i # 1
      <4>1. i - 1 \in 1..Len(t) /\ t[i - 1] = r[i]
        BY <1>5, <3>1
      <4> QED
        BY <4>1
    <3> QED
      BY <3>1
  <2>2. ASSUME NEW i \in 1..Len(t) PROVE t[i] \in {r[j] : j \in 1..Len(r)}
    BY <1>5
  <2>3. 1 \in 1..Len(r)
    BY <1>5
  <2> QED
    BY <2>1, <2>2, <2>3
<1>8. ASSUME NEW i \in 1..Len(t)
      PROVE  /\ t[i] \notin recompiled \cup {r[1]}
             /\ \A j \in 1..Len(t) : i # j => t[i] # t[j]
             /\ deps[t[i]] \cap Needed \subseteq recompiled \cup {r[1]} \cup {t[j] : j \in 1..(i - 1)}
  <2>1. /\ i + 1 \in 1..Len(r) /\ i + 1 # 1 /\ t[i] = r[i + 1] /\ 1 \in 1..Len(r)
        /\ (i + 1) - 1 = i
    BY <1>5
  <2>2. t[i] \notin recompiled \cup {r[1]}
    BY <1>6, <2>1
  <2>3. ASSUME NEW j \in 1..Len(t), i # j PROVE t[i] # t[j]
    <3>1. j + 1 \in 1..Len(r) /\ j + 1 # i + 1 /\ t[j] = r[j + 1]
      BY <1>5, <2>3
    <3> QED
      BY <1>6, <2>1, <3>1
  <2>4. ASSUME NEW j \in 1..i PROVE r[j] \in {r[1]} \cup {t[k] : k \in 1..(i - 1)}
    <3>1. CASE j # 1
      <4>1. j - 1 \in 1..(i - 1) /\ j - 1 \in 1..Len(t) /\ t[j - 1] = r[j]
        BY <1>5, <3>1
      <4> QED
        BY <4>1
    <3> QED
      BY <3>1
  <2>5. deps[t[i]] \cap Needed \subseteq recompiled \cup {r[j] : j \in 1..i}
    BY <1>6, <2>1
  <2> QED
    BY <2>2, <2>3, <2>4, <2>5
<1>9. recompiled' = recompiled \cup {r[1]} /\ recompile' = t
  BY <1>1, <1>5 DEF r, t
<1>10. InTurn(t, recompiled \cup {r[1]}, Needed, deps)
  BY <1>6, <1>7, <1>8 DEF InTurn
<1> QED
  BY <1>1, <1>3, <1>9, <1>10 DEF NeededInv, LastPhases

LEMMA NextNeededInv ==
  ASSUME ThirdPartyApart
  PROVE  PlaceInv /\ NeededInv /\ [Next]_vars => NeededInv'
<1> SUFFICES ASSUME PlaceInv, NeededInv, [Next]_vars PROVE NeededInv'
  OBVIOUS
<1>1. CASE Start \/ CompileInternal \/ LinkAndRun \/ Abort
  <2>1. phase' \in {"internal", "affected", "start", "failed"}
    BY <1>1 DEF Start, CompileInternal, LinkAndRun, Abort, Fails, Goto
  <2> QED
    BY <2>1 DEF NeededInv, Busy, BusyPhases, LastPhases
<1>2. CASE ComputeAffected
  BY <1>2, ComputeAffectedNeeded
<1>3. CASE RecompileNext
  BY <1>3, RecompileNextNeeded
<1>4. CASE CompileExternal
  <2>1. /\ pending # <<>> /\ phase = "recompile" /\ phase' = "main" /\ recompile = <<>>
        /\ UNCHANGED <<inputs, pending, xtestImports, recompiled>>
    BY <1>4 DEF CompileExternal, Goto
  <2>2. recompiled = Needed
    <3>1. Busy /\ {recompile[i] : i \in 1..Len(recompile)} = {}
      BY <2>1 DEF Busy, BusyPhases
    <3> QED
      BY <2>1, <3>1 DEF NeededInv, InTurn
  <2> QED
    BY <2>1, <2>2, SameNeeded DEF NeededInv
<1>5. CASE CompileTestMain
  <2>1. /\ pending # <<>> /\ phase = "main" /\ phase' = "link"
        /\ UNCHANGED <<inputs, pending, xtestImports, recompiled>>
    BY <1>5 DEF CompileTestMain, Goto
  <2>2. recompiled = Needed
    BY <2>1 DEF NeededInv, Busy, BusyPhases, LastPhases
  <2> QED
    BY <2>1, <2>2, SameNeeded DEF NeededInv
<1>6. CASE UNCHANGED vars
  <2>1. /\ UNCHANGED <<inputs, pending, phase, xtestImports, recompile, recompiled>>
    BY <1>6 DEF vars, inputs
  <2>2. Needed' = Needed /\ Busy' = Busy /\ deps' = deps
    BY <2>1, SameNeeded DEF Busy, inputs
  <2> QED
    BY <2>1, <2>2 DEF NeededInv
<1> QED
  BY <1>1, <1>2, <1>3, <1>4, <1>5, <1>6 DEF Next, Done

\* What is recompiled for a test is what its external test reaches and
\* depends on the package under test, nothing else, and nothing outside the
\* build.
THEOREM RecompilesWhatIsNeeded == ThirdPartyApart /\ Spec => []RecompiledIsNeeded
<1> SUFFICES ASSUME ThirdPartyApart PROVE Spec => []RecompiledIsNeeded
  OBVIOUS
<1>1. PlaceInv /\ NeededInv => RecompiledIsNeeded
  BY DEF PlaceInv, ListInv, NeededInv, RecompiledIsNeeded, Linking, Busy, BusyPhases, LastPhases, Needed, Leads
<1>2. PlaceInv /\ NeededInv /\ [Next]_vars => (PlaceInv /\ NeededInv)'
  BY NextPlaceInv, NextNeededInv
<1> QED
  BY <1>1, <1>2, InitPlaceInv, InitNeededInv, PTL DEF Spec

-----------------------------------------------------------------------------
(***************************************************************************)
(* What the archives were compiled against.                                *)
(***************************************************************************)
LEMMA InitArchiveInv == Init => ArchiveInv
  BY DEF Init, ArchiveInv, Busy, BusyPhases

\* A compile resolves an import to the archive that is linked for it.
LEMMA ResolvedFacts ==
  ASSUME PlaceInv, ArchiveInv, Busy, NEW paths, paths \subseteq InCfg
  PROVE  Resolved(paths) \subseteq {<<p, <<p, Round(p)>>>> : p \in paths}
<1>1. /\ linkCfg = {<<p, LinkFile(p)>> : p \in InCfg} \cup ExternalEntries
      /\ Split => compileCfg = {<<p, CompileFile(p)>> : p \in InCfg} \cup ExternalEntries
  BY DEF PlaceInv, CfgInv
<1>2. \A e \in ExternalEntries : e[1] \notin InCfg
  BY TargetFacts, PackageAssumption DEF PlaceInv, Busy, ExternalEntries, XTest
<1>3. \A e \in Cfg : e[1] \in paths =>
        e[1] \in InCfg /\ e[2] \in {LinkFile(e[1]), CompileFile(e[1])}
  BY <1>1, <1>2 DEF Cfg
<1>4. ASSUME NEW p \in InCfg, NEW f \in {LinkFile(p), CompileFile(p)}
      PROVE  Id(files[f]) = <<p, Round(p)>>
  <2>1. CASE p \in Replaced
    <3>1. f = TestDirFile(p) /\ Round(p) = target
      BY <2>1 DEF LinkFile, CompileFile, Round
    <3>2. files[f].round = target /\ files[f].path = p
      BY <2>1, <3>1 DEF PlaceInv, RoundInv, MadeFor, ArchiveInv, FreshArchive
    <3> QED
      BY <3>1, <3>2 DEF Id
  <2>2. CASE p \notin Replaced
    <3>1. f \in {Lib(p), Iface(p)} /\ Round(p) = 0 /\ p \in Pkg
      BY <2>2, TargetFacts DEF LinkFile, CompileFile, Round, PlaceInv, Busy
    <3>2. files[f] = Built(p)
      BY <3>1 DEF PlaceInv, FilesInv
    <3> QED
      BY <3>1, <3>2 DEF Id, Built, Archive
  <2> QED
    BY <2>1, <2>2
<1>5. ASSUME NEW e \in Cfg, e[1] \in paths
      PROVE  <<e[1], Id(files[e[2]])>> \in {<<p, <<p, Round(p)>>>> : p \in paths}
  <2>1. Id(files[e[2]]) = <<e[1], Round(e[1])>>
    BY <1>3, <1>4, <1>5
  <2> QED
    BY <1>5, <2>1
<1> QED
  BY <1>5 DEF Resolved

LEMMA ResolvedFresh ==
  ASSUME PlaceInv, ArchiveInv, Busy, NEW paths, paths \subseteq Fresh
  PROVE  Resolved(paths) \subseteq FreshImports
<1>1. paths \subseteq InCfg
  BY DEF Fresh
<1> QED
  BY <1>1, ResolvedFacts DEF FreshImports

\* What packages of the build import is there.
LEMMA InCfgClosed ==
  ASSUME TypeInv
  PROVE  \A p \in InCfg : deps[p] \subseteq InCfg
<1>1. \A p \in InCfg : p \in Pkg /\ deps[p] \subseteq Pkg
  BY GraphFacts DEF TypeInv, Scopes, InCfg, Pkg
<1>2. \A p \in InCfg : deps[p] \cap Local \subseteq scope
  BY DEF TypeInv, Scopes, InCfg
<1> QED
  BY <1>1, <1>2 DEF InCfg, Pkg

\* The files of a test directory are distinct.
LEMMA FilesDiffer ==
  ASSUME FilesApart, target \in Local
  PROVE  /\ \A p, q \in Local : p # q => TestDirFile(p) # TestDirFile(q)
         /\ \A p : TestDirFile(p) # ExternalFile /\ TestDirFile(p) # MainFile
         /\ ExternalFile # MainFile
<1>1. ASSUME NEW p \in Local, NEW q \in Local, p # q PROVE TestDirFile(p) # TestDirFile(q)
  BY <1>1 DEF FilesApart, TestDirFile, InTestDir
<1>2. /\ \A p : TestDirFile(p) # ExternalFile /\ TestDirFile(p) # MainFile
      /\ ExternalFile # MainFile
  BY DEF TestDirFile, InTestDir, ExternalFile, MainFile
<1> QED
  BY <1>1, <1>2

\* A package that is needed for the external test and not recompiled does not
\* lead to the target.
LEMMA RecompiledIsFresh ==
  ASSUME ThirdPartyApart, PlaceInv, Busy, Has("internal"), Has("external"),
         phase \in LaterPhases,
         NEW q \in InCfg, q \in Reach(xtestImports, deps) \cup {target},
         q \in Needed => q \in recompiled
  PROVE  q \in Fresh
<1>1. target \in Local /\ deps \in Graphs /\ InCfg \subseteq Pkg
  BY TargetFacts DEF PlaceInv, TypeInv, Busy
<1>2. CASE q = target
  BY <1>2 DEF Fresh, Replaced
<1>3. CASE Leads(q) /\ q # target
  <2>1. q \in Local
    BY <1>1, <1>3, ThirdPartyLeadsNowhere DEF Pkg
  <2>2. q \in recompiled
    BY <1>3, <2>1 DEF Needed
  <2> QED
    BY <2>2 DEF Fresh, Replaced
<1>4. CASE ~Leads(q)
  BY <1>4 DEF Fresh
<1> QED
  BY <1>2, <1>3, <1>4

LEMMA CompileInternalArchive ==
  ASSUME PlaceInv, ArchiveInv, CompileInternal
  PROVE  ArchiveInv'
<1>1. /\ pending # <<>> /\ phase = "internal" /\ phase' = "affected"
      /\ UNCHANGED <<inputs, pending, xtestImports, recompile, recompiled>>
  BY DEF CompileInternal, Goto
<1>2. /\ target' = target /\ InCfg' = InCfg /\ deps' = deps /\ tests' = tests /\ scope' = scope
      /\ Has("internal")' = Has("internal")
      /\ \A p : TestDirFile(p)' = TestDirFile(p)
  BY <1>1, SameTarget
<1>3. Busy /\ Replaced = {} /\ recompiled = {}
  BY <1>1 DEF Busy, BusyPhases, LaterPhases, Replaced, PlaceInv, ListInv
<1>4. /\ target \in scope /\ target \in Local /\ target \in InCfg /\ deps \in Graphs
      /\ InCfg \subseteq Pkg
  BY <1>1, TargetFacts DEF PlaceInv, TypeInv, InCfg
<1>5. CASE Has("internal")
  <2>1. PICK testImports \in SUBSET Importable :
          /\ target \notin Reach(testImports, deps)
          /\ Compile(target, deps[target] \cup testImports, InTestDir(target, "internal", 0))
    BY <1>5 DEF CompileInternal
  <2>2. TestDirFile(target) = InTestDir(target, "internal", 0)
    BY DEF TestDirFile
  <2>3. Replaced' = {target}
    BY <1>1, <1>2, <1>3, <1>5 DEF Replaced, LaterPhases
  <2> DEFINE paths == deps[target] \cup testImports
  <2>4. /\ files'[TestDirFile(target)].path = target
        /\ files'[TestDirFile(target)].seen = Resolved(paths)
    <3>1. files'[InTestDir(target, "internal", 0)] = Archive(target, target, Resolved(paths))
      BY <1>1, <1>2, <2>1, CompileKeeps DEF PlaceInv
    <3> QED
      BY <2>2, <3>1 DEF Archive
  <2>5. testImports \subseteq InCfg /\ testImports \subseteq Pkg /\ deps[target] \subseteq InCfg
    BY <1>4, InCfgClosed DEF Importable, InCfg, PlaceInv
  <2>6. ASSUME NEW q \in paths PROVE q \in InCfg /\ ~Leads(q) /\ q # target
    <3>1. ~Leads(q)
      BY <1>4, <2>1, <2>5, NoCircle, LeadsFacts
    <3> QED
      BY <1>4, <2>5, <3>1, LeadsFacts
  <2> HIDE DEF paths
  <2>7. Resolved(paths) \subseteq {<<p, <<p, Round(p)>>>> : p \in paths}
    BY <1>3, <2>6, ResolvedFacts
  <2>8. \A p \in paths : Round(p) = 0 /\ Round(p)' = 0 /\ p \in Fresh'
    <3>1. \A p : Leads(p)' = Leads(p)
      BY <1>2 DEF Leads
    <3> QED
      BY <1>2, <1>3, <2>3, <2>6, <3>1 DEF Round, Fresh
  <2>9. Resolved(paths) \subseteq FreshImports'
    BY <2>7, <2>8 DEF FreshImports
  <2> QED
    BY <1>1, <1>2, <2>3, <2>4, <2>9 DEF ArchiveInv, FreshArchive, LastPhases
<1>6. CASE ~Has("internal")
  <2>1. Replaced' = {}
    BY <1>2, <1>6 DEF Replaced
  <2> QED
    BY <1>1, <2>1 DEF ArchiveInv, LastPhases
<1> QED
  BY <1>5, <1>6

\* With the archives of a new package fresh, all others stay so.
LEMMA RecompileNextArchive ==
  ASSUME ThirdPartyApart, FilesApart, PlaceInv, NeededInv, ArchiveInv, RecompileNext
  PROVE  ArchiveInv'
<1>0. PICK p : p = Head(recompile)
  OBVIOUS
<1>1. /\ pending # <<>> /\ phase = "recompile" /\ phase' = "recompile" /\ recompile # <<>>
      /\ UNCHANGED <<inputs, pending, xtestImports>>
      /\ Compile(p, deps[p], InTestDir(target, "recomp", Sanitized[p]))
      /\ recompiled' = recompiled \cup {p}
  BY <1>0 DEF RecompileNext, Goto
<1>2. /\ target' = target /\ InCfg' = InCfg /\ deps' = deps
      /\ Has("internal")' = Has("internal")
      /\ \A q : TestDirFile(q)' = TestDirFile(q)
  BY <1>1, SameTarget
<1>3. Busy /\ phase \in LaterPhases
  BY <1>1 DEF Busy, BusyPhases, LaterPhases
<1>4. /\ recompile \in Seq(scope \ {target}) /\ recompiled \subseteq scope \ {target}
      /\ Has("internal") /\ Has("external")
  BY <1>1, <1>3 DEF PlaceInv, ListInv
<1>5. p \in scope \ {target} /\ 1 \in 1..Len(recompile) /\ p = recompile[1] /\ 1..(1 - 1) = {}
  BY <1>0, <1>1, <1>4
<1>6. /\ target \in Local /\ deps \in Graphs /\ scope \subseteq Local /\ p \in InCfg
      /\ InCfg \subseteq Pkg /\ target \in InCfg
  BY <1>1, <1>5, TargetFacts DEF PlaceInv, TypeInv, InCfg
<1>7. p \in Needed /\ p \notin recompiled /\ deps[p] \cap Needed \subseteq recompiled
  BY <1>1, <1>3, <1>5 DEF NeededInv, InTurn
<1>8. p \in Reach(xtestImports, deps) /\ Leads(p)
  BY <1>7 DEF Needed
<1>9. deps[p] \subseteq Fresh
  <2>1. xtestImports \subseteq Pkg
    BY <1>3, <1>6 DEF PlaceInv, TypeInv, Importable, InCfg
  <2>2. deps[p] \subseteq Reach(xtestImports, deps) /\ deps[p] \subseteq InCfg
    BY <1>6, <1>8, <2>1, ReachInPkg, InCfgClosed DEF ClosedUnder, PlaceInv
  <2> QED
    BY <1>3, <1>4, <1>7, <2>2, RecompiledIsFresh
<1>10. Replaced = {target} \cup recompiled /\ Replaced' = Replaced \cup {p}
  BY <1>1, <1>2, <1>3, <1>4 DEF Replaced, LaterPhases
<1>11. p \notin Fresh /\ p \notin Replaced
  BY <1>5, <1>7, <1>8, <1>10 DEF Fresh
<1>12. FreshImports \subseteq FreshImports'
  <2>1. \A q \in Fresh : q \in Fresh' /\ Round(q)' = Round(q)
    <3>1. \A q : Leads(q)' = Leads(q)
      BY <1>2 DEF Leads
    <3> QED
      BY <1>2, <1>10, <1>11, <3>1 DEF Fresh, Round
  <2> QED
    BY <2>1 DEF FreshImports
<1>13. TestDirFile(p) = InTestDir(target, "recomp", Sanitized[p])
  BY <1>5 DEF TestDirFile
<1>14. /\ files'[TestDirFile(p)] = Archive(p, target, Resolved(deps[p]))
       /\ \A f \in DOMAIN files : f # TestDirFile(p) => files'[f] = files[f]
  BY <1>1, <1>2, <1>13, CompileKeeps DEF PlaceInv
<1>15. FreshArchive(TestDirFile(p), p)'
  <2>1. Resolved(deps[p]) \subseteq FreshImports'
    BY <1>3, <1>9, <1>12, ResolvedFresh
  <2> QED
    BY <1>2, <1>14, <2>1 DEF FreshArchive, Archive
<1>16. ASSUME NEW q \in Replaced PROVE FreshArchive(TestDirFile(q), q)'
  <2>0. q \in Local /\ p \in Local /\ q # p
    BY <1>4, <1>5, <1>6, <1>10, <1>11
  <2>1. TestDirFile(q) # TestDirFile(p)
    BY <1>6, <2>0, FilesDiffer
  <2>2. TestDirFile(q) \in DOMAIN files /\ FreshArchive(TestDirFile(q), q)
    BY <1>3 DEF PlaceInv, RoundInv, MadeFor, ArchiveInv
  <2> QED
    BY <1>2, <1>12, <1>14, <2>1, <2>2 DEF FreshArchive
<1> QED
  BY <1>1, <1>10, <1>15, <1>16 DEF ArchiveInv, LastPhases

\* A file is added beside those that are fresh.
LEMMA StayFresh ==
  ASSUME PlaceInv, ArchiveInv, Busy, UNCHANGED <<inputs, pending>>, Replaced' = Replaced,
         NEW F, \A f \in DOMAIN files : f # F => files'[f] = files[f],
         \A p : TestDirFile(p) # F
  PROVE  /\ FreshImports' = FreshImports
         /\ \A p \in Replaced' : FreshArchive(TestDirFile(p), p)'
<1>1. target' = target /\ InCfg' = InCfg /\ deps' = deps /\ \A p : TestDirFile(p)' = TestDirFile(p)
  BY SameTarget
<1>2. FreshImports' = FreshImports
  <2>1. \A p : Leads(p)' = Leads(p) /\ Round(p)' = Round(p)
    BY <1>1 DEF Leads, Round
  <2>2. Fresh' = Fresh
    BY <1>1, <2>1 DEF Fresh
  <2> QED
    BY <2>1, <2>2 DEF FreshImports
<1>3. ASSUME NEW p \in Replaced PROVE FreshArchive(TestDirFile(p), p)'
  <2>1. TestDirFile(p) \in DOMAIN files /\ FreshArchive(TestDirFile(p), p)
    BY DEF PlaceInv, RoundInv, MadeFor, ArchiveInv
  <2> QED
    BY <1>1, <1>2, <2>1 DEF FreshArchive
<1> QED
  BY <1>2, <1>3

LEMMA CompileExternalArchive ==
  ASSUME ThirdPartyApart, FilesApart, PlaceInv, NeededInv, ArchiveInv, CompileExternal
  PROVE  ArchiveInv'
<1>1. /\ pending # <<>> /\ phase = "recompile" /\ phase' = "main" /\ recompile = <<>>
      /\ UNCHANGED <<inputs, pending, xtestImports, recompile, recompiled>>
  BY DEF CompileExternal, Goto
<1>2. /\ target' = target /\ Has("internal")' = Has("internal") /\ Has("external")' = Has("external")
      /\ \A q : TestDirFile(q)' = TestDirFile(q)
      /\ ExternalFile' = ExternalFile
  BY <1>1, SameTarget
<1>3. Busy /\ phase \in LaterPhases /\ Replaced' = Replaced
  BY <1>1, <1>2 DEF Busy, BusyPhases, LaterPhases, Replaced
<1>4. /\ target \in Local /\ target \in InCfg /\ xtestImports \subseteq InCfg
      /\ deps \in Graphs /\ InCfg \subseteq Pkg
  BY <1>1, <1>3, TargetFacts DEF PlaceInv, TypeInv, InCfg, Importable
<1>5. CASE Has("external")
  <2>1. PICK own \in SUBSET {target} :
          Compile(XTest(target), xtestImports \cup own, InTestDir(target, "external", 0))
    BY <1>5 DEF CompileExternal
  <2> DEFINE paths == xtestImports \cup own
  <2>2. /\ files'[ExternalFile] = Archive(XTest(target), target, Resolved(paths))
        /\ \A f \in DOMAIN files : f # ExternalFile => files'[f] = files[f]
    BY <1>1, <2>1, CompileKeeps DEF PlaceInv, inputs, ExternalFile
  <2>3. paths \subseteq Fresh
    <3>1. CASE Has("internal")
      <4>1. recompiled = Needed
        <5>1. {recompile[i] : i \in 1..Len(recompile)} = {}
          BY <1>1
        <5> QED
          BY <1>1, <1>3, <5>1 DEF NeededInv, InTurn
      <4>2. paths \subseteq Reach(xtestImports, deps) \cup {target} /\ paths \subseteq InCfg
        BY <1>4, ReachInPkg
      <4> QED
        BY <1>3, <1>5, <3>1, <4>1, <4>2, RecompiledIsFresh
    <3>2. CASE ~Has("internal")
      BY <1>4, <3>2 DEF Fresh, Replaced
    <3> QED
      BY <3>1, <3>2
  <2> HIDE DEF paths
  <2>4. Resolved(paths) \subseteq FreshImports
    BY <1>3, <2>3, ResolvedFresh
  <2>5. /\ FreshImports' = FreshImports
        /\ \A p \in Replaced' : FreshArchive(TestDirFile(p), p)'
    <3>1. \A p : TestDirFile(p) # ExternalFile
      BY <1>4, FilesDiffer
    <3> QED
      BY <1>1, <1>3, <2>2, <3>1, StayFresh
  <2>6. FreshArchive(ExternalFile, XTest(target))'
    BY <1>2, <2>2, <2>4, <2>5 DEF FreshArchive, Archive, XTest
  <2> QED
    BY <1>1, <2>5, <2>6 DEF ArchiveInv
<1>6. CASE ~Has("external")
  <2>1. files' = files
    BY <1>6 DEF CompileExternal
  <2>2. \A p \in Replaced' : FreshArchive(TestDirFile(p), p)'
    <3>1. \A p : TestDirFile(p) # ExternalFile
      BY <1>4, FilesDiffer
    <3> QED
      BY <1>1, <1>3, <2>1, <3>1, StayFresh
  <2> QED
    BY <1>1, <1>2, <1>6, <2>2 DEF ArchiveInv
<1> QED
  BY <1>5, <1>6

LEMMA CompileTestMainArchive ==
  ASSUME FilesApart, PlaceInv, ArchiveInv, CompileTestMain
  PROVE  ArchiveInv'
<1>1. /\ pending # <<>> /\ phase = "main" /\ phase' = "link"
      /\ UNCHANGED <<inputs, pending, xtestImports, recompile, recompiled, linkCfg, compileCfg>>
  BY DEF CompileTestMain, Goto
<1> DEFINE inner == {p \in {target} : Has("internal")}
           outer == {XTest(p) : p \in {q \in {target} : Has("external")}}
<1>2. PICK imports \in SUBSET (inner \cup outer) :
        Compile(TestMain, imports, InTestDir(target, "testmain", 0))
  BY DEF CompileTestMain
<1>3. /\ target' = target /\ Has("internal")' = Has("internal") /\ Has("external")' = Has("external")
      /\ \A q : TestDirFile(q)' = TestDirFile(q)
      /\ ExternalFile' = ExternalFile /\ MainFile' = MainFile
  BY <1>1, SameTarget
<1>4. Busy /\ phase \in LaterPhases /\ phase \in LastPhases /\ Replaced' = Replaced
  BY <1>1, <1>3 DEF Busy, BusyPhases, LaterPhases, LastPhases, Replaced
<1>5. target \in Local /\ target \in InCfg
  BY <1>1, TargetFacts DEF PlaceInv, InCfg
<1>6. /\ files'[MainFile] = Archive(TestMain, target, Resolved(imports))
      /\ \A f \in DOMAIN files : f # MainFile => files'[f] = files[f]
  BY <1>1, <1>2, CompileKeeps DEF PlaceInv, inputs, MainFile
<1>7. /\ FreshImports' = FreshImports
      /\ \A p \in Replaced' : FreshArchive(TestDirFile(p), p)'
  <2>1. \A p : TestDirFile(p) # MainFile
    BY <1>5, FilesDiffer
  <2> QED
    BY <1>1, <1>4, <1>6, <2>1, StayFresh
<1>8. Has("external") => FreshArchive(ExternalFile, XTest(target))'
  <2> SUFFICES ASSUME Has("external") PROVE FreshArchive(ExternalFile, XTest(target))'
    OBVIOUS
  <2>1. ExternalFile \in DOMAIN files /\ FreshArchive(ExternalFile, XTest(target))
    BY <1>4 DEF PlaceInv, RoundInv, MadeFor, ArchiveInv
  <2>2. ExternalFile # MainFile
    BY <1>5, FilesDiffer
  <2> QED
    BY <1>3, <1>6, <1>7, <2>1, <2>2 DEF FreshArchive, XTest
<1>9. Resolved(imports) \subseteq
        FreshImports \cup {s \in {<<XTest(target), <<XTest(target), target>>>>} : Has("external")}
  <2>1. inner \subseteq Fresh
    BY <1>4, <1>5 DEF Fresh, Replaced
  <2>2. Resolved(inner) \subseteq FreshImports
    BY <1>4, <2>1, ResolvedFresh
  <2>3. ASSUME NEW e \in Cfg, e[1] \in imports, e[1] \notin inner
        PROVE  /\ Has("external")
               /\ <<e[1], Id(files[e[2]])>> = <<XTest(target), <<XTest(target), target>>>>
    <3>1. Has("external") /\ e[1] = XTest(target)
      BY <1>2, <2>3
    <3>2. e \in linkCfg \/ (e \in compileCfg /\ Split)
      BY DEF Cfg
    <3>3. e \in {<<p, LinkFile(p)>> : p \in InCfg} \cup {<<p, CompileFile(p)>> : p \in InCfg} \cup ExternalEntries
      BY <1>4, <3>2 DEF PlaceInv, CfgInv
    <3>4. XTest(target) \notin InCfg
      BY <1>1, TargetFacts, PackageAssumption DEF PlaceInv, XTest
    <3>5. e = <<XTest(target), ExternalFile>>
      BY <3>1, <3>3, <3>4 DEF ExternalEntries
    <3>6. files[ExternalFile].path = XTest(target) /\ files[ExternalFile].round = target
      BY <1>4, <3>1 DEF PlaceInv, RoundInv, MadeFor, ArchiveInv, FreshArchive
    <3> QED
      BY <3>1, <3>5, <3>6 DEF Id
  <2>4. ASSUME NEW e \in Cfg, e[1] \in inner PROVE <<e[1], Id(files[e[2]])>> \in Resolved(inner)
    BY <2>4 DEF Resolved
  <2> HIDE DEF inner, outer
  <2> QED
    BY <2>2, <2>3, <2>4 DEF Resolved
<1>10. files'[MainFile].seen = Resolved(imports)
  BY <1>6 DEF Archive
<1>11. (files[MainFile].seen)' \subseteq
         (FreshImports \cup {s \in {<<XTest(target), <<XTest(target), target>>>>} : Has("external")})'
  BY <1>3, <1>7, <1>9, <1>10 DEF XTest
<1> QED
  BY <1>1, <1>3, <1>7, <1>8, <1>11 DEF ArchiveInv

LEMMA NextArchiveInv ==
  ASSUME ThirdPartyApart, FilesApart
  PROVE  PlaceInv /\ NeededInv /\ ArchiveInv /\ [Next]_vars => ArchiveInv'
<1> SUFFICES ASSUME PlaceInv, NeededInv, ArchiveInv, [Next]_vars PROVE ArchiveInv'
  OBVIOUS
<1>1. CASE LinkAndRun \/ Abort
  <2>1. phase' \in {"start", "failed"}
    BY <1>1 DEF LinkAndRun, Abort, Fails, Goto
  <2> QED
    BY <2>1 DEF ArchiveInv, Busy, BusyPhases
<1>2. CASE Start
  <2>1. phase' = "internal"
    BY <1>2 DEF Start, Goto
  <2> QED
    BY <2>1 DEF ArchiveInv, Replaced, LaterPhases, LastPhases
<1>3. CASE ComputeAffected
  <2>1. /\ pending # <<>> /\ phase = "affected" /\ phase' = "recompile"
        /\ UNCHANGED <<inputs, pending, recompiled, files>>
    BY <1>3 DEF ComputeAffected, Goto
  <2>2. Busy /\ Replaced' = Replaced /\ target \in Local
    BY <2>1, SameTarget, TargetFacts DEF Busy, BusyPhases, LaterPhases, Replaced, PlaceInv
  <2>3. \A p \in Replaced' : FreshArchive(TestDirFile(p), p)'
    BY <2>1, <2>2, StayFresh, FilesDiffer
  <2> QED
    BY <2>1, <2>3 DEF ArchiveInv, LastPhases
<1>4. CASE UNCHANGED vars
  <2>1. UNCHANGED <<inputs, pending, phase, recompiled, files>>
    BY <1>4 DEF vars, inputs
  <2>2. /\ Busy' = Busy /\ Replaced' = Replaced
        /\ target' = target /\ Has("external")' = Has("external")
        /\ ExternalFile' = ExternalFile /\ MainFile' = MainFile
    BY <2>1, SameTarget DEF Busy, Replaced
  <2>3. ASSUME Busy PROVE FreshImports' = FreshImports /\ \A p \in Replaced' : FreshArchive(TestDirFile(p), p)'
    <3>1. target \in Local
      BY <2>3, TargetFacts DEF Busy, PlaceInv
    <3> QED
      BY <2>1, <2>2, <2>3, <3>1, StayFresh, FilesDiffer
  <2> QED
    BY <2>1, <2>2, <2>3 DEF ArchiveInv, FreshArchive, XTest
<1> QED
  BY <1>1, <1>2, <1>3, <1>4, CompileInternalArchive, RecompileNextArchive,
     CompileExternalArchive, CompileTestMainArchive DEF Next, Done

\* Whatever is linked imports what is linked for it, as it was compiled.
LEMMA ImportsAreLinked ==
  ASSUME PlaceInv, NeededInv, ArchiveInv, Linking
  PROVE  /\ \A p \in Fresh : \A s \in files[LinkFile(p)].seen : s \in FreshImports
         /\ Has("external") => \A s \in files[ExternalFile].seen : s \in FreshImports
         /\ \A s \in files[MainFile].seen :
              s \in FreshImports \/ (Has("external") /\ s = <<XTest(target), <<XTest(target), target>>>>)
<1>1. Busy /\ phase = "link" /\ phase \in LastPhases
  BY DEF Linking, Busy, BusyPhases, LastPhases
<1>2. ASSUME NEW p \in Fresh, NEW s \in files[LinkFile(p)].seen PROVE s \in FreshImports
  <2>1. CASE p \in Replaced
    BY <1>1, <1>2, <2>1 DEF LinkFile, ArchiveInv, FreshArchive
  <2>2. CASE p \notin Replaced
    <3>1. target \in Local /\ deps \in Graphs /\ p \in Pkg /\ p \in InCfg
      BY TargetFacts DEF Fresh, PlaceInv, TypeInv, Linking
    <3>2. files[LinkFile(p)] = Built(p)
      BY <2>2, <3>1 DEF LinkFile, PlaceInv, FilesInv
    <3>3. PICK d \in deps[p] : s = <<d, <<d, 0>>>>
      BY <1>2, <3>2 DEF Built, Archive
    <3>4. d \in InCfg
      BY <3>1, InCfgClosed DEF PlaceInv
    <3>5. \A q \in Replaced : Leads(q)
      BY <1>1, <3>1, LeadsFacts DEF NeededInv, Replaced, Needed
    <3>6. Replaced = {} \/ ~Leads(d)
      BY <2>2, <3>1, LeadsFacts DEF Fresh
    <3>7. d \in Fresh /\ d \notin Replaced
      BY <3>4, <3>5, <3>6 DEF Fresh
    <3> QED
      BY <3>3, <3>7 DEF FreshImports, Round
  <2> QED
    BY <2>1, <2>2
<1>3. Has("external") => \A s \in files[ExternalFile].seen : s \in FreshImports
  BY <1>1 DEF ArchiveInv, FreshArchive
<1>4. ASSUME NEW s \in files[MainFile].seen
      PROVE  s \in FreshImports \/ (Has("external") /\ s = <<XTest(target), <<XTest(target), target>>>>)
  BY <1>1, <1>4 DEF ArchiveInv
<1> QED
  BY <1>2, <1>3, <1>4

LEMMA ConsistentWhenFresh ==
  ASSUME PlaceInv, NeededInv, ArchiveInv, Linking
  PROVE  \A f \in Linked : \A s \in files[f].seen :
           \E g \in Linked : Lookup(linkCfg, s[1]) = {g} /\ Id(files[g]) = s[2]
<1>1. Busy /\ phase \in LastPhases
  BY DEF Linking, Busy, BusyPhases, LastPhases
<1> DEFINE C == {LinkFile(p) : p \in Fresh} \cup {f \in {ExternalFile} : Has("external")} \cup {MainFile}
           Linkable(s) == \E g \in C : Lookup(linkCfg, s[1]) = {g} /\ Id(files[g]) = s[2]
<1>2. ASSUME NEW s \in FreshImports PROVE Linkable(s)
  <2>1. PICK p \in Fresh : s = <<p, <<p, Round(p)>>>>
    BY DEF FreshImports
  <2>2. p \in InCfg /\ LinkFile(p) \in C
    BY DEF Fresh
  <2>3. Lookup(linkCfg, p) = {LinkFile(p)}
    BY <2>2, LookupFacts
  <2>4. files[LinkFile(p)].round = Round(p)
    BY <2>2, PlacesAreThere DEF Round
  <2>5. files[LinkFile(p)].path = p
    <3>1. CASE p \in Replaced
      BY <1>1, <3>1 DEF LinkFile, ArchiveInv, FreshArchive
    <3>2. CASE p \notin Replaced
      <4>1. p \in Pkg
        BY <2>2, TargetFacts DEF PlaceInv, Linking
      <4>2. files[LinkFile(p)] = Built(p)
        BY <3>2, <4>1 DEF LinkFile, PlaceInv, FilesInv
      <4> QED
        BY <4>2 DEF Built, Archive
    <3> QED
      BY <3>1, <3>2
  <2> QED
    BY <2>1, <2>2, <2>3, <2>4, <2>5 DEF Id
<1>3. ASSUME Has("external"), NEW s, s = <<XTest(target), <<XTest(target), target>>>> PROVE Linkable(s)
  <2>1. Lookup(linkCfg, XTest(target)) = {ExternalFile} /\ ExternalFile \in C
    BY <1>3, LookupFacts
  <2>2. files[ExternalFile].path = XTest(target) /\ files[ExternalFile].round = target
    BY <1>1, <1>3, PlacesAreThere DEF ArchiveInv, FreshArchive, MadeFor
  <2> QED
    BY <1>3, <2>1, <2>2 DEF Id
<1>4. \A f \in C : \A s \in files[f].seen : Linkable(s)
  BY <1>2, <1>3, ImportsAreLinked
<1>5. C \subseteq DOMAIN files /\ MainFile \in C
  BY PlacesAreThere DEF Fresh, MadeFor
<1> HIDE DEF C
<1>6. \A f \in C : \A s \in files[f].seen : Lookup(linkCfg, s[1]) \subseteq C
  BY <1>4
<1>7. /\ Linked \subseteq C
      /\ \A f \in Linked : \A s \in files[f].seen : Lookup(linkCfg, s[1]) \subseteq Linked
  BY <1>5, <1>6, LinkedFacts
<1> QED
  BY <1>4, <1>7

\* Every import of every archive that is linked into a test binary leads to
\* one archive, of the imported package, and of the very compile the importer
\* was compiled against, whatever was replaced by a test variant.
THEOREM LinksAreConsistent == ThirdPartyApart /\ FilesApart /\ Spec => []LinkConsistent
<1> SUFFICES ASSUME ThirdPartyApart, FilesApart PROVE Spec => []LinkConsistent
  OBVIOUS
<1>1. PlaceInv /\ NeededInv /\ ArchiveInv => LinkConsistent
  BY ConsistentWhenFresh DEF LinkConsistent
<1>2. PlaceInv /\ NeededInv /\ ArchiveInv /\ [Next]_vars => (PlaceInv /\ NeededInv /\ ArchiveInv)'
  BY NextPlaceInv, NextNeededInv, NextArchiveInv
<1> QED
  BY <1>1, <1>2, InitPlaceInv, InitNeededInv, InitArchiveInv, PTL DEF Spec
=============================================================================
