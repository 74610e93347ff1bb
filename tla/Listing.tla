------------------------------ MODULE Listing -------------------------------
(***************************************************************************)
(* builtins.resolveGoPackages of the evaluator plugin: the package graph   *)
(* from which the Nix expressions make derivations                         *)
(* (packages/go2nix-nix-plugin/rust/src/resolve.rs).                       *)
(*                                                                         *)
(* resolve_packages tries to get everything from one `go list -test` run   *)
(* over more patterns than needed, and declines when that cannot serve.    *)
(* The meaning of the result is given by the two passes it stands in for.  *)
(*                                                                         *)
(* Of a package the model keeps its module, its imports, and whether files *)
(* its tests embed are part of its source.                                 *)
(*                                                                         *)
(* Definitions under "Seeded fault" are no part of the model: each is the  *)
(* definition below it with a mistake the property named there must catch. *)
(***************************************************************************)
EXTENDS GoList

CONSTANTS
  Trees,     \* the source trees to consider
  Requests   \* what to consider of subPackages, plain and doCheck

\* A tree the go command accepts: what is imported is there and can be, a
\* package has its module's path for a prefix, and the standard library
\* imports nothing else.
WellFormed(t) ==
  LET k == t.pkgs
  IN  /\ IsFiniteSet(DOMAIN k)
      /\ \E m \in DOMAIN t.kind : \A n \in DOMAIN t.kind : t.kind[n] = "main" <=> n = m
      /\ \A m \in DOMAIN t.kind : t.kind[m] \in {"main", "dir", "fetched", "fork"}
      /\ NoModule \notin DOMAIN t.kind /\ Here \notin DOMAIN t.kind
      /\ t.scanned \subseteq DOMAIN t.kind
      /\ \A p \in DOMAIN k :
           /\ p \in Seq(STRING) \ {<<>>}
           /\ k[p].imports \cup k[p].testImports \cup k[p].xTestImports \subseteq DOMAIN k
           /\ \A q \in k[p].imports \cup k[p].testImports \cup (k[p].xTestImports \ {p}) :
                k[q].files
           /\ {k[p].tests, k[p].xtests, k[p].files, k[p].testEmbeds, k[p].listed} \subseteq BOOLEAN
           /\ (k[p].testImports # {} => k[p].tests) /\ (k[p].xTestImports # {} => k[p].xtests)
           /\ IF k[p].mod = NoModule
              THEN \A q \in k[p].imports : k[q].mod = NoModule
              ELSE k[p].mod \in DOMAIN t.kind /\ Under(k[p].mod, p)

ASSUME TreesAssumption == \A t \in Trees : WellFormed(t)

\* There is something to build.
ASSUME RequestsAssumption ==
  \A request \in Requests :
    /\ request.subPackages # {}
    /\ \A t \in Trees : request.subPackages \subseteq DOMAIN t.pkgs
    /\ request.plain \in BOOLEAN /\ request.doCheck \in BOOLEAN

\* A package called P.test, as the test main go generates for P, is not what
\* is to be built, and has no tests of its own.
ASSUME TwinsAssumption ==
  /\ \A request \in Requests : \A p \in request.subPackages : Last(p) # ".test"
  /\ \A t \in Trees : \A p \in DOMAIN t.pkgs :
       Last(p) = ".test" => ~HasTests(t, p) /\ ~t.pkgs[p].testEmbeds

VARIABLES
  tree,        \* the source, for the time of the call
  subPackages, \* what is to be built
  plain,       \* every subPackage is written "." or "./dir"
  doCheck,     \* tests are to be run
  overlaid,    \* packages whose srcOverlay supplies files
  stage,
  graph,       \* the PackageGraph
  served       \* which way it was obtained

listingVars == <<tree, subPackages, plain, doCheck, overlaid, stage, graph, served>>
inputs == <<tree, subPackages, plain, doCheck, overlaid>>

Failed == [ok |-> FALSE]

Kind(m) == tree.kind[m]
IsLocal(r) == r.mod # NoModule /\ Kind(r.mod) \in {"main", "dir"}
IsThirdParty(r) == r.mod # NoModule /\ Kind(r.mod) \in {"fetched", "fork"}
Paths(S) == {x.path : x \in S}
ImportPaths(r) == {n.path : n \in r.imports}   \* without " [Q.test]"

\* An //go:embed pattern that matches nothing yet is the overlay's to satisfy.
Supplied(r, owner) == r.err = "embed" /\ owner \in overlaid

ThirdPartyData(r) == [path |-> r.path, mod |-> r.mod, imports |-> ImportPaths(r)]

LocalData(r, locals, thirdParty, unresolved) ==
  [path |-> r.path, mod |-> r.mod,
   localImports |-> ImportPaths(r) \cap locals,
   thirdPartyImports |-> (ImportPaths(r) \ locals) \cap thirdParty,
   embeds |-> r.embeds, unresolved |-> unresolved]

-----------------------------------------------------------------------------
\* The build pass: any error is reported, everything listed is in the graph.

ClassifyGo(records) ==
  LET locals == {r \in records : IsLocal(r)}
      third  == {r \in records : IsThirdParty(r)}
  IN  IF \E r \in records : r.err # "none" /\ ~Supplied(r, r.path)
      THEN Failed
      ELSE [ok |-> TRUE,
            packages |-> {ThirdPartyData(r) : r \in third},
            local |-> {LocalData(r, Paths(locals), Paths(third), r.err = "embed") :
                         r \in locals},
            siblings |-> {r.mod : r \in {s \in locals : Kind(s.mod) = "dir"}},
            replacements |-> {r.mod : r \in {s \in third : Kind(s.mod) = "fork"}},
            testPackages |-> {}, testLocal |-> {}]

-----------------------------------------------------------------------------
\* The test pass: what the build pass did not list, as far as tests need it.

IsTestMain(r) == Last(r.path) = ".test"
IsVariantOfTested(r) == r.for # NoTest /\ r.path \in {r.for, XTest(r.for)}

\* An external test embeds from the directory of the package it tests.
Owner(r) == IF r.for # NoTest /\ r.path = XTest(r.for) THEN r.for ELSE r.path

\* Only errors of the build graph's packages and of their variants matter.
TestError(r, g) ==
  /\ r.err # "none" /\ ~Supplied(r, Owner(r))
  /\ ~IsTestMain(r)
  /\ r.path \in Paths(g.local) \/ r.for \in Paths(g.local)

\* The first record of every path; go list prints P before any P [Q.test],
\* and the copies of a package differ in nothing that is kept of it.
FirstOfEach(records) ==
  LET bare == {r \in records : r.for = NoTest}
  IN  {IF p \in Paths(bare) THEN CHOOSE r \in bare : r.path = p
       ELSE CHOOSE r \in records : r.path = p : p \in Paths(records)}

ImportsOf(p, S) == UNION {ImportPaths(r) : r \in {s \in S : s.path = p}}
TestImportsOf(p, S) == UNION {r.testImports : r \in {s \in S : s.path = p}}

\* Seeded fault (TestsFindTheirImports): the walk ends at third-party packages.
LeadsToLocal(p, tested, newLocal, newThird) ==
  IF p \in Paths(newLocal) THEN ImportsOf(p, newLocal) \cup TestImportsOf(p, tested) ELSE {}

\* A test leads from a test-only package to what it imports, and from a local
\* one to what its tests import.
LeadsTo(p, tested, newLocal, newThird) ==
  IF p \in Paths(newThird) THEN ImportsOf(p, newThird)
  ELSE IF p \in Paths(newLocal) THEN ImportsOf(p, newLocal) \cup TestImportsOf(p, tested)
  ELSE {}

\* The test-only packages that tests of the build graph's packages lead to.
TestReachable(g, tested, newLocal, newThird) ==
  LET seeds == UNION {TestImportsOf(p, tested) : p \in Paths(g.local)}
      known == tested \cup newLocal \cup newThird
      all   == seeds \cup Paths(known)
                     \cup UNION {ImportPaths(r) \cup r.testImports : r \in known}
  IN  Reach(seeds, [p \in all |-> LeadsTo(p, tested, newLocal, newThird)])

ClassifyTest(records, g) ==
  LET kept     == {r \in records : /\ r.err = "none" \/ Supplied(r, Owner(r))
                                   /\ ~IsTestMain(r) /\ ~IsVariantOfTested(r)}
      embedErr == {Owner(r) : r \in {s \in records : Supplied(s, Owner(s))}}
      locals   == {r \in kept : IsLocal(r)}
      tested   == {r \in locals : r.for = NoTest}
      newLocal == FirstOfEach({r \in locals : r.path \notin Paths(g.local)})
      rawLocal == {r \in newLocal : r.files}
      newThird == FirstOfEach({r \in kept : /\ IsThirdParty(r)
                                              /\ r.path \notin Paths(g.packages)})
      reached  == TestReachable(g, tested, newLocal, newThird)
      known    == Paths(g.local) \cup Paths(newLocal)
      third    == Paths(g.packages) \cup Paths(newThird)
  IN  IF \E r \in records : TestError(r, g)
      THEN Failed
      ELSE [ok |-> TRUE,
            testPackages |-> {ThirdPartyData(r) : r \in newThird},
            testLocal |-> {LocalData(r, known, third, r.path \in embedErr) :
                             r \in {s \in rawLocal : s.path \in reached}},
            replacements |-> {r.mod : r \in {s \in newThird : Kind(s.mod) = "fork"}},
            embeds |-> {r.path : r \in {s \in locals : s.embeds}} \cap Paths(g.local),
            unresolved |-> embedErr \cap Paths(g.local)]

MergeTestPass(g, tp) ==
  IF ~tp.ok THEN Failed
  ELSE [g EXCEPT
          !.testPackages = tp.testPackages,
          !.testLocal = tp.testLocal,
          !.replacements = @ \cup tp.replacements,
          !.local = {[l EXCEPT !.embeds = @ \/ l.path \in tp.embeds,
                               !.unresolved = @ \/ l.path \in tp.unresolved] : l \in @}]

-----------------------------------------------------------------------------
\* The two passes.

TestPatterns(siblings) == {Here} \cup siblings

BuildPass == ClassifyGo(ListBuild(tree, subPackages))

TestPass(g) ==
  MergeTestPass(g, ClassifyTest(ListTest(tree, TestPatterns(g.siblings)), g))

\* What the call owes its caller.
TwoPasses ==
  IF BuildPass.ok /\ doCheck /\ BuildPass.local # {} THEN TestPass(BuildPass) ELSE BuildPass

-----------------------------------------------------------------------------
\* The single pass.  Declined says that it declines.

Declined == [ok |-> FALSE, none |-> TRUE]

IsBare(r) == r.for = NoTest

\* Two records of one name: a local package may be called P.test.
Ambiguous(records) == \E r, s \in records : r # s /\ Name(r) = Name(s)

WalkFrom(records, roots) ==
  Reach(roots, [r \in records |-> {s \in records : Name(s) \in r.imports}])

\* Seeded fault (SinglePassAgrees): a subPackage may be in any module.
IsRootOfAny(r) == IsBare(r) /\ r.path \in subPackages

IsRoot(r) ==
  IsBare(r) /\ r.path \in subPackages /\ r.mod # NoModule /\ Kind(r.mod) = "main"

BuildClosure(records) ==
  LET bare  == {r \in records : IsBare(r)}
      roots == {r \in records : IsRoot(r)}
  IN  IF Ambiguous(bare) \/ Paths(roots) # subPackages THEN Declined
      ELSE [ok |-> TRUE, records |-> WalkFrom(bare, roots)]

\* Seeded fault (RestrictIsListing): a match is told by its module.
IsOfModule(r, patterns) ==
  IsBare(r) /\ r.match # {} /\ (r.mod \in patterns \/ Kind(r.mod) = "main")

\* A match is told by the record's Match, not by its module.
IsMatch(r, patterns) == IsBare(r) /\ r.match \cap patterns # {}

RestrictToPatterns(records, patterns) ==
  LET matched == {r \in records : IsMatch(r, patterns)}
      tested  == {p \in matched : p.hasTests}
      mains   == {r \in records : IsBare(r) /\ r.path \in {TestMain(p.path) : p \in tested}}
      reached == WalkFrom(records, matched \cup mains)
  IN  IF Ambiguous(records) \/ \E p \in tested : TestMain(p.path) \notin Paths(mains)
      THEN Declined
      ELSE [ok |-> TRUE,
            records |-> {[r EXCEPT !.embeds = @ /\ r.path \in Paths(matched)] :
                           r \in reached}]

\* Only the replace directives with a relative directory are scanned for.
Scanned == tree.scanned

\* Seeded fault (DeclinesForACause): compared the other way round.
CoveredSwapped(siblings) == Scanned \subseteq siblings

\* The run listed the tests of every sibling the build links.
Covered(siblings) == siblings \subseteq Scanned

SinglePass ==
  LET all     == ListTest(tree, TestPatterns(Scanned))
      closure == BuildClosure(all)
      g       == ClassifyGo(closure.records)
      test    == IF g.siblings = Scanned THEN [ok |-> TRUE, records |-> all]
                 ELSE RestrictToPatterns(all, TestPatterns(g.siblings))
      merged  == MergeTestPass(g, ClassifyTest(test.records, g))
  IN  IF ~plain \/ ~closure.ok THEN Declined
      ELSE IF ~g.ok THEN Declined
      ELSE IF ~Covered(g.siblings) THEN Declined
      ELSE IF ~test.ok THEN Declined
      ELSE IF ~merged.ok THEN Declined
      ELSE merged

-----------------------------------------------------------------------------
ListingInit ==
  /\ tree \in Trees
  /\ subPackages = {} /\ plain = FALSE /\ doCheck = FALSE /\ overlaid = {}
  /\ stage = "start"
  /\ graph = Failed
  /\ served = "no one"

Call ==
  /\ stage = "start"
  /\ \E request \in Requests :
       subPackages' = request.subPackages /\ plain' = request.plain /\ doCheck' = request.doCheck
  /\ overlaid' \in SUBSET {p \in DOMAIN tree.pkgs :
       "embed" \in {tree.pkgs[p].err, tree.pkgs[p].testErr, tree.pkgs[p].xTestErr}}
  /\ stage' = IF doCheck' THEN "single" ELSE "build"
  /\ UNCHANGED <<tree, graph, served>>

\* One run served, or any failure of it is left to the two passes.
Single ==
  /\ stage = "single"
  /\ \E g \in {SinglePass} : g.ok /\ graph' = g
  /\ served' = "single"
  /\ stage' = "done"
  /\ UNCHANGED inputs

Decline ==
  /\ stage = "single"
  /\ ~SinglePass.ok
  /\ served' = "declined"
  /\ stage' = "build"
  /\ UNCHANGED <<inputs, graph>>

\* The go command itself may fail, in any of its runs.
SingleRunFails ==
  /\ stage = "single"
  /\ served' = "run failed"
  /\ stage' = "build"
  /\ UNCHANGED <<inputs, graph>>

Build ==
  /\ stage = "build"
  /\ graph' = BuildPass
  /\ stage' = IF BuildPass.ok /\ doCheck /\ BuildPass.local # {} THEN "test" ELSE "done"
  /\ UNCHANGED <<inputs, served>>

Test ==
  /\ stage = "test"
  /\ graph' = TestPass(graph)
  /\ stage' = "done"
  /\ UNCHANGED <<inputs, served>>

RunFails ==
  /\ stage \in {"build", "test"}
  /\ graph' = Failed
  /\ served' = "failed"
  /\ stage' = "done"
  /\ UNCHANGED inputs

Done == stage = "done" /\ UNCHANGED listingVars

ListingNext == Call \/ Single \/ Decline \/ SingleRunFails \/ Build \/ Test \/ RunFails \/ Done

ListingSpec == ListingInit /\ [][ListingNext]_listingVars

-----------------------------------------------------------------------------
\* Seeded fault (ClosuresAreLinked): third-party packages link only such.
LinksApart(g, p) ==
  (UNION {l.localImports \cup l.thirdPartyImports : l \in {x \in g.local : x.path = p}})
  \cup UNION {x.imports \cap Paths(g.packages) : x \in {y \in g.packages : y.path = p}}

Links(g, p) ==
  (UNION {l.localImports \cup l.thirdPartyImports : l \in {x \in g.local : x.path = p}})
  \cup UNION {x.imports : x \in {y \in g.packages : y.path = p}}

\* What each binary links: compute_sub_package_closures walks the graph.
SubPackageClosure(g, root) ==
  LET known  == Paths(g.local) \cup Paths(g.packages)
      linked == Reach({root} \cap known, [p \in known |-> known \cap Links(g, p)])
  IN  [mods |-> {x.mod : x \in {y \in g.packages : y.path \in linked}},
       siblings |-> {x.mod : x \in {y \in g.local : /\ y.path \in linked
                                                      /\ Kind(y.mod) # "main"}}]

-----------------------------------------------------------------------------
\* Properties
-----------------------------------------------------------------------------

\* The single pass gives what the two passes would have given, and only when
\* they would not have failed (resolve_single_pass).
SinglePassAgrees == served = "single" => graph = TwoPasses

\* A record without the list of patterns it matched.
Summary(r) == [r EXCEPT !.match = {}]

\* Narrowing the records of a run over more patterns gives what go list
\* prints for the fewer (restrict_to_patterns).
RestrictIsListing ==
  stage = "start" =>
    \A siblings \in SUBSET Scanned :
      LET wide     == ListTest(tree, TestPatterns(Scanned))
          narrow   == ListTest(tree, TestPatterns(siblings))
          narrowed == RestrictToPatterns(wide, TestPatterns(siblings))
      IN  narrowed.ok => {Summary(r) : r \in narrowed.records} = {Summary(r) : r \in narrow}

\* The single pass declines for no other than the documented reasons: a
\* subPackage that ./... does not match or that is of another module, a
\* sibling the scan of go.mod missed, two records of one name, or an error.
Cause ==
  \/ ~plain
  \/ \E p \in subPackages : ~tree.pkgs[p].listed \/ ~InMain(tree, p)
  \/ ~TwoPasses.ok
  \/ ~(BuildPass.siblings \subseteq Scanned)
  \/ Ambiguous(ListTest(tree, TestPatterns(Scanned)))

DeclinesForACause == served = "declined" /\ stage = "build" => Cause

\* The test runner tests what go list matches in the main module and the
\* build made an archive of.  Whatever such a test reaches, and the files it
\* embeds, are in the graph.  The way does not go through test-only packages
\* that go list has an error for, which the test run will report, nor through
\* those that have the name of what go generates for a test.
Overlooked(p) ==
  {q \in DOMAIN tree.pkgs \ (Paths(graph.local) \cup Paths(graph.packages)) :
     \/ tree.pkgs[q].err # "none" /\ ~Supplied(tree.pkgs[q], q)
     \/ Last(q) = ".test" \/ q = XTest(p)}

Reached(p) ==
  LET found == [q \in DOMAIN tree.pkgs |-> tree.pkgs[q].imports \ Overlooked(p)]
      roots == {p} \cup tree.pkgs[p].testImports \cup tree.pkgs[p].xTestImports
  IN  {q \in Reach(roots \ Overlooked(p), found) : tree.pkgs[q].mod # NoModule}

TestsFindTheirImports ==
  stage = "done" /\ doCheck /\ graph.ok =>
    LET local == graph.local \cup graph.testLocal
        known == Paths(local) \cup Paths(graph.packages) \cup Paths(graph.testPackages)
    IN  \A l \in {x \in local : InMain(tree, x.path) /\ tree.pkgs[x.path].listed} :
          /\ Reached(l.path) \subseteq known
          /\ tree.pkgs[l.path].testEmbeds => l.embeds

\* The modules recorded for a binary are those of the packages it links, also
\* where a third-party package imports a replaced one.
ClosuresAreLinked ==
  stage = "done" /\ graph.ok =>
    \A p \in subPackages :
      LET linked == Reach({p}, Imports(tree))
      IN  SubPackageClosure(graph, p) =
            [mods |-> {tree.pkgs[q].mod : q \in {r \in linked : IsThirdParty(tree.pkgs[r])}},
             siblings |-> {tree.pkgs[q].mod : q \in {r \in linked : /\ IsLocal(tree.pkgs[r])
                                                                     /\ ~InMain(tree, r)}}]
=============================================================================
