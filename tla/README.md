# Formal models of go2nix

go2nix builds Go programs with Nix, one derivation for each package. This
directory holds TLA+ models of the parts of it that decide *what* is built and
*in which order*: the concurrent linker driver, the lockfile and its commands,
the `resolve` command of the experimental mode with its module cache, its
access to the Nix store, the compile of a package, the test runner, the
topological sort, the embed configurations, and the package listing of the
evaluator plugin with what it keeps between calls. TLC checks the models on small
instances; TLAPS proves the main properties of all of them but the embed
configurations for every instance.

Paths below are relative to the repository's root; `g/` stands for
`go/go2nix/`.

```
tlc -workers 4 -config lock_gen.cfg MCLockfile   # one run
tlapm Lockfile_proofs.tla                        # one module of proofs
```

`PROJECT.json` lists the components, the runs, the theorems, the hazards the
properties are for (each at its line of the source), the lines every
definition models, and for every checked property a mutant of the model that
violates it.

## 1. The system

### Components

| component | source | state | operations | here |
|---|---|---|---|---|
| link-binary | `g/cmd/go2nix/linkbinary.go` | a log per binary, the printed log, an errgroup with its context, `bin/` | compile and link each main package | `LinkJobs` |
| lockfile | `g/pkg/lockfilegen`, `lockfile`, `mvscheck`, `golist` | `go2nix.toml` | `generate`, `check` | `GoMod`, `Lockfile` |
| resolve (experimental mode) | `g/pkg/resolve` | the Nix store, a temporary GOMODCACHE, the package graph, `$out` | make and register every derivation of a project | `Resolve`, `ModCache` |
| test runner | `g/pkg/testrunner`, `g/cmd/go2nix/testpkgs.go` | archives, two importcfgs per target | compile test variants and what depends on them, link, run | `TestRunner` |
| topological sort | `g/pkg/toposort` | none | `Sort` | `TopoSort` |
| package listing | `g/pkg/golist`, `localpkgs` | none | `go list` and go.mod to records | by its result, in `GoMod`, `Resolve`, `TestRunner` |
| evaluator plugin: listing | `packages/go2nix-nix-plugin/rust/src/resolve.rs` | a memo of `go list` outputs | the package graph for Nix expressions, in one pass or two | `GoList`, `Listing`; the memo in `Evaluator` |
| evaluator plugin: hashes | `module_hashes.rs`, `nar_cache.rs`, `nar.rs` | a cache directory of the user | NAR hashes of modules | `Evaluator` |
| store access | `g/pkg/nixdrv` | a pool of connections, the Nix store | derivations, builds and sources, through the daemon or the `nix` tool | `Store`, `StoreAccess`, `Derivation` |
| compile-package | `g/pkg/compile`, `g/cmd/go2nix/compile.go` | temporary files, an archive, an entry for consumers | compiler, cgo, C compilers, assembler, pack, in sequence | `Compile` |
| embed configurations | `g/pkg/gofiles` | none | patterns and a directory to a map of names | `Embed` |
| default mode | `nix/dag/default.nix` | none (Nix expressions) | which archive a compile and a link take as input | not modelled |
| cgo flags, build info, test main | `g/pkg/compile/cgosecurity.go`, `buildinfo`, `testmain` | none | text to text | not modelled |
| Nix glue, benchmarks, fixtures | `nix/`, `packages/` | none | | not modelled |

### How they interact

`generate` turns the go.mod files of one or several projects into one
lockfile; it is run by hand and its output is committed. In the default mode the
evaluator plugin lists the packages, the Nix expressions make a derivation for
each module, package and binary, and the builds call `compile-package`,
`link-binary` and `test-packages`. In the experimental mode a
recursive-nix build calls `resolve`, which does the plugin's and the
expressions' work itself through store calls, and leaves the final derivation in
`$out`. The parts share no memory: they meet in the lockfile, in the Nix
store, in importcfg files, and in the graph of packages.

### What is hard

* **Concurrency.** `runLinkJobs`: goroutines that wait for each other, print for
  each other and cancel each other. `Generate`: concurrent downloads into shared
  maps. `setupGOMODCACHE`: concurrent writers in one directory.
  `nixdrv`: calls that share connections, each with a goroutine that feeds it.
  Evaluators that share a cache directory.
* **Failure.** One of several links, downloads or store calls fails; a connection
  breaks between a request and its answer; a process is killed; garbage is
  collected between two runs; a tool fails after half its output.
* **Staleness.** A hash that is reused, a lockfile made for another go.mod, an
  archive compiled against a package that was replaced since, a derivation that
  should have changed, a listing made for other patterns than it is used for, or
  for files that were edited since; a generated file of the package compiled before.
* **Ordering.** Dependencies first, in every list that is compiled,
  registered or linked; the first directory listed wins a key; the last binary
  listed wins a name.
* **Names that are not injective.** Two binaries of one base name, two import
  paths of one file name, two sources of one object, two modules of one lockfile key.

### What makes each part correct

* link-binary: the log is in list order and ends with the failure that is
  returned; binaries of one name are never linked together; everything ends.
* lockfile: every hash is that of the tree its entry names; what `generate` wrote
  passes `check`; a failed `generate` changes nothing.
* resolve: it fails only for a cause outside it; what is compiled is
  what `go list` saw; links are closed; a derivation changes exactly if its
  inputs do.
* test runner: whatever is linked was compiled against what is linked.
* topological sort: dependencies first, an error exactly on a cycle.
* package listing: one `go list` run serves as two would, or not at all; the graph
  has whatever a build or a test needs; a listing kept from an earlier call is what
  go would print now, and every hash is that of a whole module.
* store access: both implementations do what the interface says, whatever breaks;
  the path computed for a derivation is the one Nix comes to; no call and no
  goroutine is left over.
* compile-package: an archive is made of the package's own files, has all of them, and
  is not pointed to before.
* embed configurations: what the go command embeds, and an error when it would refuse.

## 2. The modules

| module | what it is |
|---|---|
| `LinkJobs` | `linkOne`/`runLinkJobs`: one action per step of a goroutine |
| `OrderedLog` | what a caller of `runLinkJobs` is promised, without goroutines |
| `LinkJobsInv` | the inductive invariant of `LinkJobs`; the refinement of `OrderedLog` |
| `LinkJobs_proofs` | proofs about `LinkJobs` |
| `GoMod` | go.mod, the lockfile, `CollectGoModModules`, `CheckLockfile`: operators only |
| `Lockfile` | `generate` against a changing set of go.mod files |
| `LockfileInv`, `Lockfile_proofs` | its inductive invariant, and the proofs |
| `ModCache` | `setupGOMODCACHE`: its goroutines and the directory they share |
| `ImportGraph` | what is reachable in an import graph, and orders with dependencies first: operators only |
| `ImportGraph_proofs` | what these operators give, for any graph |
| `Resolve` | `resolve`; extends `GoMod`, `ImportGraph` and `ModCache`, whose steps are steps of it |
| `Resolve_proofs` | its inductive invariant, and the proofs about it, `ModCache` and `TopoSort` |
| `TopoSort` | `toposort.Sort`: the depth-first visit, step by step; extends `ImportGraph` |
| `Embed` | `ResolveEmbedCfg` and `MergeEmbedCfg`: operators only |
| `Derivation` | derivations, `.drv` files and their paths: operators only |
| `Store` | what a caller of the interface `Store` is promised |
| `StoreAccess` | its two implementations; extends `Store` |
| `StoreAccess_proofs` | proofs about `StoreAccess` |
| `Compile` | the command `compile-package` and `CompileGoPackage` |
| `Compile_proofs` | proofs about `Compile` |
| `Evaluator` | the plugin's memo of listings and its cache of module hashes |
| `TestRunner` | `testrunner.Run`; extends `ImportGraph` |
| `TestRunner_proofs` | its inductive invariants, and the proofs |
| `GoList` | the records `go list` prints for a tree: operators only, external; extends `ImportGraph` |
| `Listing` | `resolve_packages`: the single pass, the two passes; the closures of binaries; extends `GoList` |
| `Plugin_proofs` | proofs about `Evaluator` and `Listing` |
| `MC...` | instances for TLC; `MCAlgorithms` has the inputs of `TopoSort` and `Embed`, and what embed configurations are for |

Modules contain definitions marked "Seeded fault". These are no part of the
model: nothing refers to them. Each is a plausible wrong version of the
definition that follows it, and shows that the property it names notices.

### LinkJobs

Binaries are numbered from 1. A goroutine's `pc` goes through `await` (the
select on the channel of the binary it comes after and the context), `check`
(the context once more), `compile`, `link` and `linker` (inside `linkOne`),
`flush`, `print` and `close` (the deferred calls), `return` and `release` (the
errgroup's own: the first error cancels, then the slot is freed). `Spawn` is the
loop over `g.Go`, which blocks without a free slot, and `Return` the code
after `g.Wait`. `AwaitDone` and `AwaitCancelled` are two actions because a
Go select takes either when both are ready. Log lines are the number of the
binary that wrote them. `bin[name]` is the binary whose link is in `bin/name`.
With one slot the code gives the goroutines the shared writer itself
(`Unbuffered`).

Left out: the manifest, importcfg and modinfo contents, flags. The loop in
`linkOne` is abstracted to a compile that may fail, a link that may fail to
start, and a linker that succeeds, fails, or is killed by the cancellation.

### GoMod and Lockfile

A module `<<path, version>>` also stands for its source tree and for the tree's hash.
A key is the module's own path with the version of what replaces it. A lockfile
is two functions, as the TOML tables `[mod]` and `[replace]`.

`Begin` reads the lockfile as the cache; `Collect` reads the next directory's
go.mod (`CollectFails` if it cannot); `Classify` splits the keys into reused
and to be hashed; `StartHash`, `FinishHash` are the goroutines, `Wait` the errgroup
and the opening of the lockfile, which truncates it; `Write` or `WriteFails`
the rest. `Kill` ends generate anywhere, `EditGoMod` edits a go.mod at any time,
also in the middle of a run. Downloads may start in any order here; the code
sorts them. A lockfile with a syntax error is not reachable: a write is taken to
put all of the file or, once it is truncated, nothing.

`CheckLockfile` looks only for keys, as the code does.

### ModCache and Resolve

A store path is a hash of what it was made from, so it *is* what it was made
from: a record with its source and its dependencies. Two derivations are equal
exactly if these are. `store` is the set of valid paths; `DerivationAdd` is
refused without the derivation's inputs.

A run of `resolve` goes through the phases `modules` (register and build the
fetches), `cache` (the goroutines of `ModCache`), `list` (`go list`, then the
graph), `stage` (local sources into the store), `specify` (package derivations, in
topological order), `register`, and `finals` (links, collector, `$out`).
A run may be given any project with any lockfile of `Locks`; what it keeps from
one run to the next is what is in the store, and `CollectGarbage` leaves of that what `$out`
was made from, or nothing. `Faulted` and `CacheFault` are failing calls. `Stop`
names why a run ended: `"hash"`, `"cache"`, `"lock"`, `"no main"`,
`"fault"`, and `"internal"` for what only a mistake of resolve's own can cause.

What `go list` reports (`Listed`, `Imports`, `ListedTree`) is modelled from how
`resolve` uses it, as are the daemon and garbage collection. What a tree may import is
assumed: packages of modules the project requires, and no cycles (`ImportsAssumption`),
which is what `go list` accepts. The order is chosen from all topological orders, and the
binaries are listed in any order of the same kind (`InOrder`); that `toposort.Sort` gives one
is proved (`SortGivesAnOrder`). Packages of modules replaced by a directory count as local. Left
out: tools, flags, overrides, the standard library (the same in every derivation),
and the errgroup limit of the cache (at least eight, above the number of keys).

### TestRunner and TopoSort

An archive is the import path it was compiled for, the round (the target it was
compiled for, 0 if by a derivation), and for each import the compile it was
resolved to, as the linker's fingerprints do. `linkCfg` and `compileCfg` are sets
of import path and file; a file is named by `sanitize` of an import path,
which is a parameter, as is the set of import graphs; they have no cycles (`GraphsAssumption`),
which `go list` refuses. The import graph, the tests' imports, which packages have
which kind of test, and which packages the build resolved are all free. So are, among the
orders with dependencies first, the ones in which packages are tested and recompiled
(`TestOrders`, `ComputeAffected`): the code takes the one `toposort.Sort` gives, and that
it gives one of these is proved (`SortGivesAnOrder`). The two walks of
`affectedLocalDeps`, from the external test's imports and back from the target, are
`XTestReachable` and `Dependents`.

`Start`, `CompileInternal`, `ComputeAffected`, `RecompileNext`,
`CompileExternal`, `CompileTestMain`, `LinkAndRun` are the parts of
`runPackageTests` in order, and `Abort` a failure of any.

`TopoSort` is the depth-first visit with its three marks. The closure calls itself, so the
calls that have not returned are a sequence (`visits`): `Enter` is a call up to its loop,
`Leave` what follows the loop, `MeetCycle` the error that every call hands on, `Finish`
the end of the loop in `Sort`. A loop goes over its list once and each key in it is marked
as visited when the next is looked at, so what is before a loop are the keys not yet visited
(`Remaining`), and the next is the least. The map of nodes and the function that gives what a
key depends on are free: every graph, with keys that are no nodes, and with cycles.

### Embed

A tree is a set of nodes, each with its parent and what it is: a file or a directory,
hidden or not, another module, a file go does not embed. A pattern matches nodes and may
begin with `all:`. `ResolveEmbedCfg` is the fold over patterns and over their matches
that the code makes, with the directories it remembers as fit (`Parents`), and the walk
into a directory; `MergeEmbedCfg` the merge of the configurations of a package and of its
tests. Which nodes a glob matches is free, but for this: the matches of one pattern
lie at one depth, as those of a glob do.

### Derivation, Store, StoreAccess

A store path is a kind with what it is the hash of. `Derivation` makes them as
`AddCAOutput`, `AddFODOutput`, `AddInputDrv`, `AddInputSrc`, `ToGoNixDerivation` and
`DrvPath` do, and says beside it what Nix makes of the JSON (`NixAdd`).

`Store` is the promise: a call that succeeds returns the path of what was asked for,
which is then valid; a call that fails may have had any part of its effect; nothing else
enters. `StoreAccess` extends it with the goroutines of the two implementations.
`newStore` chooses. A call of the daemon store takes a connection (`Acquire`), makes its
request, sends a directory piece by piece through a pipe that a second goroutine feeds
(`DumpWrites`, `Transfer`), and gets an answer, an error, or a connection that breaks
before or after the daemon acted; `Release` is the deferred call that gives the
connection back or closes it, `PipeClosed` the other deferred one. A call of the
`nix` tool is one process that may fail after part of its work. The actions change the
variables of `Store` only where the store or the caller's result changes, so that
the refinement mapping is the identity and `ImplementsStore` is `StoreSpec` itself.
The pool, the protocol and the daemon are not in the repository; they are
modelled from their use.

### Compile

A job is a call of `CompileGoPackage`, by the command or by another part of go2nix. What
one tool leaves for the next lies in files: `disk` maps a name, the directory and the
package's import path as file names have it to the package the file was made for, so that
a file of another package, or an empty one, can be told from the right one. `work` is
the directory of C objects, by name. `pc` follows the code through load, merge and
resolve (the command), profile, check, embed, flags, cgo, cc (one action for each
object), symabis, pragmas, compile, asm, pack and the entry for consumers. Any tool may
fail anywhere (`Fails`); `PackFails` leaves a part of an archive. The go command's
interface split is `Split`. What compilers do with flags is left out.
`linkOne` gives each compile a directory of its own and the test runner compiles one
package after the other; that is `MayStart`.

### Evaluator

`Begin`, `MakeKey`, `LookUp`, `RunGoList`, `Keep` are a call of `resolve_single_pass` as
far as the memo goes; `Cached`, `Computed` and `Answer` find the hashes of the modules of
the listing, in any order. Between any two of them a path may be pointed to another tree
(not to one a call under way names), a tree outside the store edited, a module extracted
into the module cache, or an evaluator killed. What go prints is what it read, its
settings, and whether a module is missing.

### GoList and Listing

A tree gives each package its module, its imports from each kind of its files, which
kinds there are, and what `go list` reports wrong with it. `GoList` says which records
the two `go list` commands print for it: packages, the copies `P [Q.test]`
compiled again for a test, external tests and test mains, each with its imports under
those names. The go command is not in the repository; the module follows what the
comments and tests of `resolve.rs` say of it.

`Listing` is a call of `resolve_packages`. `Call` chooses the arguments; with `doCheck`
the single pass is tried: `Single` if it serves, `Decline` if it returns `None`,
`SingleRunFails` if the go command does. `Build` and `Test` are the two passes and
`RunFails` a failure of the command in one of them. `ClassifyGo`, `ClassifyTest`,
`MergeTestPass`, `BuildClosure`, `RestrictToPatterns` and `SubPackageClosure` are
the functions of these names in `resolve.rs` (the last is
`compute_sub_package_closures`). Record order matters only to which copy of
a package comes first; the copies differ in nothing that is kept. `plain` says that there
is a subPackage and that each is written `.` or `./dir`, without which the single pass is not
tried further.

`WellFormed` says which trees the go command accepts: what is imported is there and can be
imported, a package has its module's path for a prefix, the standard library imports
nothing else, and one module is the main one. That is `TreesAssumption`;
`RequestsAssumption` says that a call names some packages of the tree, and
`TwinsAssumption` keeps out packages that have the name of a generated test main, `P.test`,
where it would matter (see Findings). The early return for a graph without local packages
(`resolve.rs:1634`) is not an action of its own: what is built is of the main module, so
there is one.

Of a record are kept its path, module, imports, matched patterns, its error, and
whether it has files, tests, and files its tests embed. Left out: flags, cgo, the file
lists, the wording of errors; the memo is the subject of `Evaluator`.

## 3. The runs

| run | module | bounds | states | shows |
|---|---|---|---|---|
| `link_par` | `MCLinkJobs` | 4 binaries, 3 of one name; 3 slots | 52,019 | all safety properties, `ImplementsOrderedLog`, `Termination` |
| `lock_gen` | `MCLockfile` | 2 directories, 6 go.mod files, 2 downloads at once; no bound on edits or runs | 310,932 | the lockfile properties |
| `resolve` | `MCResolve` | 8 projects, every own, merged or stale lockfile; 2 runs, 1 fault, 2 files per module | 142,442 | seven properties of resolve |
| `test_one` | `MCTestRunner` | 4 local packages, every graph; 1 target; interface split | 460,824 | linked archives are consistent |
| `test_two` | `MCTestRunner` | 3 packages; 2 targets; test directories of one name | 713,889 | nothing leaks from one target to the next |
| `algorithms` | `MCAlgorithms` | every graph of 4 keys, 2 node sets; every tree of 3 nodes with at most 2 traits and 2 patterns | 847,581 | the sort ends, with an order or with the cycle there is; the embed configurations are what they are for |
| `listing` | `MCListing` | every tree with at most 4 of 28 traits; 5 requests | 800,973 | the single pass against the two passes; the graph's completeness |
| `compile` | `MCCompile` | 2 jobs in one directory, 11 packages, any failure | 138,474 | what is in an archive, and who may read it |
| `store` | `MCStoreAccess` | 3 calls, 2 at once, 1 connection, 1 piece; 4 requests | 269,581 | `Store` is implemented, connections are clean, all ends |
| `evaluator` | `MCEvaluator` | 2 evaluators, 3 calls, 1 path to 4 trees, 2 modules, 1 edit | 1,288,432 | nothing stale is served, every hash is whole |
| `resolve_merge` | `MCResolve` | | | a violation: see Findings |
| `compile_same_stem` | `MCCompile` | | | a violation: see Findings |

### Why the bounds are enough

* `link_par`: three binaries of one name make a chain, in which the second waits
  while the third does; the fourth, of another name, can fail, finish or print
  between them. Three slots for four binaries make `Spawn` wait. The proofs
  cover every number of binaries, slots and every naming, the one slot included
  with which the logs are not buffered.
* `lock_gen`: the go.mod files have a plain requirement at two versions, a fork of
  the same and of another version, a replace directive for one version beside one
  for all, and a directory. In two of them another module is required that is
  itself the fork. One directory suffices for a lockfile that is reused after
  an edit; two for a conflict. Edits and runs are unbounded, since the
  state returns. The proofs cover every go.mod.
* `resolve`: two binaries with a shared library and a module only one of them
  imports; the changes are of a main package's text, the library's text, the imports,
  a version, a fork of the same version, and the number of main packages
  (two, one, none). Two runs are what it takes to compare one with the next;
  a failure in the first leaves any part of its work in the store.
* `test_one`: the smallest graph in which a recompiled package imports
  another that is recompiled, beside one that is not, has four packages.
* `test_two`: two targets and a package both depend on.
* `listing`: the main module `m` with packages `m/a` and `m/b`, the modules `m/s` and
  `m/s/u` replaced by directories, of which `m/s/...` matches both, a third-party
  module and a forked one. A trait is an import between two of the packages, from one
  kind of file, or a peculiarity: a package `...` does not match, a replace
  directive the scan of go.mod does not see, a sibling that is fetched, a pattern that
  embeds nothing, a package of tests only, a package called `m/a.test`. Four traits
  make a chain from a test over a third-party package to a sibling and on to what
  the sibling's own tests import. Trees with import cycles are left out, as go
  refuses them.
* `algorithms`: four keys make a cycle beside a node that is not on it, and a node
  reached twice; in one of the node sets two keys are no nodes. The proofs cover every
  finite graph. Three nodes make a file in a directory in a directory, and two patterns
  one that meets what the other remembered.
* `compile`: what one job leaves the other finds, in either order, with packages of one
  import path, with and without assembly, with cgo, with C files of one name in
  different languages, and with every reason to be refused. More jobs would
  meet nothing else, since a job meets only what the last one left; the proofs cover any
  number of jobs, packages and directories.
* `store`: one connection makes calls wait and be given one that another used; the third
  call finds what the second left. The derivations are one with a fixed output and one
  with two inputs named one by one and once more. The proofs cover any number
  of calls, connections, pieces and all requests.
* `evaluator`: two calls by one evaluator meet its memo, the third by another meets its
  hashes. Two listings fit into the memo or one large one does. The trees: two in the
  store, one with a link out of it, and one outside.

CHECK_DEADLOCK is off only in the run `resolve_merge`, which shows a violation. In
`link_par`, `test_one`, `test_two`, `compile` and `store` a `Done` action, and in `algorithms`
`SortEnded`, marks the regular end, so that every other stop is a deadlock.

### What the properties say

* `LinkJobs`: `ImplementsOrderedLog` (the log is in list order, ends with the first
  failure in that order, which is the one returned), `NoLogHeldBack` (a finished log
  waits only for one listed before it), `CancelHasACause`, `SameNameExclusive`,
  `NoRunAfterFailedPredecessor`, `LastListedWins`, `Termination`. `LogInIndexOrder`,
  `NoLogPastFailure` and `ResultMatchesLog` say parts of the first directly; they are
  conjuncts of `IInv` or follow from it.
* `Lockfile`: `HashOfNamedTree`, `ChecksAfterGenerate`, `FirstListedWins`,
  `FailureKeepsLock`.
* `Resolve`: `OnlyForACause` (no run ends by resolve's own mistake, whatever the
  store holds), `GoListSeesTrees` (no partial cache is read), `LockErrorIsEarned`,
  `SourceIsListed`, `LinkConsistent`, `RebuiltIffChanged` and `RelinkedIffChanged`
  (in both directions: no stale derivation, no needless one).
* `TestRunner`: `LinkConsistent`, `RecompiledIsNeeded`, `NoLeftovers`.
* `TopoSort`: `SortIsTopological` (an error exactly if a cycle can be reached; otherwise
  every node once, after all it depends on), `VisitsEnd` (each step leaves fewer that are
  possible). `Embed`: `EmbedsAsSpecified`, `MergeAgrees` (in
  whatever order configurations are merged; a conflict is an error).
* `StoreAccess`: `ImplementsStore`, `NoBrokenReuse` (no request on a connection with an
  unfinished one), `Drained`.
* `Compile`: `OwnInputsOnly`, `CompleteArchive`, `NoEntryForPartial`,
  `ExternalWhenUnlinked` (an archive without its dynamic imports tells the linker so).
* `Evaluator`: `ServedIsCurrent`, `HashesRight`.
* `Listing`: `SinglePassAgrees` (what one run gave is what the two passes owe),
  `RestrictIsListing` (narrowing the records of a run over more patterns gives those of
  a run over fewer), `DeclinesForACause` (it declines for the documented reasons
  only), `TestsFindTheirImports`, `ClosuresAreLinked`. `TestsFindTheirImports` speaks of
  what a test reaches by a way on which no test-only package is `Overlooked`: one that go
  list has an error for, which the test run will report, or one with the name that go
  gives to a test main or an external test, which the pass takes for that.

### Fairness

`LinkJobs` and `StoreAccess` have a liveness property. For `LinkJobs`, `FairSpec` assumes
weak fairness of the spawning loop, of the return, and of each goroutine's steps: the Go
scheduler runs every goroutine that can run, and the compiler and the linker end, well
or not. Nothing is assumed of which branch a select takes or who gets a mutex
or a slot. For `StoreAccess` it assumes weak fairness of `NewStore`, of each call and of
each dumper: they are goroutines, and the daemon answers or its connection breaks.
Nothing is assumed of which of these happens. The pool is first come, first
served in effect, as each call makes one request: weak fairness of each suffices.
The other components promise no more than safety: a command that
is killed or fails has not to be resumed.

### Assumptions about the surroundings

* A path given as `src` is not pointed to another tree while a call that names it is
  under way (`Evaluator!Relink`): the key of a kept listing is made before `go list` runs
  (`resolve.rs:1612`), and without the assumption `ServedIsCurrent` does not hold.
* Modules are never removed from GOMODCACHE, and go never takes one that is being
  extracted for a whole one.
* A rename is atomic, also against a kill; power failures are left out.
* No two concurrent compiles share a `--trim-path`: each derivation builds in its own
  directory and `linkOne` makes one per binary.

## 4. The proofs

TLAPS checks every leaf with Z3, Zenon and LS4. All constants are arbitrary
within the named assumptions.

**LinkJobs_proofs**, for every `N \in Nat`, `Limit \in Nat \ {0}` and naming.
The properties are not inductive: that the printed log ends at the
lowest-numbered failure depends on what each of `next`, `stopped`, `finished`,
`closed`, `cancelled` says of the goroutines' positions. `IInv` states that:
`Bookkeeping` ties the shared variables to the program counters, `Cursor` says that
what `next` has passed is finished and that only the last can have failed,
`Cancelling` that the group is cancelled before a failed goroutine frees its slot,
`OneAtATime` that without buffers at most one goroutine exists and it is the one in
line, `Chain` that whoever was admitted comes after successful predecessors,
`Output` and `Outcome` what is left at the end. One lemma per action shows
`IInv` preserved. From it follow `LogOrdered`, `NothingHidden`,
`NothingHeldBack`, `SameNameInTurn`, `NoneAfterFailure`, `ResultCorrect`, and `Refinement`:
every step of `LinkJobs` is one of `OrderedLog` or changes nothing it shows. That a
finished log waits only for one listed before it (`NothingHeldBack`) is a conjunct of
`Cursor`; `SameNameInTurn` and `NoneAfterFailure` follow from `Chain`.

**Lockfile_proofs**, for all paths, versions, directories, lists of arguments,
numbers of downloads and all go.mod files that satisfy `GoModType`. `IInv` says that
both the lockfile and the cache are `Consistent` (each hash is that of the tree its entry
names), what is collected is what the files read so far select, the first one first
(`CollectedAsRead`), what is found is the `Entries` of what was collected
(`FoundAsCollected`), and how the lockfile was left (`LeftAsReported`). The step
that matters is `Classify`: a hash is reused if key and path agree, and by
`Consistent(cache)` it is then the hash of the tree now selected (lemma
`CachedAreEntries`). `Consistent` is therefore needed of every lockfile that was ever on
disk, the truncated ones included. From `IInv` follow `HashesRight`, `ChecksRight`,
`FirstListedRight`, `FailureRight`. (`MCLockfile` extends `LockfileInv`: TLC checks `IInv` as well
when `lock_gen.cfg` names it.)

**StoreAccess_proofs**, for any calls, requests, connections, limits and pieces.
`ConnInv` says that a connection in use is marked as used and has one user, and that a
connection with an unfinished request is closed, or is held by a call that is still
waiting or knows of the failure and will close it (`MidwayMinded`): `NoBrokenReuse` alone
says nothing of the moment of the release. From it follows `ConnectionsAreClean`.
`AnswerInv` says that an answer once known is an error or the paths asked for, all of
them valid; since nothing leaves the store, that stays true until the call returns, and
every step is a `StoreStep` or changes nothing a caller sees (`StoreImplemented`). The
theorem has one hypothesis, `NixSortsAlike`: for every list of outputs in a
request, the sorted set of them is the sorted list, which is so if the list has no
element twice, as `MergeUnique` ensures. `SortSeq` of the module `TLC` is built into the
prover, which cannot expand it, so this is not proved. From it
lemma `PathAlike` concludes that Nix comes to the path computed without it, the filled-in
path of a fixed output included. The run `store` checks the same without the hypothesis.

**Compile_proofs**, for any jobs, packages and directories that satisfy
`CompileAssumption`. `CompileInv` says of each job which of its files are its own at every
place (`HasFiles`), what has been built (`BuiltRight`), and what the archive and the entry
are like (`ArchiveRight`, `EntryRight`); `Exclusive`, that one job at a time works in a
directory, is what keeps a file right from where it is written to where it is read.
Lemma `OtherJobs` shows once that a step of one job leaves the others in order, so that
each action is looked at for its own job only. From it follow `MadeOfItsOwn` and
`EntriesAreWhole`. `NothingIsMissing` has the hypothesis `DistinctNames`: no two sources
of a kind share a name but for the extension, and C files stand beside cgo files. The run
`compile_same_stem` shows that it cannot do without the first half. Its invariant,
`ObjectsInv`, says that an object, while it is on disk, is the one that its name says.

`UnlinkedIsExternal` rests on `LinkModeInv`: the outcome of the test link is known before
the compile, decides whether the archive gets its dynamic imports, and whether the mark for
the linker is packed into it.

**Plugin_proofs**, about `Evaluator`, for any evaluators, paths, settings, trees, modules and sizes of the
memo that satisfy `EvaluatorAssumption`. `EvaluatorInv` says what everything that outlives a call
may be. A memo holds only listings without errors, of trees that never read
differently and whose modules were extracted for good (`GoodEntries`); what a call has in hand
between the run of go and the memo is such a listing unless it is of a live tree or a
module was missing (`Made`), for a key made of the tree the path leads to (`KeyRight`);
a listing that was served has all its modules (`Whole`); a cached hash is that of a
whole module (`NarInv`), and so is every hash collected so far (`HashesMade`). From it
follow `NothingStaleServed` and `HashesOfWholeModules`, however calls interleave with
edits, extraction and kills. Why a tree with a link out of the store is never kept, and why a
listing with a missing module is not, are the two cases in which `Keep` would break the
invariant.

About `Listing`, for any trees and requests that satisfy its three assumptions, any overlays
and any failure of go. `ListingInv` says at each stage what the graph stands for: after the
build pass it is `BuildPass`, a graph returned without an error is `TwoPasses`, whichever way
it was obtained, and a call that went past the single pass has a `Cause`. That the steps
preserve it is the whole difficulty, and is a matter of what the passes compute:

* `ListTestFacts` says that a run prints the least set of records that has its roots and
  what its records import, so that two runs can be compared by showing one set closed.
* Every record a run over fewer patterns may print has a `Counterpart` in the wider run;
  `RestrictFacts` shows both inclusions, each by such a closed set: if no two records have one
  name, `restrict_to_patterns` succeeds and gives what go prints for the fewer patterns.
* `ListingIsRegular` says that what the test pass keeps of a record is what the tree says of the
  package, though the same package may have records of its own, for itself and for several
  tests. `ClassifyTestFacts` then describes the test pass in terms of paths, and
  `BuildPassFacts` and `ClosureFacts` the build pass and the closure taken from the wider run.
* `Agreement`: the wider run has marked embeds already that the build pass has not; merged
  with the test pass they come to the same.
* `SinglePassIs` puts these together: where its guards hold (`Serves`), the single pass is the test
  pass over the graph of the build pass; where one fails, it declines.

From `ListingInv` follow `SinglePassAgreesHolds` and `DeclinesForACauseHolds`, from
`RestrictFacts` `RestrictIsListingHolds`. `ClosuresAreLinkedHolds` needs that the
build's packages are closed under imports and that the standard library, which the graph leaves
out, leads nowhere back into it (`LinkedIs`). `TestsFindTheirImportsHolds` takes a step at a time
along a way from the test: a package the test reaches has a record, be it a copy made for it
(`ReachIsListed`); unless it is overlooked, the record is kept (`ReachIsKept`); and the walk over
the kept records, through test-only packages of every kind, leads from each
to the next (`ReachedIsAccounted`).

**ImportGraph_proofs**, for every finite graph. `Reach` takes as many rounds as the graph has
nodes. `ReachFacts` says that this is enough: what is new in a round was not seen before, so that
after as many rounds as nodes nothing is new and the set is closed, and no closed set that has
the start is smaller. The induction is over sets of numbers (`SetInduction`, from
`LeastNumber`), as the library's induction theorems cannot be applied here. `OrderFacts`
says that a topological order has each package once, after what it imports. The
other graph proofs use reachability only through these two.

**Resolve_proofs**, for any projects, lockfiles, faults, runs and garbage collections within
the named assumptions of `Resolve` and `ModCache`. `ResolveInv` has a part for each phase,
which holds from the end of that phase to the end of the run: each module came from where
the lockfile says and is in the store (`BuiltInv`); how far each goroutine of the cache has
come in mirroring its module, and that the cache holds nothing else (`CacheInv`,
`ReadyInv`); the packages are in topological order and the lockfile has their modules
(`SortedInv`); their sources are in the store (`StagedInv`); each derivation made so far is the
one that its source and its imports' derivations determine (`DrvInv`); those before the
cursor are in the store (`RegisteredInv`), and so for links and collector (`FinalInv`).
Garbage is collected only between runs, and each part speaks of what the run itself has
added, so what an earlier run left does not matter. From it follow `FailsOnlyForACause`,
`StaleLocksOnly`, `CacheIsComplete` and `LinksAreClosed`. That derivations, which are
nested, are equal exactly if the closures under them are (`SameAtOne` and the lemmas around it)
is shown along the topological order; `LastInv` keeps the same of the run before.
`CompilesWhatIsListed`, `RebuildsWhatChanged` and `RelinksWhatChanged` have the hypothesis
`KeyedByRequirement`: a lockfile that has the tree that go.mod selects for a key has it under
that key. Lockfiles that `generate` wrote for one project satisfy it; the run `resolve_merge`
shows that a merged one need not, and that `CompilesWhatIsListed` then fails.

In the same module, about `TopoSort`, for every finite set of keys, graph and set of nodes.
`SortInv` says that the running visits are a path in the graph that begins at a node and comes
to no key twice (`VisitsInv`), that what was visited is closed under dependencies and has no
cycle (`VisitedInv`), and that the nodes in it are listed, each after what it depends on
(`ResultInv`). When a visit ends, what it depends on was visited, and by closure all above that:
the key is not among it, so it is on no cycle, and may be listed next. When a key is met
that is being visited, the path leads from it back to it. From `SortInv` follows
`SortIsTopologicalHolds`, and by it `SortGivesAnOrder`, on which the models of `resolve` and of
the test runner rely; `VisitsEndHolds` counts the keys that are left to be marked.

**TestRunner_proofs**, for any packages, graphs, tests, scopes, names and number of
targets. Three invariants, each on top of the one before. `PlaceInv` says where things are:
what derivations built is as built (`FilesInv`); both importcfgs have one entry for each
package, of the archive in the target's directory if the package was replaced, else of
the derivation's (`CfgInv`); what these entries name in the target's directory was compiled
for this target (`RoundInv`), so that the leftovers of another target with the same
directory have been written over before they are named. From it follows `NothingLeftOver`
without a hypothesis. `NeededInv` says that what is still to be recompiled comes in turn, each
package after those it imports that are recompiled too (`InTurn`), and that in the end what
was recompiled is `Needed`. The two walks of `affectedLocalDeps` stay within local
packages; that they find what a walk over all packages finds (`AffectedIsNeeded`) has the
hypothesis `ThirdPartyApart`: packages of other modules import none of the project's. From
it follows `RecompilesWhatIsNeeded`. `ArchiveInv` says that the archives in the
target's directory were compiled against packages whose own archives do not depend on the
one replaced (`Fresh`), as they are now linked: a package is fresh when it was recompiled or
does not lead to the target. When a package is recompiled its affected imports were, by `InTurn`,
so it is compiled against fresh ones, and it becomes fresh itself. It needs `FilesApart`
as well: packages differ in the names of their files. From it follows `LinksAreConsistent`.
Both hypotheses are needed, see Findings, and both hold of the instance `test_one`.

### Only model-checked

`Embed` folds over patterns and their matches, so that what it computes would need induction
over data: `EmbedsAsSpecified` and `MergeAgrees` stay with TLC. `Termination` and `Drained`
need fairness and stay with TLC too. The fold of `MergeUnique` would
need induction too, and `SortSeq` has no definition the prover can expand: `NixSortsAlike` is
a hypothesis of `StoreImplemented`, and the run `store` checks what follows from it.

## 5. Findings

Two runs show a disagreement of the code with what it says of itself.

* `resolve_merge`: a lockfile merged from two projects, of which one requires
  `m@v1` and the fork and the other replaces `m` by the fork at the same version. Both
  need the key `m@v1`, the first gets it, and the second project is compiled from
  `m`'s tree while `go list` reads the fork's.
* `compile_same_stem`: the object of a C++ file is named by its name without the
  extension. Of `x.cc` and `x.cpp` in one package the second overwrites the first, and
  the archive lacks the code of one of them, without an error.

Modelling met these too; no run shows them, but the models say where they are kept out.

* Recompiled archives of the test runner are named by `sanitize` of the import path, which
  maps `/`, `.` and `_` to `_` (`testrunner.go:370`). Two affected dependents such as
  `m/a/b` and `m/a_b` share a file. (`OneEach` in `MCTestRunner`; `FilesApart` in the proofs.)
* Only local dependents are recompiled for a test (`testrunner.go:354`). If an external
  test reaches the package through a third-party package, that one is linked as compiled
  against the archive that was replaced. (`ThirdParty = {}` in the runs; `ThirdPartyApart` in the proofs.)
* In the lockfile of `resolve_merge` two keys lead to one module; their goroutines can
  both find a file missing, and the second symlink fails (`resolve.go:564`), although the
  comment there says it cannot. (`Stop` is then `"cache"`.)
* The link derivation of each binary records the modules of all packages of the graph
  (`resolve.go:1283`), so that a change only another binary depends on changes it too.
  (`RelinkedIffChanged` counts them.)
* `generate -j 0` blocks for ever: the errgroup's limit is zero (`generate.go:71`).
* `check` looks for keys only (`mvscheck.go:62`): a replace directive moved to another
  fork of the same version passes with the hash of the old one.
* Two main packages of one base name meet in the collector's `cp` (`builder.go:124`).
* A package that is really called `P.test` is taken for a test main (`resolve.rs:911`). If it is
  a package of the build whose own tests embed files, the single pass marks it and the two
  passes do not, as they read its mark from the records that are skipped. If it is a subPackage
  that does not exist in the main module while `P` has tests, `build_closure` takes the
  test main of `P` for it (`resolve.rs:1689`), where the two passes fail.
  (`TwinsAssumption` in `Listing`.)
* The daemon of recursive-nix tolerates one connection at a time (`resolve.go:379`);
  the pool's limit is what keeps to it.

## 6. Not modelled, and the plan

In the order of their worth:

1. **The interface split of the default mode** (`nix/dag/default.nix`): a compile
   takes interface archives, a link whole ones; what a change rebuilds, compared
   with `Resolve`; its importcfgs as the input of `TestRunner`, and the graph of
   `Listing` as its own. It is Nix evaluation: no state, and the input of two models.
2. **Proofs**: `MergeAgrees`, with the patterns resolved one step at a time.
3. **A write of the lockfile that ends in the middle** of the text
   (`lockfile.go:50`): here it is all or nothing once truncated.

Not planned: the tables of cgo flags and godebug settings, build tags, generated Go text,
placeholders and store names, and the TOML and JSON encodings, which are functions from
text to text that tests cover; the Nix builder functions, which have arguments, hooks and
phases but keep no state; the benchmarks, the test generator and the fixtures, which are
no part of a build.
