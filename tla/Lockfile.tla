------------------------------ MODULE Lockfile ------------------------------
(***************************************************************************)
(* go2nix.toml and the commands that write and check it: `go2nix generate` *)
(* (go/go2nix/pkg/lockfilegen/generate.go) and `go2nix check`              *)
(* (go/go2nix/pkg/mvscheck/mvscheck.go).                                   *)
(*                                                                         *)
(* Definitions under "Seeded fault" are no part of the model: each is the  *)
(* definition below it with a mistake the property named there must catch. *)
(***************************************************************************)
EXTENDS GoMod, Integers, Sequences, FiniteSets

CONSTANTS
  Dir,         \* project directories
  GoMods,      \* the go.mod files a project may have
  Args,        \* the lists of directories given to generate
  Jobs         \* generate's -j

ASSUME JobsAssumption == Jobs \in Nat \ {0}
ASSUME GoModsAssumption == \A gm \in GoMods : GoModType(gm)
ASSUME ArgsAssumption == Args \subseteq Seq(Dir)

VARIABLES
  gomod,     \* gomod[d]: the go.mod in directory d
  lock,      \* the lockfile on disk
  phase,     \* where generate is: "idle" if it does not run
  outcome,   \* how the last generate ended
  dirs,      \* directories still to be read
  read,      \* the go.mod files the last generate has read, in order
  cache,     \* the lockfile as it was when generate began
  mods,      \* mods[k]: the tree to fetch for each key collected
  todo,      \* keys whose hashing has not begun
  hashing,   \* keys that are being hashed
  failed,    \* some download failed
  found      \* resultMod and resultReplace, as a lockfile

vars == <<gomod, lock, phase, outcome, dirs, read, cache, mods, todo,
          hashing, failed, found>>

Init ==
  /\ gomod \in [Dir -> GoMods]
  /\ lock = EmptyLock
  /\ phase = "idle"
  /\ outcome = "none"
  /\ dirs = <<>>
  /\ read = <<>>
  /\ cache = EmptyLock
  /\ mods = <<>>
  /\ todo = {}
  /\ hashing = {}
  /\ failed = FALSE
  /\ found = EmptyLock

\* The go.mod of a project is edited, at any time.
EditGoMod(d) ==
  /\ gomod' \in {[gomod EXCEPT ![d] = gm] : gm \in GoMods \ {gomod[d]}}
  /\ UNCHANGED <<lock, phase, outcome, dirs, read, cache, mods, todo,
                 hashing, failed, found>>

-----------------------------------------------------------------------------
(***************************************************************************)
(* Generate.                                                               *)
(***************************************************************************)
\* The local variables of a generate that has ended.
Forget ==
  /\ dirs' = <<>>
  /\ mods' = <<>>
  /\ todo' = {}
  /\ hashing' = {}
  /\ failed' = FALSE
  /\ found' = EmptyLock

Begin ==
  /\ phase = "idle"
  /\ phase' = "collect"
  /\ outcome' = "none"
  /\ dirs' \in Args
  /\ read' = <<>>
  /\ cache' = lock
  /\ UNCHANGED <<gomod, lock, mods, todo, hashing, failed, found>>

\* Seeded fault: the last directory that has a key selects its tree
\* (FirstListedWins).
ExtendLast(f, g) ==
  [x \in DOMAIN f \cup DOMAIN g |-> IF x \in DOMAIN g THEN g[x] ELSE f[x]]

\* f with the values of g where f has none.
Extend(f, g) ==
  [x \in DOMAIN f \cup DOMAIN g |-> IF x \in DOMAIN f THEN f[x] ELSE g[x]]

\* The modules of the next directory; a key found before keeps its tree.
Collect ==
  /\ phase = "collect"
  /\ dirs # <<>>
  /\ dirs' = Tail(dirs)
  /\ LET gm == gomod[Head(dirs)] IN
     /\ read' = Append(read, gm)
     /\ mods' = Extend(mods, CollectGoModModules(gm))
  /\ UNCHANGED <<gomod, lock, phase, outcome, cache, todo, hashing, failed,
                 found>>

\* The next go.mod cannot be read.
CollectFails ==
  /\ phase = "collect"
  /\ dirs # <<>>
  /\ phase' = "idle"
  /\ outcome' = "failed"
  /\ Forget
  /\ UNCHANGED <<gomod, lock, read, cache>>

\* The entries for the keys in S, once their trees are hashed.
Entries(S) ==
  [mod |-> [k \in S |-> mods[k]],
   replace |-> [k \in {k \in S : mods[k][1] # k[1]} |-> mods[k][1]]]

Merge(a, b) ==
  [mod |-> Extend(a.mod, b.mod), replace |-> Extend(a.replace, b.replace)]

\* Seeded fault: any hash under the key is reused (HashOfNamedTree).
ReusableKey(k) == k \in DOMAIN cache.mod

\* A hash in the lockfile is reused if it is that of the same path.
Reusable(k) == k \in DOMAIN cache.mod /\ RecordedPath(cache, k) = mods[k][1]

CachedEntries(S) ==
  [mod |-> [k \in S |-> cache.mod[k]],
   replace |-> [k \in {k \in S : mods[k][1] # k[1]} |-> mods[k][1]]]

Classify ==
  /\ phase = "collect"
  /\ dirs = <<>>
  /\ phase' = "hash"
  /\ LET cached == {k \in DOMAIN mods : Reusable(k)} IN
     /\ found' = CachedEntries(cached)
     /\ todo' = DOMAIN mods \ cached
  /\ UNCHANGED <<gomod, lock, outcome, dirs, read, cache, mods,
                 hashing, failed>>

\* g.Go starts the downloads in the order of their keys; here, in any order.
StartHash(k) ==
  /\ phase = "hash"
  /\ k \in todo
  /\ Cardinality(hashing) < Jobs
  /\ todo' = todo \ {k}
  /\ hashing' = hashing \cup {k}
  /\ UNCHANGED <<gomod, lock, phase, outcome, dirs, read, cache, mods,
                 failed, found>>

FinishHash(k) ==
  /\ k \in hashing
  /\ hashing' = hashing \ {k}
  /\ \/ found' = Merge(found, Entries({k})) /\ UNCHANGED failed
     \/ failed' = TRUE /\ UNCHANGED found
  /\ UNCHANGED <<gomod, lock, phase, outcome, dirs, read, cache, mods,
                 todo>>

\* Seeded fault: the lockfile is opened before the downloads have ended well
\* (FailureKeepsLock).
WaitTruncating ==
  /\ phase = "hash"
  /\ todo = {} /\ hashing = {}
  /\ lock' = EmptyLock
  /\ \/ failed /\ phase' = "idle" /\ outcome' = "failed" /\ Forget
     \/ /\ ~failed
        /\ phase' = "write"
        /\ UNCHANGED <<outcome, dirs, mods, todo, hashing, failed, found>>
  /\ UNCHANGED <<gomod, read, cache>>

\* g.Wait: an error ends generate; else the lockfile is opened and truncated.
Wait ==
  /\ phase = "hash"
  /\ todo = {} /\ hashing = {}
  /\ \/ /\ failed
        /\ phase' = "idle"
        /\ outcome' = "failed"
        /\ Forget
        /\ UNCHANGED lock
     \/ /\ ~failed
        /\ phase' = "write"
        /\ lock' = EmptyLock
        /\ UNCHANGED <<outcome, dirs, mods, todo, hashing, failed, found>>
  /\ UNCHANGED <<gomod, read, cache>>

Write ==
  /\ phase = "write"
  /\ phase' = "idle"
  /\ outcome' = "ok"
  /\ lock' = found
  /\ Forget
  /\ UNCHANGED <<gomod, read, cache>>

\* The write fails once the file is truncated.
WriteFails ==
  /\ phase = "write"
  /\ phase' = "idle"
  /\ outcome' = "unwritten"
  /\ Forget
  /\ UNCHANGED <<gomod, lock, read, cache>>

\* generate is killed: what is on disk stays.
Kill ==
  /\ phase # "idle"
  /\ phase' = "idle"
  /\ outcome' = "killed"
  /\ Forget
  /\ UNCHANGED <<gomod, lock, read, cache>>

Next ==
  \/ \E d \in Dir : EditGoMod(d)
  \/ Begin \/ Collect \/ CollectFails \/ Classify
  \/ \E k \in todo : StartHash(k)
  \/ \E k \in hashing : FinishHash(k)
  \/ Wait \/ Write \/ WriteFails \/ Kill

Spec == Init /\ [][Next]_vars
-----------------------------------------------------------------------------
(***************************************************************************)
(* Properties                                                              *)
(***************************************************************************)

\* "The [mod] hash under that same key is the hash of the replacement's
\* tree": whatever was reused from earlier lockfiles, made for other go.mod
\* files, every hash is that of the tree its entry names.
HashOfNamedTree ==
  \A k \in DOMAIN lock.mod : lock.mod[k] = <<RecordedPath(lock, k), k[2]>>

\* What generate wrote passes the check against every go.mod it read, and
\* holds no module that none of them needs.
ChecksAfterGenerate ==
  outcome = "ok" =>
    /\ \A i \in 1..Len(read) : CheckLockfile(read[i], lock)
    /\ \A k \in DOMAIN lock.mod : \E i \in 1..Len(read) : k[1] \in Fetched(read[i])

\* The first go.mod in the order of the arguments that has key k selects the
\* tree t for it.
FirstSelects(k, t) ==
  \E n \in 1..Len(read) :
    /\ k \in DOMAIN CollectGoModModules(read[n])
    /\ CollectGoModModules(read[n])[k] = t
    /\ \A i \in 1..(n - 1) : k \notin DOMAIN CollectGoModModules(read[i])

\* The entry of a module names the tree selected by the go.mod of the first
\* directory listed that needs it, whatever the lockfile held before and in
\* whatever order the downloads end.
FirstListedWins ==
  outcome = "ok" =>
    \A k \in DOMAIN lock.mod : FirstSelects(k, <<RecordedPath(lock, k), k[2]>>)

\* A generate that fails before it writes leaves the lockfile it found.
FailureKeepsLock == outcome = "failed" => lock = cache
=============================================================================
