------------------------------- MODULE GoMod -------------------------------
(***************************************************************************)
(* What a go.mod asks for and what the lockfile go2nix.toml answers:       *)
(* CollectGoModModules (go/go2nix/pkg/golist/golist.go), the lockfile      *)
(* (pkg/lockfile/lockfile.go) and CheckLockfile (pkg/mvscheck/mvscheck.go).*)
(*                                                                         *)
(* A module is a pair <<path, version>>, which also stands for its source  *)
(* tree and for the hash of that tree: a published version never changes,  *)
(* and the hash tells trees apart.  A key of the lockfile pairs a module's *)
(* own path with the version that is used for it.                          *)
(*                                                                         *)
(* Definitions under "Seeded fault" are no part of the model: each is the  *)
(* definition below it with a mistake the property named there must catch. *)
(***************************************************************************)
CONSTANTS
  Path,        \* module paths
  Version,     \* module versions
  AnyVersion,  \* stands for the version a replace directive leaves out
  Directory    \* what a filesystem replace directive leads to

Module == Path \X Version

ASSUME DirectoryAssumption == Directory \notin Module

\* A go.mod: the version required of each path, and the replace directives.
GoModType(gm) ==
  /\ DOMAIN gm.require \subseteq Path
  /\ \A p \in DOMAIN gm.require : gm.require[p] \in Version
  /\ DOMAIN gm.replace \subseteq Path \X (Version \cup {AnyVersion})
  /\ \A r \in DOMAIN gm.replace : gm.replace[r] \in Module \cup {Directory}

-----------------------------------------------------------------------------
(***************************************************************************)
(* What a go.mod asks for.                                                 *)
(***************************************************************************)

\* The tree that stands in for module m.  A replace directive with a version
\* applies to that version only, and goes before one without.
Replacement(gm, m) ==
  CASE m \in DOMAIN gm.replace -> gm.replace[m]
    [] m \notin DOMAIN gm.replace /\ <<m[1], AnyVersion>> \in DOMAIN gm.replace
         -> gm.replace[<<m[1], AnyVersion>>]
    [] OTHER -> m

Tree(gm, p) == Replacement(gm, <<p, gm.require[p]>>)

\* The required paths that are not replaced by a directory.
Fetched(gm) == {p \in DOMAIN gm.require : Tree(gm, p) # Directory}

Key(gm, p) == <<p, Tree(gm, p)[2]>>

\* collectGoModModules: for each key, the tree to fetch.
CollectGoModModules(gm) ==
  [k \in {Key(gm, p) : p \in Fetched(gm)} |-> Tree(gm, k[1])]

-----------------------------------------------------------------------------
(***************************************************************************)
(* The lockfile: mod maps a key to a hash, replace a key to the path of    *)
(* the module fetched in its place.                                        *)
(***************************************************************************)
EmptyLock == [mod |-> <<>>, replace |-> <<>>]

\* The path an entry says to fetch its key from.
RecordedPath(lk, k) == IF k \in DOMAIN lk.replace THEN lk.replace[k] ELSE k[1]

\* Seeded fault: what replace directives change is not looked for
\* (ChecksAfterGenerate).
CheckRequired(gm, lk) ==
  \A p \in Fetched(gm) : <<p, gm.require[p]>> \in DOMAIN lk.mod

\* mvscheck.CheckLockfile finds no module of go.mod missing.
CheckLockfile(gm, lk) == \A p \in Fetched(gm) : Key(gm, p) \in DOMAIN lk.mod
=============================================================================
