------------------------------ MODULE ModCache ------------------------------
(***************************************************************************)
(* setupGOMODCACHE and symlinkTree of go/go2nix/pkg/resolve/resolve.go:    *)
(* one goroutine for each key of the lockfile mirrors the module's tree    *)
(* into a shared directory, which go list then reads.  A module's place in *)
(* it is named by the path it is fetched from and its version: two keys of *)
(* one lockfile can have the same place.                                   *)
(*                                                                         *)
(* errgroup's limit of eight or more goroutines is left out: with fewer    *)
(* keys it has no effect.  So is MkdirAll, which succeeds on a directory   *)
(* that exists.                                                            *)
(***************************************************************************)
EXTENDS Integers, FiniteSets

CONSTANT NFiles   \* files of a module's tree, in the order WalkDir meets them

ASSUME NFilesAssumption == NFiles \in Nat \ {0}

File == 1..NFiles

VARIABLES
  place,    \* place[k]: the module whose directory key k's tree goes to
  at,       \* at[k]: what the goroutine of key k does next
  files,    \* files[<<place, file>>]: the key whose tree the symlink leads into
  meta      \* places that have the download metadata go list looks for

cacheVars == <<place, at, files, meta>>

\* Steps of a goroutine: at the Lstat or the Symlink of a file, at the
\* metadata, or returned: with nothing, or with the error of a system call.
Lstat(f) == <<"lstat", f>>
Symlink(f) == <<"symlink", f>>
Metadata == <<"metadata", 0>>
Done == <<"done", 0>>
Exists == <<"exists", 0>>   \* os.Symlink failed with EEXIST
Fault == <<"fault", 0>>     \* any other error
Returned == {Done, Exists, Fault}

\* f with v at x.
With(f, x, v) == [y \in DOMAIN f \cup {x} |-> IF y = x THEN v ELSE f[y]]

NoCache == place = <<>> /\ at = <<>> /\ files = <<>> /\ meta = {}

Empty ==
  /\ place' = <<>>
  /\ at' = <<>>
  /\ files' = <<>>
  /\ meta' = {}

\* Every goroutine is started; wanted[k] is the place for key k.
Launch(wanted) ==
  /\ place' = wanted
  /\ at' = [k \in DOMAIN wanted |-> Lstat(1)]
  /\ files' = <<>>
  /\ meta' = {}

AfterFile(f) == IF f = NFiles THEN Metadata ELSE Lstat(f + 1)

\* os.Lstat: a file that exists is skipped.
LookUp(k, f) ==
  /\ at[k] = Lstat(f)
  /\ at' = [at EXCEPT ![k] =
       IF <<place[k], f>> \in DOMAIN files THEN AfterFile(f) ELSE Symlink(f)]
  /\ UNCHANGED <<place, files, meta>>

\* os.Symlink: fails if another goroutine has made the link since.
MakeLink(k, f) ==
  /\ at[k] = Symlink(f)
  /\ \/ /\ <<place[k], f>> \in DOMAIN files
        /\ at' = [at EXCEPT ![k] = Exists]
        /\ UNCHANGED files
     \/ /\ <<place[k], f>> \notin DOMAIN files
        /\ at' = [at EXCEPT ![k] = AfterFile(f)]
        /\ files' = With(files, <<place[k], f>>, k)
  /\ UNCHANGED <<place, meta>>

\* The .mod, .info, .ziphash and .lock files, the same for all keys of a place.
WriteMetadata(k) ==
  /\ at[k] = Metadata
  /\ at' = [at EXCEPT ![k] = Done]
  /\ meta' = meta \cup {place[k]}
  /\ UNCHANGED <<place, files>>

\* A system call fails for a reason outside this model.
SystemError(k) ==
  /\ at[k] \notin Returned
  /\ at' = [at EXCEPT ![k] = Fault]
  /\ UNCHANGED <<place, files, meta>>

Mirror(k) ==
  \/ \E f \in File : LookUp(k, f) \/ MakeLink(k, f)
  \/ WriteMetadata(k)

AllReturned == \A k \in DOMAIN at : at[k] \in Returned

\* Seeded fault: an error is returned only if no key succeeds
\* (GoListSeesTrees).
CacheFailsWhole == at # <<>> /\ \A k \in DOMAIN at : at[k] # Done

\* What g.Wait returns is an error.
CacheFails == \E k \in DOMAIN at : at[k] # Done

=============================================================================
