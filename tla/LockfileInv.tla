---------------------------- MODULE LockfileInv ----------------------------
(***************************************************************************)
(* The inductive invariant behind the properties of Lockfile.              *)
(***************************************************************************)
EXTENDS Lockfile

\* Every hash in lk is that of the tree its entry names.
Consistent(lk) ==
  \A k \in DOMAIN lk.mod : lk.mod[k] = <<RecordedPath(lk, k), k[2]>>

ReadKeys == UNION {DOMAIN CollectGoModModules(read[i]) : i \in 1..Len(read)}

TypeOK ==
  /\ gomod \in [Dir -> GoMods]
  /\ phase \in {"idle", "collect", "hash", "write"}
  /\ outcome \in {"none", "ok", "failed", "unwritten", "killed"}
  /\ dirs \in Seq(Dir)
  /\ read \in Seq(GoMods)
  /\ \A k \in DOMAIN mods : k \in Module /\ mods[k] \in Module
  /\ failed \in BOOLEAN

\* What has been collected is what the go.mod files read so far select.
CollectedAsRead ==
  /\ phase = "idle" => DOMAIN mods = {}
  /\ phase # "idle" =>
       /\ DOMAIN mods = ReadKeys
       /\ \A k \in DOMAIN mods : FirstSelects(k, mods[k])

\* Until it is truncated, the lockfile is as it was.
LockUntouched == phase \in {"collect", "hash"} => lock = cache

\* Without a failure, the entries found and those being made are all that was
\* collected; what is found is always right for its key.
FoundAsCollected ==
  /\ phase # "hash" => todo = {} /\ hashing = {}
  /\ phase = "hash" =>
       /\ todo \subseteq DOMAIN mods
       /\ hashing \subseteq DOMAIN mods
       /\ DOMAIN found.mod \subseteq DOMAIN mods
       /\ found = Entries(DOMAIN found.mod)
       /\ ~failed => DOMAIN mods \subseteq DOMAIN found.mod \cup todo \cup hashing
  /\ phase = "write" => found = Entries(DOMAIN mods)

\* How generate left the lockfile.
LeftAsReported ==
  /\ phase # "idle" => outcome = "none"
  /\ outcome = "failed" => lock = cache
  /\ outcome = "ok" =>
       /\ DOMAIN lock.mod = ReadKeys
       /\ \A k \in DOMAIN lock.mod : FirstSelects(k, lock.mod[k])

IInv ==
  /\ TypeOK
  /\ Consistent(lock)
  /\ Consistent(cache)
  /\ CollectedAsRead
  /\ LockUntouched
  /\ FoundAsCollected
  /\ LeftAsReported
=============================================================================
