-------------------------- MODULE Lockfile_proofs --------------------------
(***************************************************************************)
(* IInv is an invariant of Lockfile, and what follows from it, for all     *)
(* paths, versions, go.mod files, arguments and numbers of downloads.      *)
(***************************************************************************)
EXTENDS LockfileInv, TLAPS

USE GoModsAssumption, ArgsAssumption, DirectoryAssumption

-----------------------------------------------------------------------------
(***************************************************************************)
(* Functions and entries.                                                  *)
(***************************************************************************)

\* What a go.mod selects for a module is a module, or a directory.
LEMMA ReplacementIsModule ==
  ASSUME NEW gm, GoModType(gm), NEW md \in Module
  PROVE  Replacement(gm, md) \in Module \cup {Directory}
BY DEF Replacement, GoModType

\* A key collected from a go.mod keeps the version of the tree collected.
LEMMA CollectedTree ==
  ASSUME NEW gm \in GoMods, NEW k \in DOMAIN CollectGoModModules(gm)
  PROVE  /\ k \in Module
         /\ CollectGoModModules(gm)[k] \in Module
         /\ CollectGoModModules(gm)[k][2] = k[2]
         /\ k[1] \in Fetched(gm)
         /\ k = Key(gm, k[1])
<1>1. PICK p \in Fetched(gm) : k = Key(gm, p)
  BY DEF CollectGoModModules
<1>2. GoModType(gm)
  BY DEF GoModType
<1>3. <<p, gm.require[p]>> \in Module
  BY <1>2 DEF GoModType, Fetched, Module
<1>4. Tree(gm, p) \in Module
  BY <1>2, <1>3, ReplacementIsModule DEF Tree, Fetched
<1>5. k[1] = p /\ k[2] = Tree(gm, p)[2] /\ p \in Path
  BY <1>1, <1>3 DEF Key, Module
<1>6. CollectGoModModules(gm)[k] = Tree(gm, p)
  BY <1>5 DEF CollectGoModModules
<1>7. k \in Module
  BY <1>1, <1>4, <1>5 DEF Key, Module
<1> QED
  BY <1>1, <1>4, <1>5, <1>6, <1>7

-----------------------------------------------------------------------------
(***************************************************************************)
(* Entries and selections.                                                 *)
(***************************************************************************)

\* Adding the entry of a key to those of S gives the entries of S and the key.
LEMMA MergeEntries ==
  ASSUME NEW S, NEW k
  PROVE  Merge(Entries(S), Entries({k})) = Entries(S \cup {k})
BY DEF Merge, Entries, Extend

\* Entries of modules are consistent if their trees have the key's version.
LEMMA EntriesConsistent ==
  ASSUME NEW S, \A k \in S : mods[k] \in Module /\ mods[k][2] = k[2]
  PROVE  Consistent(Entries(S))
<1>1. SUFFICES ASSUME NEW k \in S
               PROVE  mods[k] = <<RecordedPath(Entries(S), k), k[2]>>
  BY DEF Consistent, Entries
<1>2. RecordedPath(Entries(S), k) = mods[k][1]
  BY DEF RecordedPath, Entries
<1>3. mods[k] = <<mods[k][1], mods[k][2]>>
  BY DEF Module
<1> QED
  BY <1>2, <1>3

\* A tree selected for a key is a module of the key's version, and the key is
\* that of a module some go.mod asks for.
LEMMA SelectedTree ==
  ASSUME read \in Seq(GoMods), NEW k, NEW t, FirstSelects(k, t)
  PROVE  /\ k \in Module /\ t \in Module /\ t[2] = k[2]
         /\ k \in ReadKeys
         /\ \E i \in 1..Len(read) : k[1] \in Fetched(read[i])
<1>1. PICK i \in 1..Len(read) : k \in DOMAIN CollectGoModModules(read[i])
                              /\ CollectGoModModules(read[i])[k] = t
  BY DEF FirstSelects
<1>2. read[i] \in GoMods
  OBVIOUS
<1> QED
  BY <1>1, <1>2, CollectedTree DEF ReadKeys

\* Cached hashes that are reused are the entries of their keys.
LEMMA CachedAreEntries ==
  ASSUME Consistent(cache),
         NEW S, \A k \in S : Reusable(k) /\ mods[k] \in Module /\ mods[k][2] = k[2]
  PROVE  CachedEntries(S) = Entries(S)
<1>1. ASSUME NEW k \in S PROVE cache.mod[k] = mods[k]
  <2>1. cache.mod[k] = <<mods[k][1], k[2]>>
    BY DEF Consistent, Reusable
  <2>2. mods[k] = <<mods[k][1], mods[k][2]>>
    BY DEF Module
  <2> QED
    BY <2>1, <2>2
<1> QED
  BY <1>1 DEF CachedEntries, Entries

-----------------------------------------------------------------------------
(***************************************************************************)
(* Every step preserves IInv.                                              *)
(***************************************************************************)

\* What is selected depends on the go.mod files read only.
LEMMA SameRead ==
  ASSUME UNCHANGED read
  PROVE  /\ ReadKeys' = ReadKeys
         /\ \A k, t : FirstSelects(k, t)' <=> FirstSelects(k, t)
BY DEF ReadKeys, FirstSelects

\* Of the state, the entries of a set of keys depend on mods only.
LEMMA SameMods ==
  ASSUME UNCHANGED mods, NEW S
  PROVE  Entries(S)' = Entries(S)
BY DEF Entries

\* The trees collected so far.
LEMMA CollectedTrees ==
  ASSUME IInv, phase # "idle", NEW k \in DOMAIN mods
  PROVE  mods[k] \in Module /\ mods[k][2] = k[2]
BY SelectedTree DEF IInv, TypeOK, CollectedAsRead

\* The invariant holds initially.
LEMMA InitIInv == Init => IInv
<1> SUFFICES ASSUME Init PROVE IInv
  OBVIOUS
<1>1. DOMAIN mods = {} /\ mods = <<>> /\ read = <<>> /\ dirs = <<>>
  BY DEF Init
<1>2. TypeOK
  <2>1. dirs \in Seq(Dir) /\ read \in Seq(GoMods)
    BY <1>1
  <2>2. gomod \in [Dir -> GoMods] /\ phase = "idle" /\ outcome = "none"
    BY DEF Init
  <2>3. failed \in BOOLEAN
    BY DEF Init
  <2> QED
    BY <1>1, <2>1, <2>2, <2>3 DEF TypeOK
<1>3. Consistent(lock) /\ Consistent(cache)
  BY DEF Init, Consistent, EmptyLock
<1>4. CollectedAsRead /\ LockUntouched /\ FoundAsCollected /\ LeftAsReported
  BY <1>1 DEF Init, CollectedAsRead, LockUntouched, FoundAsCollected, LeftAsReported
<1> QED
  BY <1>2, <1>3, <1>4 DEF IInv

\* An edit of a go.mod: generate looks at what it has read.
LEMMA EditGoModStep == ASSUME IInv, NEW d \in Dir, EditGoMod(d) PROVE IInv'
<1>1. TypeOK'
  BY DEF IInv, TypeOK, EditGoMod
<1>2. Consistent(lock)' /\ Consistent(cache)'
  BY DEF IInv, EditGoMod, Consistent, RecordedPath
<1>3. CollectedAsRead'
  BY SameRead DEF IInv, EditGoMod, CollectedAsRead
<1>4. LockUntouched'
  BY DEF IInv, EditGoMod, LockUntouched
<1>5. FoundAsCollected'
  BY SameMods DEF IInv, EditGoMod, FoundAsCollected
<1>6. LeftAsReported'
  BY SameRead DEF IInv, EditGoMod, LeftAsReported
<1> QED
  BY <1>1, <1>2, <1>3, <1>4, <1>5, <1>6 DEF IInv

\* Generate begins with nothing read and the lockfile as its cache.
LEMMA BeginStep == ASSUME IInv, Begin PROVE IInv'
<1>1. TypeOK'
  BY DEF IInv, TypeOK, Begin
<1>2. Consistent(lock)' /\ Consistent(cache)'
  BY DEF IInv, Begin, Consistent, RecordedPath
<1>3. CollectedAsRead'
  <2>1. DOMAIN mods' = {} /\ Len(read') = 0
    BY DEF IInv, Begin, CollectedAsRead
  <2>2. ReadKeys' = {}
    BY <2>1 DEF ReadKeys
  <2> QED
    BY <2>1, <2>2 DEF Begin, CollectedAsRead
<1>4. LockUntouched'
  BY DEF Begin, LockUntouched
<1>5. FoundAsCollected'
  BY DEF IInv, Begin, FoundAsCollected
<1>6. LeftAsReported'
  BY DEF Begin, LeftAsReported
<1> QED
  BY <1>1, <1>2, <1>3, <1>4, <1>5, <1>6 DEF IInv

\* A go.mod is read: keys collected before keep their tree, the others take
\* the one it selects.
LEMMA CollectStep == ASSUME IInv, Collect PROVE IInv'
<1> DEFINE gm == gomod[Head(dirs)]
<1> DEFINE new == CollectGoModModules(gm)
<1>1. /\ gm \in GoMods /\ dirs' \in Seq(Dir)
      /\ read' = Append(read, gm) /\ read' \in Seq(GoMods) /\ read \in Seq(GoMods)
      /\ mods' = Extend(mods, new)
  BY DEF IInv, TypeOK, Collect
<1> HIDE DEF gm, new
<1>0. /\ DOMAIN mods' = DOMAIN mods \cup DOMAIN new
      /\ \A k \in DOMAIN mods : mods'[k] = mods[k]
      /\ \A k \in DOMAIN new : k \notin DOMAIN mods => mods'[k] = new[k]
  BY <1>1 DEF Extend
<1>2. /\ Len(read') = Len(read) + 1 /\ read'[Len(read) + 1] = gm
      /\ \A i \in 1..Len(read) : read'[i] = read[i]
      /\ Len(read) \in Nat
  BY <1>1
<1>3. DOMAIN mods = ReadKeys /\ \A k \in DOMAIN mods : FirstSelects(k, mods[k])
  BY DEF IInv, CollectedAsRead, Collect
<1>4. ReadKeys' = ReadKeys \cup DOMAIN new
  <2>1. ReadKeys' = UNION {DOMAIN CollectGoModModules(read'[i]) : i \in 1..Len(read')}
    BY DEF ReadKeys
  <2>2. 1..Len(read') = 1..Len(read) \cup {Len(read) + 1}
    BY <1>2
  <2> QED
    BY <2>1, <2>2, <1>2 DEF ReadKeys, new
<1>5. DOMAIN mods' = ReadKeys'
  BY <1>0, <1>3, <1>4
<1>6. ASSUME NEW k \in DOMAIN mods', NEW t, t = mods'[k] PROVE FirstSelects(k, t)'
  <2>1. CASE k \in DOMAIN mods
    <3>1. mods'[k] = mods[k]
      BY <1>0, <2>1
    <3>2. PICK n \in 1..Len(read) :
            /\ k \in DOMAIN CollectGoModModules(read[n])
            /\ CollectGoModModules(read[n])[k] = mods[k]
            /\ \A i \in 1..(n - 1) : k \notin DOMAIN CollectGoModModules(read[i])
      BY <1>3, <2>1 DEF FirstSelects
    <3>3. n \in 1..Len(read') /\ read'[n] = read[n] /\ \A i \in 1..(n - 1) : read'[i] = read[i]
      BY <1>2
    <3>4. /\ k \in DOMAIN CollectGoModModules(read'[n])
          /\ CollectGoModModules(read'[n])[k] = t
          /\ \A i \in 1..(n - 1) : k \notin DOMAIN CollectGoModModules(read'[i])
      BY <1>6, <3>1, <3>2, <3>3
    <3> QED
      <4>1. \E j \in 1..Len(read') :
              /\ k \in DOMAIN CollectGoModModules(read'[j])
              /\ CollectGoModModules(read'[j])[k] = t
              /\ \A i \in 1..(j - 1) : k \notin DOMAIN CollectGoModModules(read'[i])
        BY <3>3, <3>4, Zenon
      <4> QED
        BY <4>1, Zenon DEF FirstSelects
  <2>2. CASE k \notin DOMAIN mods
    <3>1. k \in DOMAIN new /\ mods'[k] = new[k]
      BY <1>0, <2>2
    <3>2. \A i \in 1..Len(read) : k \notin DOMAIN CollectGoModModules(read[i])
      BY <1>3, <2>2 DEF ReadKeys
    <3>3. Len(read) + 1 \in 1..Len(read') /\ (Len(read) + 1) - 1 = Len(read)
      BY <1>2
    <3> DEFINE n == Len(read) + 1
    <3>4. /\ k \in DOMAIN CollectGoModModules(read'[n])
          /\ CollectGoModModules(read'[n])[k] = t
      BY <1>2, <1>6, <3>1 DEF new
    <3>5. \A i \in 1..(n - 1) : k \notin DOMAIN CollectGoModModules(read'[i])
      BY <1>2, <3>2, <3>3
    <3> HIDE DEF n
    <3>6. n \in 1..Len(read')
      BY <3>3 DEF n
    <3> QED
      <4>1. \E j \in 1..Len(read') :
              /\ k \in DOMAIN CollectGoModModules(read'[j])
              /\ CollectGoModModules(read'[j])[k] = t
              /\ \A i \in 1..(j - 1) : k \notin DOMAIN CollectGoModModules(read'[i])
        BY <3>4, <3>5, <3>6, Zenon
      <4> QED
        BY <4>1, Zenon DEF FirstSelects
  <2> QED
    BY <2>1, <2>2
<1>7. TypeOK'
  <2>1. ASSUME NEW k \in DOMAIN new PROVE k \in Module /\ new[k] \in Module
    BY <1>1, CollectedTree DEF new
  <2>2. \A k \in DOMAIN mods' : k \in Module /\ mods'[k] \in Module
    BY <1>0, <2>1 DEF IInv, TypeOK
  <2> QED
    BY <1>1, <2>2 DEF IInv, TypeOK, Collect
<1>8. CollectedAsRead'
  BY <1>5, <1>6 DEF CollectedAsRead, Collect
<1>9. Consistent(lock)' /\ Consistent(cache)' /\ LockUntouched'
  BY DEF IInv, Collect, Consistent, RecordedPath, LockUntouched
<1>10. FoundAsCollected' /\ LeftAsReported'
  BY DEF IInv, Collect, FoundAsCollected, LeftAsReported
<1> QED
  BY <1>7, <1>8, <1>9, <1>10 DEF IInv

\* What is reused of the old lockfile is entries of what was collected.
LEMMA ClassifyStep == ASSUME IInv, Classify PROVE IInv'
<1> DEFINE cached == {k \in DOMAIN mods : Reusable(k)}
<1>1. found' = CachedEntries(cached) /\ todo' = DOMAIN mods \ cached
  BY DEF Classify
<1>2. found' = Entries(cached)
  <2>1. ASSUME NEW k \in cached PROVE Reusable(k) /\ mods[k] \in Module /\ mods[k][2] = k[2]
    BY CollectedTrees DEF Classify
  <2>2. Consistent(cache)
    BY DEF IInv
  <2> HIDE DEF cached
  <2>3. CachedEntries(cached) = Entries(cached)
    BY <2>1, <2>2, CachedAreEntries
  <2> QED
    BY <1>1, <2>3
<1>3. cached \subseteq DOMAIN mods
  OBVIOUS
<1> HIDE DEF cached
<1>4. TypeOK'
  BY DEF IInv, TypeOK, Classify
<1>5. Consistent(lock)' /\ Consistent(cache)' /\ LockUntouched'
  BY DEF IInv, Classify, Consistent, RecordedPath, LockUntouched
<1>6. CollectedAsRead' /\ LeftAsReported'
  BY SameRead DEF IInv, Classify, CollectedAsRead, LeftAsReported
<1>7. FoundAsCollected'
  <2>1. DOMAIN found'.mod = cached
    BY <1>2 DEF Entries
  <2>2. hashing' = {} /\ phase' = "hash" /\ mods' = mods
    BY DEF IInv, Classify, FoundAsCollected
  <2>3. found' = Entries(DOMAIN found.mod)'
    BY <1>2, <2>1, <2>2 DEF Entries
  <2> QED
    BY <1>1, <1>3, <2>1, <2>2, <2>3 DEF FoundAsCollected
<1> QED
  BY <1>4, <1>5, <1>6, <1>7 DEF IInv

\* A download that starts leaves the keys to be found as they were.
LEMMA StartHashStep == ASSUME IInv, NEW k \in todo, StartHash(k) PROVE IInv'
<1>1. TypeOK'
  BY DEF IInv, TypeOK, StartHash
<1>2. Consistent(lock)' /\ Consistent(cache)' /\ LockUntouched'
  BY DEF IInv, StartHash, Consistent, RecordedPath, LockUntouched
<1>3. CollectedAsRead' /\ LeftAsReported'
  BY SameRead DEF IInv, StartHash, CollectedAsRead, LeftAsReported
<1>4. FoundAsCollected'
  <2>1. todo' = todo \ {k} /\ hashing' = hashing \cup {k}
    BY DEF StartHash
  <2>2. UNCHANGED <<mods, found, failed, phase>> /\ phase = "hash"
    BY DEF StartHash
  <2>3. Entries(DOMAIN found.mod)' = Entries(DOMAIN found.mod)
    BY <2>2 DEF Entries
  <2> QED
    BY <2>1, <2>2, <2>3 DEF IInv, FoundAsCollected
<1> QED
  BY <1>1, <1>2, <1>3, <1>4 DEF IInv

\* A download ends: its entry is added, or generate is going to fail.
LEMMA FinishHashStep == ASSUME IInv, NEW k \in hashing, FinishHash(k) PROVE IInv'
<1>1. phase = "hash" /\ k \in DOMAIN mods
  BY DEF IInv, FoundAsCollected, TypeOK
<1>2. TypeOK'
  BY DEF IInv, TypeOK, FinishHash
<1>3. Consistent(lock)' /\ Consistent(cache)' /\ LockUntouched'
  BY DEF IInv, FinishHash, Consistent, RecordedPath, LockUntouched
<1>4. CollectedAsRead' /\ LeftAsReported'
  BY SameRead DEF IInv, FinishHash, CollectedAsRead, LeftAsReported
<1>5. FoundAsCollected'
  <2>0. UNCHANGED <<mods, phase, todo>> /\ hashing' = hashing \ {k}
    BY DEF FinishHash
  <2>1. CASE found' = Merge(found, Entries({k})) /\ UNCHANGED failed
    <3> DEFINE S == DOMAIN found.mod
    <3>1. found = Entries(S) /\ S \subseteq DOMAIN mods
      BY <1>1 DEF IInv, FoundAsCollected
    <3> HIDE DEF S
    <3>2. found' = Entries(S \cup {k})
      BY <2>1, <3>1, MergeEntries
    <3>3. DOMAIN found'.mod = S \cup {k}
      BY <3>2 DEF Entries
    <3>4. found' = Entries(DOMAIN found.mod)'
      BY <2>0, <3>2, <3>3 DEF Entries
    <3> QED
      BY <1>1, <2>0, <2>1, <3>1, <3>3, <3>4 DEF IInv, FoundAsCollected, S
  <2>2. CASE failed' = TRUE /\ UNCHANGED found
    <3>1. Entries(DOMAIN found.mod)' = Entries(DOMAIN found.mod)
      BY <2>0, <2>2 DEF Entries
    <3> QED
      BY <1>1, <2>0, <2>2, <3>1 DEF IInv, FoundAsCollected
  <2> QED
    BY <2>1, <2>2 DEF FinishHash
<1> QED
  BY <1>2, <1>3, <1>4, <1>5 DEF IInv

\* The empty lockfile is consistent.
LEMMA EmptyConsistent == Consistent(EmptyLock)
BY DEF Consistent, EmptyLock

\* The variables of a generate that has ended.
LEMMA ForgetStep ==
  ASSUME IInv, Forget, phase' = "idle", UNCHANGED <<gomod, read>>,
         outcome' \in {"ok", "failed", "unwritten", "killed"}
  PROVE  TypeOK' /\ CollectedAsRead' /\ LockUntouched' /\ FoundAsCollected'
<1>1. dirs' = <<>> /\ mods' = <<>> /\ todo' = {} /\ hashing' = {} /\ failed' = FALSE
  BY DEF Forget
<1>2. DOMAIN mods' = {}
  BY <1>1
<1>3. dirs' \in Seq(Dir) /\ failed' \in BOOLEAN
  <2>1. dirs' = <<>> /\ <<>> \in Seq(Dir)
    BY <1>1
  <2>2. failed' = FALSE
    BY <1>1
  <2> QED
    BY <2>1, <2>2, Zenon
<1>4. TypeOK'
  <2>1. gomod' \in [Dir -> GoMods] /\ read' \in Seq(GoMods)
    BY DEF IInv, TypeOK
  <2>2. phase' \in {"idle", "collect", "hash", "write"}
        /\ outcome' \in {"none", "ok", "failed", "unwritten", "killed"}
    OBVIOUS
  <2>3. \A k \in DOMAIN mods' : k \in Module /\ mods'[k] \in Module
    BY <1>2
  <2> QED
    BY <1>3, <2>1, <2>2, <2>3 DEF TypeOK
<1>5. CollectedAsRead' /\ LockUntouched' /\ FoundAsCollected'
  BY <1>1, <1>2 DEF CollectedAsRead, LockUntouched, FoundAsCollected
<1> QED
  BY <1>4, <1>5

\* All downloads have ended: generate fails, or truncates the lockfile with
\* every entry found.
LEMMA WaitStep == ASSUME IInv, Wait PROVE IInv'
<1>0. phase = "hash" /\ todo = {} /\ hashing = {} /\ UNCHANGED <<gomod, read, cache>>
  BY DEF Wait
<1>1. CASE failed /\ phase' = "idle" /\ outcome' = "failed" /\ Forget /\ UNCHANGED lock
  <2>1. TypeOK' /\ CollectedAsRead' /\ LockUntouched' /\ FoundAsCollected'
    BY <1>0, <1>1, ForgetStep
  <2>2. Consistent(lock)' /\ Consistent(cache)'
    BY <1>0, <1>1 DEF IInv, Consistent, RecordedPath
  <2>3. LeftAsReported'
    BY <1>0, <1>1 DEF IInv, LockUntouched, LeftAsReported
  <2> QED
    BY <2>1, <2>2, <2>3 DEF IInv
<1>2. CASE /\ ~failed /\ phase' = "write" /\ lock' = EmptyLock
           /\ UNCHANGED <<outcome, dirs, mods, todo, hashing, failed, found>>
  <2>1. TypeOK'
    BY <1>0, <1>2 DEF IInv, TypeOK
  <2>2. Consistent(lock)' /\ Consistent(cache)'
    BY <1>0, <1>2, EmptyConsistent DEF IInv, Consistent, RecordedPath
  <2>3. CollectedAsRead'
    BY <1>0, <1>2, SameRead DEF IInv, CollectedAsRead
  <2>4. FoundAsCollected'
    <3>1. DOMAIN found.mod = DOMAIN mods /\ found = Entries(DOMAIN mods)
      BY <1>0, <1>2 DEF IInv, FoundAsCollected
    <3>2. Entries(DOMAIN mods)' = Entries(DOMAIN mods)
      BY <1>2 DEF Entries
    <3> QED
      BY <1>0, <1>2, <3>1, <3>2 DEF FoundAsCollected
  <2>5. LockUntouched' /\ LeftAsReported'
    BY <1>0, <1>2 DEF IInv, LockUntouched, LeftAsReported
  <2> QED
    BY <2>1, <2>2, <2>3, <2>4, <2>5 DEF IInv
<1> QED
  BY <1>1, <1>2 DEF Wait

\* The lockfile is written: the entries of all that was collected.
LEMMA WriteStep == ASSUME IInv, Write PROVE IInv'
<1>0. phase = "write" /\ phase' = "idle" /\ outcome' = "ok" /\ lock' = found
      /\ Forget /\ UNCHANGED <<gomod, read, cache>>
  BY DEF Write
<1>1. TypeOK' /\ CollectedAsRead' /\ LockUntouched' /\ FoundAsCollected'
  BY <1>0, ForgetStep
<1>2. lock' = Entries(DOMAIN mods)
  BY <1>0 DEF IInv, FoundAsCollected
<1>3. Consistent(lock)'
  <2>1. Consistent(Entries(DOMAIN mods))
    BY <1>0, CollectedTrees, EntriesConsistent
  <2> QED
    BY <1>2, <2>1 DEF Consistent, RecordedPath
<1>4. Consistent(cache)'
  BY <1>0 DEF IInv, Consistent, RecordedPath
<1>5. LeftAsReported'
  <2>1. DOMAIN lock'.mod = DOMAIN mods /\ \A k \in DOMAIN mods : lock'.mod[k] = mods[k]
    BY <1>2 DEF Entries
  <2>2. DOMAIN mods = ReadKeys /\ \A k \in DOMAIN mods : FirstSelects(k, mods[k])
    BY <1>0 DEF IInv, CollectedAsRead
  <2>3. ReadKeys' = ReadKeys /\ \A k, t : FirstSelects(k, t)' <=> FirstSelects(k, t)
    BY <1>0, SameRead
  <2> QED
    BY <1>0, <2>1, <2>2, <2>3 DEF LeftAsReported
<1> QED
  BY <1>1, <1>3, <1>4, <1>5 DEF IInv

\* A killed generate leaves a consistent lockfile, the old one or an empty one.
LEMMA KillStep == ASSUME IInv, Kill PROVE IInv'
<1>0. phase' = "idle" /\ outcome' = "killed" /\ Forget /\ UNCHANGED <<gomod, lock, read, cache>>
  BY DEF Kill
<1>1. TypeOK' /\ CollectedAsRead' /\ LockUntouched' /\ FoundAsCollected'
  BY <1>0, ForgetStep
<1>2. Consistent(lock)' /\ Consistent(cache)'
  BY <1>0 DEF IInv, Consistent, RecordedPath
<1>3. LeftAsReported'
  BY <1>0 DEF LeftAsReported
<1> QED
  BY <1>1, <1>2, <1>3 DEF IInv

\* A write that fails leaves an empty lockfile, which is consistent.
LEMMA WriteFailsStep == ASSUME IInv, WriteFails PROVE IInv'
<1>0. phase' = "idle" /\ outcome' = "unwritten" /\ Forget /\ UNCHANGED <<gomod, lock, read, cache>>
  BY DEF WriteFails
<1>1. TypeOK' /\ CollectedAsRead' /\ LockUntouched' /\ FoundAsCollected'
  BY <1>0, ForgetStep
<1>2. Consistent(lock)' /\ Consistent(cache)'
  BY <1>0 DEF IInv, Consistent, RecordedPath
<1>3. LeftAsReported'
  BY <1>0 DEF LeftAsReported
<1> QED
  BY <1>1, <1>2, <1>3 DEF IInv

\* A go.mod that cannot be read: the lockfile is still as it was.
LEMMA CollectFailsStep == ASSUME IInv, CollectFails PROVE IInv'
<1>0. phase' = "idle" /\ outcome' = "failed" /\ Forget /\ UNCHANGED <<gomod, lock, read, cache>>
  BY DEF CollectFails
<1>1. TypeOK' /\ CollectedAsRead' /\ LockUntouched' /\ FoundAsCollected'
  BY <1>0, ForgetStep
<1>2. Consistent(lock)' /\ Consistent(cache)'
  BY <1>0 DEF IInv, Consistent, RecordedPath
<1>3. LeftAsReported'
  <2>1. lock = cache
    BY DEF IInv, LockUntouched, CollectFails
  <2> QED
    BY <1>0, <2>1 DEF LeftAsReported
<1> QED
  BY <1>1, <1>2, <1>3 DEF IInv

\* A step that changes nothing.
LEMMA StutterStep == ASSUME IInv, UNCHANGED vars PROVE IInv'
<1>0. UNCHANGED <<gomod, lock, phase, outcome, dirs, read, cache, mods, todo,
                  hashing, failed, found>>
  BY DEF vars
<1>1. TypeOK'
  BY <1>0 DEF IInv, TypeOK
<1>2. Consistent(lock)' /\ Consistent(cache)' /\ LockUntouched'
  BY <1>0 DEF IInv, Consistent, RecordedPath, LockUntouched
<1>3. CollectedAsRead' /\ LeftAsReported'
  BY <1>0, SameRead DEF IInv, CollectedAsRead, LeftAsReported
<1>4. FoundAsCollected'
  BY <1>0, SameMods DEF IInv, FoundAsCollected
<1> QED
  BY <1>1, <1>2, <1>3, <1>4 DEF IInv

\* Every step preserves the invariant.
LEMMA NextStep == IInv /\ [Next]_vars => IInv'
<1> SUFFICES ASSUME IInv, [Next]_vars PROVE IInv'
  OBVIOUS
<1>1. CASE \E d \in Dir : EditGoMod(d)
  BY <1>1, EditGoModStep
<1>2. CASE Begin
  BY <1>2, BeginStep
<1>3. CASE Collect
  BY <1>3, CollectStep
<1>4. CASE Classify
  BY <1>4, ClassifyStep
<1>5. CASE \E k \in todo : StartHash(k)
  BY <1>5, StartHashStep
<1>6. CASE \E k \in hashing : FinishHash(k)
  BY <1>6, FinishHashStep
<1>7. CASE Wait
  BY <1>7, WaitStep
<1>8. CASE Write
  BY <1>8, WriteStep
<1>9. CASE Kill
  BY <1>9, KillStep
<1>10. CASE CollectFails
  BY <1>10, CollectFailsStep
<1>11. CASE WriteFails
  BY <1>11, WriteFailsStep
<1>12. CASE UNCHANGED vars
  BY <1>12, StutterStep
<1> QED
  BY <1>1, <1>2, <1>3, <1>4, <1>5, <1>6, <1>7, <1>8, <1>9, <1>10, <1>11, <1>12
     DEF Next

-----------------------------------------------------------------------------
(***************************************************************************)
(* What generate promises.                                                 *)
(***************************************************************************)

\* IInv holds in every state generate, edits and kills can lead to.
THEOREM Invariance == Spec => []IInv
<1>1. Init => IInv
  BY InitIInv
<1>2. IInv /\ [Next]_vars => IInv'
  BY NextStep
<1> QED
  BY <1>1, <1>2, PTL DEF Spec

\* Every hash in the lockfile is that of the tree its entry names, whichever
\* hashes generate reused from earlier lockfiles.
THEOREM HashesRight == Spec => []HashOfNamedTree
<1>1. IInv => HashOfNamedTree
  BY DEF IInv, Consistent, HashOfNamedTree
<1> QED
  BY <1>1, Invariance, PTL

\* A lockfile generate has written passes the check against every go.mod it
\* read, and holds no module that none of them needs.
THEOREM ChecksRight == Spec => []ChecksAfterGenerate
<1>1. IInv => ChecksAfterGenerate
  <2> SUFFICES ASSUME IInv, outcome = "ok" PROVE
        /\ \A i \in 1..Len(read) : CheckLockfile(read[i], lock)
        /\ \A k \in DOMAIN lock.mod : \E i \in 1..Len(read) : k[1] \in Fetched(read[i])
    BY DEF ChecksAfterGenerate
  <2>1. DOMAIN lock.mod = ReadKeys
        /\ \A k \in DOMAIN lock.mod : FirstSelects(k, lock.mod[k])
    BY DEF IInv, LeftAsReported
  <2>2. ASSUME NEW i \in 1..Len(read) PROVE CheckLockfile(read[i], lock)
    BY <2>1 DEF CheckLockfile, ReadKeys, CollectGoModModules
  <2>3. ASSUME NEW k \in DOMAIN lock.mod
        PROVE  \E i \in 1..Len(read) : k[1] \in Fetched(read[i])
    <3>1. read \in Seq(GoMods) /\ FirstSelects(k, lock.mod[k])
      BY <2>1 DEF IInv, TypeOK
    <3> QED
      BY <3>1, SelectedTree
  <2> QED
    BY <2>2, <2>3
<1> QED
  BY <1>1, Invariance, PTL

\* The tree an entry names is the one selected by the first directory listed
\* that needs it.
THEOREM FirstListedRight == Spec => []FirstListedWins
<1>1. IInv => FirstListedWins
  <2> SUFFICES ASSUME IInv, outcome = "ok", NEW k \in DOMAIN lock.mod
               PROVE  FirstSelects(k, <<RecordedPath(lock, k), k[2]>>)
    BY DEF FirstListedWins
  <2>1. lock.mod[k] = <<RecordedPath(lock, k), k[2]>>
    BY DEF IInv, Consistent
  <2>2. FirstSelects(k, lock.mod[k])
    BY DEF IInv, LeftAsReported
  <2> QED
    BY <2>1, <2>2
<1> QED
  BY <1>1, Invariance, PTL

\* A generate that fails before it writes leaves the lockfile it found.
THEOREM FailureRight == Spec => []FailureKeepsLock
<1>1. IInv => FailureKeepsLock
  BY DEF IInv, LeftAsReported, FailureKeepsLock
<1> QED
  BY <1>1, Invariance, PTL
=============================================================================
