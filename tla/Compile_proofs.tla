--------------------------- MODULE Compile_proofs ---------------------------
(***************************************************************************)
(* Proofs about Compile, for any number of jobs, any packages with any     *)
(* files, and any assignment of directories to jobs.                       *)
(***************************************************************************)
EXTENDS Compile, TLAPS

-----------------------------------------------------------------------------
(***************************************************************************)
(* The files in TrimPath.                                                  *)
(***************************************************************************)
Names == {"importcfg", "pgoprofile", "embedcfg", "symabis", "go_asm.h", "o"}
Stems == (UNION {{f.stem : f \in p.files} : p \in Packages}) \cup {Nothing}

TypeOK ==
  /\ pc \in [Job -> Working \cup Ended \cup {"idle"}]
  /\ pkg \in [Job -> Packages]
  /\ DOMAIN disk = Path
  /\ DOMAIN work = Job /\ DOMAIN built = Job /\ DOMAIN dyn = Job
  /\ DOMAIN archive = Job /\ DOMAIN iface = Job /\ DOMAIN entry = Job

LEMMA InPath ==
  ASSUME TypeOK, NEW j \in Job, NEW name \in Names, NEW stem \in Stems
  PROVE  InTrimPath(j, name, stem) \in Path
<1>1. TrimPath[j] \in Dir
  BY CompileAssumption
<1>2. pkg[j].uid \in {p.uid : p \in Packages}
  BY DEF TypeOK
<1> DEFINE uids == {p.uid : p \in Packages} \cup {Nothing}
<1>3. Path = Names \X Dir \X uids \X Stems
  BY DEF Path, Names, Stems
<1> DEFINE uid == IF name \in {"importcfg", "go_asm.h"} THEN Nothing ELSE pkg[j].uid
<1>4. uid \in uids
  BY <1>2
<1>5. InTrimPath(j, name, stem) = <<name, TrimPath[j], uid, stem>>
  BY DEF InTrimPath
<1> HIDE DEF uid, uids
<1> QED
  BY <1>1, <1>3, <1>4, <1>5

\* Two names of one job, or two directories, are two files.
LEMMA Apart ==
  ASSUME NEW j \in Job, NEW k \in Job, NEW m \in Names, NEW n \in Names, NEW s, NEW t,
         TrimPath[j] # TrimPath[k] \/ m # n \/ s # t
  PROVE  InTrimPath(j, m, s) # InTrimPath(k, n, t)
  BY DEF InTrimPath

LEMMA WriteRead ==
  ASSUME TypeOK, NEW j \in Job, NEW name \in Names, NEW content, Write(j, name, content)
  PROVE  /\ DOMAIN disk' = Path
         /\ disk'[InTrimPath(j, name, Nothing)] = content
         /\ \A k \in Job, n \in Names, s \in Stems :
              TrimPath[k] # TrimPath[j] \/ n # name
                => disk'[InTrimPath(k, n, s)] = disk[InTrimPath(k, n, s)]
<1>1. InTrimPath(j, name, Nothing) \in Path
  BY InPath DEF Stems
<1>2. disk' = [disk EXCEPT ![InTrimPath(j, name, Nothing)] = content]
  BY DEF Write
<1>3. DOMAIN disk = Path
  BY DEF TypeOK
<1>4. ASSUME NEW k \in Job, NEW n \in Names, NEW s \in Stems, TrimPath[k] # TrimPath[j] \/ n # name
      PROVE  InTrimPath(k, n, s) # InTrimPath(j, name, Nothing)
  BY <1>4, Apart
<1>5. \A k \in Job, n \in Names, s \in Stems : InTrimPath(k, n, s) \in Path
  BY InPath
<1> QED
  BY <1>1, <1>2, <1>3, <1>4, <1>5

-----------------------------------------------------------------------------
(***************************************************************************)
(* The invariant.                                                          *)
(***************************************************************************)
\* Only one job at a time works in a directory.
Exclusive ==
  \A j, k \in Job :
    TrimPath[j] = TrimPath[k] /\ pc[j] \in Working /\ pc[k] \in Working => j = k

\* From where it is written to where it is read, a file is the package's own.
Merged == {"resolve", "profile", "check", "embed", "flags", "cgo", "cc", "symabis",
           "pragmas", "compile"}
Profiled == Merged \ {"resolve", "profile"}
Embedded == Profiled \ {"check", "embed"}

HasFiles(j) ==
  /\ j \in Command /\ pc[j] \in Merged => Read(j, "importcfg") = pkg[j]
  /\ pkg[j].pgo /\ pc[j] \in Profiled => Read(j, "pgoprofile") = pkg[j]
  /\ pkg[j].embed /\ pc[j] \in Embedded => Read(j, "embedcfg") = pkg[j]
  /\ GoAsm(pkg[j]) # {} /\ pc[j] \in {"pragmas", "compile"}
       => Read(j, "symabis") = pkg[j]
  /\ pc[j] = "asm" => Read(j, "go_asm.h") = pkg[j]
  /\ pc[j] \in {"asm", "pack"} =>
       \A f \in GoAsm(pkg[j]) \cap built[j] :
         disk[InTrimPath(j, "o", f.stem)].header = pkg[j]

\* What has been built, at every place.
BuiltRight(j) ==
  /\ pc[j] \in {"idle", "load", "merge", "resolve", "profile", "check", "embed",
                "flags", "cgo"} => built[j] = {}
  /\ pc[j] = "cc" => built[j] \subseteq ForCC(pkg[j])
  /\ pc[j] \in {"symabis", "pragmas", "compile"} => built[j] = ForCC(pkg[j])
  /\ pc[j] = "asm" => /\ ForCC(pkg[j]) \subseteq built[j]
                      /\ built[j] \subseteq ForCC(pkg[j]) \cup GoAsm(pkg[j])
  /\ pc[j] = "pack" => built[j] = ForCC(pkg[j]) \cup GoAsm(pkg[j])

\* The archive, and what is in it when it is whole.
MadeOf(j) ==
  /\ archive[j].go.importcfg = pkg[j]
  /\ archive[j].go.profile = IF pkg[j].pgo THEN pkg[j] ELSE Nothing
  /\ archive[j].go.embedcfg = IF pkg[j].embed THEN pkg[j] ELSE Nothing
  /\ archive[j].go.symabis = IF GoAsm(pkg[j]) # {} THEN pkg[j] ELSE Nothing
  /\ \A f \in DOMAIN archive[j].objects :
       f.kind = "s" => archive[j].objects[f].header = pkg[j]

Packing == {"pack flags", "entry", "ok"}

ArchiveRight(j) ==
  /\ archive[j] = Nothing \/ MadeOf(j)
  /\ pc[j] \in {"asm", "pack"} \cup Packing => MadeOf(j)
  /\ pc[j] \in Packing =>
       DOMAIN archive[j].objects = ForCC(pkg[j]) \cup OfKind(pkg[j], {"s", "syso"})

EntryRight(j) ==
  /\ j \notin Split => iface[j] = Nothing
  /\ j \in Split /\ pc[j] \in {"asm", "pack"} \cup Packing => iface[j] = pkg[j]
  /\ entry[j] # "none" =>
       pc[j] = "ok" /\ entry[j] = IF j \in Split THEN "iface" ELSE "output"

JobInv(j) == HasFiles(j) /\ BuiltRight(j) /\ ArchiveRight(j) /\ EntryRight(j)

CompileInv == TypeOK /\ Exclusive /\ \A j \in Job : JobInv(j)

LEMMA InitCompileInv == Init => CompileInv
<1> SUFFICES ASSUME Init PROVE CompileInv
  OBVIOUS
<1>1. TypeOK
  BY DEF Init, TypeOK
<1>2. Exclusive
  BY DEF Init, Exclusive, Working
<1>3. ASSUME NEW j \in Job PROVE JobInv(j)
  <2>1. pc[j] = "idle" /\ built[j] = {} /\ archive[j] = Nothing /\ iface[j] = Nothing
        /\ entry[j] = "none"
    BY DEF Init
  <2>2. HasFiles(j)
    BY <2>1 DEF HasFiles, Merged, Profiled, Embedded
  <2>3. BuiltRight(j)
    BY <2>1 DEF BuiltRight
  <2>4. ArchiveRight(j) /\ EntryRight(j)
    BY <2>1 DEF ArchiveRight, EntryRight, Packing
  <2> QED
    BY <2>2, <2>3, <2>4 DEF JobInv
<1> QED
  BY <1>1, <1>2, <1>3 DEF CompileInv

LEMMA CompileInvImplies == CompileInv => OwnInputsOnly /\ NoEntryForPartial
<1> SUFFICES ASSUME CompileInv PROVE OwnInputsOnly /\ NoEntryForPartial
  OBVIOUS
<1>1. OwnInputsOnly
  BY DEF CompileInv, JobInv, ArchiveRight, MadeOf, OwnInputsOnly
<1>2. ASSUME NEW j \in Job, entry[j] # "none"
      PROVE  /\ DOMAIN archive[j].objects
                  = ForCC(pkg[j]) \cup OfKind(pkg[j], {"s", "syso"})
             /\ entry[j] = IF iface[j] = pkg[j] THEN "iface" ELSE "output"
  <2>1. EntryRight(j) /\ ArchiveRight(j) /\ pkg[j] # Nothing
    BY CompileAssumption DEF CompileInv, JobInv, TypeOK
  <2>2. pc[j] \in Packing
    BY <1>2, <2>1 DEF EntryRight, Packing
  <2> QED
    BY <1>2, <2>1, <2>2 DEF EntryRight, ArchiveRight
<1> QED
  BY <1>1, <1>2 DEF NoEntryForPartial

-----------------------------------------------------------------------------
(***************************************************************************)
(* What a step of one job does to the others.                              *)
(***************************************************************************)
\* Job j goes from one place to another, changes only what is its own, and
\* writes only while it works.
Local(j) ==
  /\ pc[j] \in Working \/ disk' = disk
  /\ \E p \in Working \cup Ended : pc' = [pc EXCEPT ![j] = p]
  /\ UNCHANGED pkg
  /\ DOMAIN disk' = Path
  /\ \A k \in Job, n \in Names, s \in Stems :
       TrimPath[k] # TrimPath[j]
         => disk'[InTrimPath(k, n, s)] = disk[InTrimPath(k, n, s)]
  /\ DOMAIN work' = Job /\ DOMAIN built' = Job /\ DOMAIN dyn' = Job
  /\ DOMAIN archive' = Job /\ DOMAIN iface' = Job /\ DOMAIN entry' = Job
  /\ \A k \in Job \ {j} :
       /\ built'[k] = built[k] /\ archive'[k] = archive[k]
       /\ iface'[k] = iface[k] /\ entry'[k] = entry[k]

LEMMA OtherJobs ==
  ASSUME CompileInv, NEW j \in Job, Local(j), NEW k \in Job \ {j}
  PROVE  JobInv(k)'
<1>1. /\ pc'[k] = pc[k] /\ pkg'[k] = pkg[k] /\ built'[k] = built[k]
      /\ archive'[k] = archive[k] /\ iface'[k] = iface[k] /\ entry'[k] = entry[k]
  BY DEF Local, CompileInv, TypeOK
<1>2. JobInv(k)
  BY DEF CompileInv
<1>3. BuiltRight(k)'
  BY <1>1, <1>2 DEF JobInv, BuiltRight
<1>4. ArchiveRight(k)'
  BY <1>1, <1>2 DEF JobInv, ArchiveRight, MadeOf
<1>5. EntryRight(k)'
  BY <1>1, <1>2 DEF JobInv, EntryRight
<1>6. HasFiles(k)'
  <2>1. CASE pc[k] \in Working
    <3>1. pc[j] \in Working => TrimPath[k] # TrimPath[j]
      BY <2>1 DEF CompileInv, Exclusive
    <3>2. \A n \in Names, s \in Stems :
            disk'[InTrimPath(k, n, s)] = disk[InTrimPath(k, n, s)]
      BY <3>1 DEF Local
    <3>3. \A n, s : InTrimPath(k, n, s)' = InTrimPath(k, n, s)
      BY <1>1 DEF InTrimPath
    <3>4. \A n \in Names : Read(k, n)' = Read(k, n)
      BY <3>2, <3>3 DEF Read, Stems
    <3>5. \A f \in GoAsm(pkg[k]) : f.stem \in Stems
      BY DEF GoAsm, OfKind, Stems, CompileInv, TypeOK
    <3>6. ASSUME NEW f \in GoAsm(pkg[k])
          PROVE  disk[InTrimPath(k, "o", f.stem)]'
                   = disk[InTrimPath(k, "o", f.stem)]
      BY <1>1, <3>2, <3>3, <3>5 DEF Names
    <3>7. HasFiles(k)
      BY <1>2 DEF JobInv
    <3> HIDE DEF Local
    <3> QED
      BY <1>1, <3>4, <3>6, <3>7 DEF HasFiles, Names
  <2>2. CASE pc[k] \notin Working
    BY <1>1, <2>2 DEF HasFiles, Merged, Profiled, Embedded, Working
  <2> QED
    BY <2>1, <2>2
<1> QED
  BY <1>3, <1>4, <1>5, <1>6 DEF JobInv

\* It is enough that the job itself is left in order, and alone in its
\* directory.
LEMMA OneJob ==
  ASSUME CompileInv, NEW j \in Job, Local(j), JobInv(j)',
         pc[j] \notin Working => pc[j] = "idle" /\ MayStart(j)
  PROVE  CompileInv'
<1>1. TypeOK'
  BY DEF Local, CompileInv, TypeOK
<1>2. \A k \in Job : JobInv(k)'
  BY OtherJobs
<1>3. Exclusive'
  <2>1. \A k \in Job \ {j} : pc'[k] = pc[k]
    BY DEF Local, CompileInv, TypeOK
  <2>2. \A k \in Job \ {j} : TrimPath[k] = TrimPath[j] => pc[k] \notin Working
    BY DEF CompileInv, Exclusive, MayStart
  <2> QED
    BY <2>1, <2>2 DEF CompileInv, Exclusive
<1> QED
  BY <1>1, <1>2, <1>3 DEF CompileInv

-----------------------------------------------------------------------------
(***************************************************************************)
(* Every step keeps the invariant.                                         *)
(***************************************************************************)
own == <<disk, work, built, dyn, archive, iface, entry>>

\* A step that only goes from one place to the next.
LEMMA MoveLocal ==
  ASSUME CompileInv, NEW j \in Job, NEW p \in Working \cup Ended,
         pc' = [pc EXCEPT ![j] = p], UNCHANGED <<pkg, own>>
  PROVE  /\ Local(j)
         /\ pc'[j] = p /\ pkg'[j] = pkg[j]
         /\ HasFiles(j)' <=> 
              /\ j \in Command /\ p \in Merged => Read(j, "importcfg") = pkg[j]
              /\ pkg[j].pgo /\ p \in Profiled => Read(j, "pgoprofile") = pkg[j]
              /\ pkg[j].embed /\ p \in Embedded => Read(j, "embedcfg") = pkg[j]
              /\ GoAsm(pkg[j]) # {} /\ p \in {"pragmas", "compile"}
                   => Read(j, "symabis") = pkg[j]
              /\ p = "asm" => Read(j, "go_asm.h") = pkg[j]
              /\ p \in {"asm", "pack"} =>
                   \A f \in GoAsm(pkg[j]) \cap built[j] :
                     disk[InTrimPath(j, "o", f.stem)].header = pkg[j]
<1>1. pc'[j] = p /\ pkg' = pkg /\ disk' = disk /\ built' = built
  BY DEF CompileInv, TypeOK, own
<1>2. Local(j)
  BY DEF Local, CompileInv, TypeOK, own
<1>3. \A n, s : InTrimPath(j, n, s)' = InTrimPath(j, n, s)
  BY <1>1 DEF InTrimPath
<1>4. \A n : Read(j, n)' = Read(j, n)
  BY <1>1, <1>3 DEF Read
<1> QED
  BY <1>1, <1>2, <1>3, <1>4 DEF HasFiles

LEMMA MovesKeep ==
  ASSUME CompileInv, NEW j \in Job,
         \/ Start(j) \/ LoadCompileManifest(j) \/ ToPkgFiles(j) \/ CheckFiles(j)
         \/ CgoFlags(j) \/ RunCgo(j) \/ CheckCgoLdflagPragmas(j)
         \/ AssembleEnd(j) \/ Fails(j)
  PROVE  Local(j) /\ CompileInv'
<1> DEFINE Move(q, p) ==
      \/ q = "idle" /\ p = (IF j \in Command THEN "load" ELSE "profile")
      \/ q = "load" /\ p = "merge"
      \/ q = "resolve" /\ p = "profile"
      \/ q = "check" /\ p = "embed"
      \/ q = "flags" /\ p = "cgo"
      \/ q = "cgo" /\ p = "cc"
      \/ q = "pragmas" /\ p = "compile"
      \/ q = "asm" /\ p = "pack" /\ GoAsm(pkg[j]) \subseteq built[j]
      \/ q \in Working /\ p = "failed"
<1>1. PICK p \in Working \cup Ended :
        Move(pc[j], p) /\ pc' = [pc EXCEPT ![j] = p] /\ UNCHANGED <<pkg, own>>
  BY DEF Start, LoadCompileManifest, ToPkgFiles, CheckFiles, CgoFlags, RunCgo,
         CheckCgoLdflagPragmas, AssembleEnd, Fails, Goto, MayStart, own, Working, Ended
<1>2. pc[j] \notin Working => pc[j] = "idle" /\ MayStart(j)
  BY DEF Start, LoadCompileManifest, ToPkgFiles, CheckFiles, CgoFlags, RunCgo,
         CheckCgoLdflagPragmas, AssembleEnd, Fails, Goto, MayStart, Working
<1>3. JobInv(j)
  BY DEF CompileInv
<1>4. /\ pc'[j] = p /\ pkg'[j] = pkg[j] /\ built'[j] = built[j]
      /\ archive'[j] = archive[j] /\ iface'[j] = iface[j] /\ entry'[j] = entry[j]
  BY <1>1, MoveLocal DEF own
<1>5. HasFiles(j)'
  <2>1. HasFiles(j)
    BY <1>3 DEF JobInv
  <2> QED
    BY <1>1, <2>1, MoveLocal DEF HasFiles, Merged, Profiled, Embedded
<1>6. BuiltRight(j)'
  BY <1>1, <1>3, <1>4 DEF JobInv, BuiltRight, Working
<1>7. ArchiveRight(j)'
  BY <1>1, <1>3, <1>4 DEF JobInv, ArchiveRight, MadeOf, Packing
<1>8. EntryRight(j)'
  BY <1>1, <1>3, <1>4 DEF JobInv, EntryRight, Packing, Working
<1> QED
  BY <1>1, <1>2, <1>5, <1>6, <1>7, <1>8, OneJob, MoveLocal DEF JobInv

\* A step that may write one file of TrimPath, and nothing else.
LEMMA WritesKeep ==
  ASSUME CompileInv, NEW j \in Job,
         MergeImportcfg(j) \/ Preprofile(j) \/ WriteEmbedcfg(j)
  PROVE  Local(j) /\ CompileInv'
<1> DEFINE WritesIt(name) ==
      \/ Write(j, name, pkg[j])
      \/ disk' = disk /\ (\/ name = "pgoprofile" /\ ~pkg[j].pgo
                          \/ name = "embedcfg" /\ ~pkg[j].embed)
<1> DEFINE Move(q, name, p) ==
      \/ q = "merge" /\ name = "importcfg" /\ p = "resolve"
      \/ q = "profile" /\ name = "pgoprofile" /\ p = "check"
      \/ /\ q = "embed" /\ name = "embedcfg" /\ p \in {"flags", "symabis", "compile"}
         /\ p # "flags" => ~UsesCgo(pkg[j])
         /\ p = "compile" => GoAsm(pkg[j]) = {}
<1>1. /\ UNCHANGED <<pkg, work, built, dyn, archive, iface, entry>>
      /\ \E p \in Working, name \in {"importcfg", "pgoprofile", "embedcfg"} :
           Move(pc[j], name, p) /\ pc' = [pc EXCEPT ![j] = p] /\ WritesIt(name)
  BY DEF MergeImportcfg, Preprofile, WriteEmbedcfg, Goto, Working
<1>2. PICK p \in Working, name \in {"importcfg", "pgoprofile", "embedcfg"} :
        Move(pc[j], name, p) /\ pc' = [pc EXCEPT ![j] = p] /\ WritesIt(name)
  BY <1>1
<1>3. TypeOK /\ JobInv(j)
  BY DEF CompileInv
<1>4. /\ DOMAIN disk' = Path
      /\ \A k \in Job, n \in Names, s \in Stems :
           TrimPath[k] # TrimPath[j] \/ n # name
             => disk'[InTrimPath(k, n, s)] = disk[InTrimPath(k, n, s)]
  <2>1. CASE Write(j, name, pkg[j])
    BY <1>3, <2>1, WriteRead DEF Names
  <2>2. CASE disk' = disk
    BY <1>3, <2>2 DEF TypeOK
  <2> QED
    BY <1>2, <2>1, <2>2
<1>5. Local(j)
  <2>1. \A k \in Job, n \in Names, s \in Stems :
          TrimPath[k] # TrimPath[j]
            => disk'[InTrimPath(k, n, s)] = disk[InTrimPath(k, n, s)]
    BY <1>4
  <2>2. pc' = [pc EXCEPT ![j] = p] /\ p \in Working /\ pc[j] \in Working
    BY <1>2 DEF Working
  <2> HIDE DEF Move, WritesIt
  <2> QED
    BY <1>1, <1>3, <1>4, <2>1, <2>2 DEF Local, TypeOK
<1>6. pc[j] \in Working
  BY <1>2 DEF Working
<1>7. /\ pc'[j] = p /\ pkg'[j] = pkg[j] /\ built'[j] = built[j]
      /\ archive'[j] = archive[j] /\ iface'[j] = iface[j] /\ entry'[j] = entry[j]
  BY <1>1, <1>2, <1>3 DEF TypeOK
<1>8. HasFiles(j)'
  <2>1. \A n, s : InTrimPath(j, n, s)' = InTrimPath(j, n, s)
    BY <1>7 DEF InTrimPath
  <2>2. \A n \in Names : n # name => Read(j, n)' = Read(j, n)
    BY <1>4, <2>1 DEF Read, Stems
  <2>3. WritesIt(name) => \/ Read(j, name)' = pkg[j]
                          \/ name = "pgoprofile" /\ ~pkg[j].pgo
                          \/ name = "embedcfg" /\ ~pkg[j].embed
    <3>1. CASE Write(j, name, pkg[j])
      <4>1. disk'[InTrimPath(j, name, Nothing)] = pkg[j]
        BY <1>3, <3>1, WriteRead DEF Names
      <4> QED
        BY <4>1, <2>1 DEF Read
    <3>2. CASE ~Write(j, name, pkg[j])
      BY <3>2
    <3> QED
      BY <3>1, <3>2
  <2>4. HasFiles(j)
    BY <1>3 DEF JobInv
  <2> HIDE DEF WritesIt
  <2> QED
    BY <1>2, <1>7, <2>2, <2>3, <2>4 DEF HasFiles, Merged, Profiled, Embedded, Names
<1>9. BuiltRight(j)'
  <2>1. ~UsesCgo(pkg[j]) => ForCC(pkg[j]) = {}
    BY DEF ForCC
  <2> QED
    BY <1>2, <1>3, <1>7, <2>1 DEF JobInv, BuiltRight
<1>10. ArchiveRight(j)' /\ EntryRight(j)'
  BY <1>2, <1>3, <1>7 DEF JobInv, ArchiveRight, MadeOf, EntryRight, Packing
<1> QED
  BY <1>5, <1>6, <1>8, <1>9, <1>10, OneJob DEF JobInv

LEMMA SymabisKeep == ASSUME CompileInv, NEW j \in Job, GenerateSymabis(j) PROVE Local(j) /\ CompileInv'
<1>1. TypeOK /\ JobInv(j)
  BY DEF CompileInv
<1> DEFINE header == InTrimPath(j, "go_asm.h", Nothing)
<1> DEFINE symabis == InTrimPath(j, "symabis", Nothing)
<1>2. PICK p \in {"pragmas", "compile"} : pc' = [pc EXCEPT ![j] = p]
  BY DEF GenerateSymabis, Goto
<1>3. /\ pc[j] = "symabis"
      /\ disk' = [disk EXCEPT ![header] = "empty", ![symabis] = pkg[j]]
      /\ UNCHANGED <<pkg, work, built, dyn, archive, iface, entry>>
  BY DEF GenerateSymabis, Goto
<1>4. header \in Path /\ symabis \in Path
  BY <1>1, InPath DEF Names, Stems
<1>5. ASSUME NEW k \in Job, NEW n \in Names, NEW s \in Stems,
             TrimPath[k] # TrimPath[j] \/ n \notin {"go_asm.h", "symabis"}
      PROVE  disk'[InTrimPath(k, n, s)] = disk[InTrimPath(k, n, s)]
  <2>1. InTrimPath(k, n, s) # header /\ InTrimPath(k, n, s) # symabis
    BY <1>5, Apart DEF Names
  <2>2. InTrimPath(k, n, s) \in DOMAIN disk
    BY <1>1, InPath DEF TypeOK
  <2> HIDE DEF header, symabis
  <2> QED
    BY <1>3, <2>1, <2>2
<1>6. DOMAIN disk' = Path /\ disk'[symabis] = pkg[j]
  BY <1>1, <1>3, <1>4 DEF TypeOK
<1>7. Local(j)
  <2>1. \A k \in Job, n \in Names, s \in Stems :
          TrimPath[k] # TrimPath[j]
            => disk'[InTrimPath(k, n, s)] = disk[InTrimPath(k, n, s)]
    BY <1>5
  <2>2. p \in Working \cup Ended /\ pc[j] \in Working
    BY <1>3 DEF Working
  <2> HIDE DEF header, symabis
  <2> QED
    BY <1>1, <1>2, <1>3, <1>6, <2>1, <2>2 DEF Local, TypeOK
<1>8. /\ pc'[j] = p /\ pkg'[j] = pkg[j] /\ built'[j] = built[j]
      /\ archive'[j] = archive[j] /\ iface'[j] = iface[j] /\ entry'[j] = entry[j]
  BY <1>1, <1>2, <1>3 DEF TypeOK
<1>9. HasFiles(j)'
  <2>1. \A n, s : InTrimPath(j, n, s)' = InTrimPath(j, n, s)
    BY <1>8 DEF InTrimPath
  <2>2. \A n \in Names \ {"go_asm.h", "symabis"} : Read(j, n)' = Read(j, n)
    BY <1>5, <2>1 DEF Read, Stems
  <2>3. Read(j, "symabis")' = pkg[j]
    BY <1>6, <2>1 DEF Read
  <2> HIDE DEF header, symabis
  <2> QED
    BY <1>1, <1>2, <1>3, <1>8, <2>2, <2>3
    DEF JobInv, HasFiles, Merged, Profiled, Embedded, Names
<1>10. BuiltRight(j)'
  BY <1>1, <1>2, <1>3, <1>8 DEF JobInv, BuiltRight
<1>11. ArchiveRight(j)' /\ EntryRight(j)'
  BY <1>1, <1>2, <1>3, <1>8 DEF JobInv, ArchiveRight, MadeOf, EntryRight, Packing
<1> QED
  BY <1>3, <1>7, <1>9, <1>10, <1>11, OneJob DEF JobInv, Working

LEMMA CompilerKeeps == ASSUME CompileInv, NEW j \in Job, RunCompile(j) PROVE Local(j) /\ CompileInv'
<1>1. TypeOK /\ JobInv(j)
  BY DEF CompileInv
<1>2. PICK p \in {"asm", "pack"} :
        /\ pc' = [pc EXCEPT ![j] = p]
        /\ GoAsm(pkg[j]) # {} => p = "asm" /\ Write(j, "go_asm.h", pkg[j])
        /\ GoAsm(pkg[j]) = {} => p = "pack" /\ disk' = disk
  BY DEF RunCompile, Goto
<1> DEFINE made == [go |-> GoInputs(j), objects |-> <<>>, members |-> {}]
<1>3. /\ pc[j] = "compile"
      /\ archive' = [archive EXCEPT ![j] = made]
      /\ iface' = IF j \in Split THEN [iface EXCEPT ![j] = pkg[j]] ELSE iface
      /\ UNCHANGED <<pkg, work, built, dyn, entry>>
  BY DEF RunCompile, Goto
<1>4. /\ DOMAIN disk' = Path
      /\ \A k \in Job, n \in Names, s \in Stems :
           TrimPath[k] # TrimPath[j]
             => disk'[InTrimPath(k, n, s)] = disk[InTrimPath(k, n, s)]
  <2>1. CASE Write(j, "go_asm.h", pkg[j])
    BY <1>1, <2>1, WriteRead DEF Names
  <2>2. CASE disk' = disk
    BY <1>1, <2>2 DEF TypeOK
  <2> QED
    BY <1>2, <2>1, <2>2
<1>5. Local(j)
  BY <1>1, <1>2, <1>3, <1>4 DEF Local, TypeOK, Working
<1>6. /\ pc'[j] = p /\ pkg'[j] = pkg[j] /\ built'[j] = built[j]
      /\ archive'[j] = made /\ entry'[j] = entry[j]
      /\ iface'[j] = IF j \in Split THEN pkg[j] ELSE iface[j]
  BY <1>1, <1>2, <1>3 DEF TypeOK
<1>7. built[j] = ForCC(pkg[j])
  BY <1>1, <1>3 DEF JobInv, BuiltRight
<1>8. ASSUME NEW f \in ForCC(pkg[j]) PROVE f.kind # "s"
  BY DEF ForCC, CgoExport, OfKind
<1>9. HasFiles(j)'
  <2>1. p = "asm" => Read(j, "go_asm.h")' = pkg[j]
    <3>1. ASSUME p = "asm" PROVE disk'[InTrimPath(j, "go_asm.h", Nothing)] = pkg[j]
      BY <1>1, <1>2, <3>1, WriteRead DEF Names
    <3> QED
      BY <1>6, <3>1 DEF Read, InTrimPath
  <2>2. GoAsm(pkg[j]) \cap built[j] = {}
    BY <1>7, <1>8 DEF GoAsm, OfKind
  <2> QED
    BY <1>2, <1>6, <2>1, <2>2 DEF HasFiles, Merged, Profiled, Embedded
<1>10. BuiltRight(j)'
  BY <1>2, <1>6, <1>7 DEF BuiltRight
<1>11. ArchiveRight(j)'
  <2>1. /\ GoInputs(j).importcfg = pkg[j]
        /\ GoInputs(j).profile = IF pkg[j].pgo THEN pkg[j] ELSE Nothing
        /\ GoInputs(j).embedcfg = IF pkg[j].embed THEN pkg[j] ELSE Nothing
        /\ GoInputs(j).symabis = IF GoAsm(pkg[j]) # {} THEN pkg[j] ELSE Nothing
    BY <1>1, <1>3 DEF GoInputs, JobInv, HasFiles, Merged, Profiled, Embedded
  <2>2. MadeOf(j)'
    BY <1>6, <2>1 DEF MadeOf
  <2> QED
    BY <1>2, <1>6, <2>2 DEF ArchiveRight, Packing
<1>12. EntryRight(j)'
  BY <1>1, <1>2, <1>3, <1>6 DEF JobInv, EntryRight, Packing
<1> QED
  BY <1>3, <1>5, <1>9, <1>10, <1>11, <1>12, OneJob DEF JobInv, Working

LEMMA CompileCKeeps ==
  ASSUME CompileInv, NEW j \in Job, NEW f \in ForCC(pkg[j]), CompileC(j, f)
  PROVE  Local(j) /\ CompileInv'
<1>1. TypeOK /\ JobInv(j)
  BY DEF CompileInv
<1>2. /\ pc[j] = "cc"
      /\ DOMAIN work' = Job
      /\ built' = [built EXCEPT ![j] = built[j] \cup {f}]
      /\ UNCHANGED <<pc, pkg, disk, dyn, archive, iface, entry>>
  BY <1>1 DEF CompileC, TypeOK
<1>3. Local(j)
  BY <1>1, <1>2 DEF Local, TypeOK, Working
<1>4. /\ pc'[j] = "cc" /\ pkg'[j] = pkg[j] /\ built'[j] = built[j] \cup {f}
      /\ archive'[j] = archive[j] /\ iface'[j] = iface[j] /\ entry'[j] = entry[j]
  BY <1>1, <1>2 DEF TypeOK
<1>5. HasFiles(j)'
  <2>1. \A n : Read(j, n)' = Read(j, n)
    BY <1>2 DEF Read, InTrimPath
  <2> QED
    BY <1>1, <1>2, <1>4, <2>1 DEF JobInv, HasFiles
<1>6. BuiltRight(j)'
  BY <1>1, <1>2, <1>4 DEF JobInv, BuiltRight
<1>7. ArchiveRight(j)' /\ EntryRight(j)'
  BY <1>1, <1>2, <1>4 DEF JobInv, ArchiveRight, MadeOf, EntryRight, Packing
<1> QED
  BY <1>2, <1>3, <1>5, <1>6, <1>7, OneJob DEF JobInv, Working

LEMMA TestLinkKeeps == ASSUME CompileInv, NEW j \in Job, TestLink(j) PROVE Local(j) /\ CompileInv'
<1>1. TypeOK /\ JobInv(j)
  BY DEF CompileInv
<1>2. PICK p \in {"symabis", "pragmas"} :
        /\ pc' = [pc EXCEPT ![j] = p]
        /\ p = "pragmas" => GoAsm(pkg[j]) = {}
  BY DEF TestLink, Goto
<1>3. /\ pc[j] = "cc" /\ built[j] = ForCC(pkg[j])
      /\ DOMAIN dyn' = Job
      /\ UNCHANGED <<pkg, disk, work, built, archive, iface, entry>>
  BY <1>1 DEF TestLink, Goto, TypeOK
<1>4. Local(j)
  BY <1>1, <1>2, <1>3 DEF Local, TypeOK, Working
<1>5. /\ pc'[j] = p /\ pkg'[j] = pkg[j] /\ built'[j] = built[j]
      /\ archive'[j] = archive[j] /\ iface'[j] = iface[j] /\ entry'[j] = entry[j]
  BY <1>1, <1>2, <1>3 DEF TypeOK
<1>6. HasFiles(j)'
  <2>1. \A n : Read(j, n)' = Read(j, n)
    BY <1>3 DEF Read, InTrimPath
  <2> QED
    BY <1>1, <1>2, <1>3, <1>5, <2>1 DEF JobInv, HasFiles, Merged, Profiled, Embedded
<1>7. BuiltRight(j)'
  BY <1>2, <1>3, <1>5 DEF BuiltRight
<1>8. ArchiveRight(j)' /\ EntryRight(j)'
  BY <1>1, <1>2, <1>3, <1>5 DEF JobInv, ArchiveRight, MadeOf, EntryRight, Packing
<1> QED
  BY <1>3, <1>4, <1>6, <1>7, <1>8, OneJob DEF JobInv, Working

LEMMA AssembleKeeps ==
  ASSUME CompileInv, NEW j \in Job, NEW f \in GoAsm(pkg[j]), Assemble(j, f)
  PROVE  Local(j) /\ CompileInv'
<1>1. TypeOK /\ JobInv(j)
  BY DEF CompileInv
<1> DEFINE object == InTrimPath(j, "o", f.stem)
<1>2. /\ pc[j] = "asm"
      /\ disk' = [disk EXCEPT ![object] = AsmObject(f, Read(j, "go_asm.h"))]
      /\ built' = [built EXCEPT ![j] = built[j] \cup {f}]
      /\ UNCHANGED <<pc, pkg, work, dyn, archive, iface, entry>>
  BY DEF Assemble
<1>3. \A g \in GoAsm(pkg[j]) : g.stem \in Stems
  BY <1>1 DEF GoAsm, OfKind, Stems, TypeOK
<1>4. object \in Path
  BY <1>1, <1>3, InPath DEF Names
<1>5. ASSUME NEW k \in Job, NEW n \in Names, NEW s \in Stems,
             TrimPath[k] # TrimPath[j] \/ n # "o" \/ s # f.stem
      PROVE  disk'[InTrimPath(k, n, s)] = disk[InTrimPath(k, n, s)]
  <2>1. InTrimPath(k, n, s) # object
    BY <1>5, Apart DEF Names
  <2>2. InTrimPath(k, n, s) \in DOMAIN disk
    BY <1>1, InPath DEF TypeOK
  <2> HIDE DEF object
  <2> QED
    BY <1>2, <2>1, <2>2
<1>6. DOMAIN disk' = Path /\ disk'[object] = AsmObject(f, Read(j, "go_asm.h"))
  BY <1>1, <1>2, <1>4 DEF TypeOK
<1>7. Local(j)
  <2>1. \A k \in Job, n \in Names, s \in Stems :
          TrimPath[k] # TrimPath[j]
            => disk'[InTrimPath(k, n, s)] = disk[InTrimPath(k, n, s)]
    BY <1>5
  <2>2. pc' = [pc EXCEPT ![j] = "asm"] /\ "asm" \in Working /\ pc[j] \in Working
    BY <1>1, <1>2 DEF TypeOK, Working
  <2> HIDE DEF object
  <2> QED
    BY <1>1, <1>2, <1>6, <2>1, <2>2 DEF Local, TypeOK
<1>8. /\ pc'[j] = "asm" /\ pkg'[j] = pkg[j] /\ built'[j] = built[j] \cup {f}
      /\ archive'[j] = archive[j] /\ iface'[j] = iface[j] /\ entry'[j] = entry[j]
  BY <1>1, <1>2 DEF TypeOK
<1>9. HasFiles(j)'
  <2>1. \A n, s : InTrimPath(j, n, s)' = InTrimPath(j, n, s)
    BY <1>2 DEF InTrimPath
  <2>2. Read(j, "go_asm.h") = pkg[j]
    BY <1>1, <1>2 DEF JobInv, HasFiles
  <2>3. Read(j, "go_asm.h")' = pkg[j]
    BY <1>5, <2>1, <2>2 DEF Read, Names, Stems
  <2>4. ASSUME NEW g \in GoAsm(pkg[j]), g \in built[j] \cup {f}
        PROVE  disk'[InTrimPath(j, "o", g.stem)].header = pkg[j]
    <3>1. CASE g.stem = f.stem
      BY <1>6, <2>2, <3>1 DEF AsmObject
    <3>2. CASE g.stem # f.stem
      <4>1. disk'[InTrimPath(j, "o", g.stem)] = disk[InTrimPath(j, "o", g.stem)]
        BY <1>3, <1>5, <3>2 DEF Names
      <4>2. g \in built[j]
        BY <2>4, <3>2
      <4> QED
        BY <1>1, <1>2, <4>1, <4>2 DEF JobInv, HasFiles
    <3> QED
      BY <3>1, <3>2
  <2> HIDE DEF object
  <2> QED
    BY <1>8, <2>1, <2>3, <2>4 DEF HasFiles, Merged, Profiled, Embedded
<1>10. BuiltRight(j)'
  BY <1>1, <1>2, <1>8 DEF JobInv, BuiltRight
<1>11. ArchiveRight(j)' /\ EntryRight(j)'
  BY <1>1, <1>2, <1>8 DEF JobInv, ArchiveRight, MadeOf, EntryRight, Packing
<1> QED
  BY <1>2, <1>7, <1>9, <1>10, <1>11, OneJob DEF JobInv, Working

\* What is packed for assembly was made with the package's own go_asm.h.
LEMMA PackedHeaders ==
  ASSUME CompileInv, NEW j \in Job, pc[j] = "pack", NEW f \in ToPack(j), f.kind = "s"
  PROVE  Packed(j, f).header = pkg[j]
<1>1. JobInv(j)
  BY DEF CompileInv
<1>2. f \in GoAsm(pkg[j]) \cap built[j]
  <2>1. \A g \in ForCC(pkg[j]) : g.kind # "s"
    BY DEF ForCC, CgoExport, OfKind
  <2>2. built[j] = ForCC(pkg[j]) \cup GoAsm(pkg[j])
    BY <1>1 DEF JobInv, BuiltRight
  <2>3. f \notin OfKind(pkg[j], {"syso"})
    BY DEF OfKind
  <2> QED
    BY <2>1, <2>2, <2>3 DEF ToPack
<1>3. Packed(j, f) = disk[InTrimPath(j, "o", f.stem)]
  BY DEF Packed
<1> QED
  BY <1>1, <1>2, <1>3 DEF JobInv, HasFiles

LEMMA PacksKeep ==
  ASSUME CompileInv, NEW j \in Job, Pack(j) \/ PackFails(j)
  PROVE  Local(j) /\ CompileInv'
<1>1. TypeOK /\ JobInv(j)
  BY DEF CompileInv
<1>2. PICK p \in Packing \cup {"failed"}, fs \in SUBSET ToPack(j) :
        /\ pc' = [pc EXCEPT ![j] = p]
        /\ p # "failed" => fs = ToPack(j)
        /\ \E members : PutIn(j, fs, members)
  BY DEF Pack, PackFails, Goto, AfterPack, Packing
<1>3. /\ pc[j] = "pack"
      /\ UNCHANGED <<pkg, disk, work, built, dyn, iface, entry>>
  BY DEF Pack, PackFails, Goto
<1>4. PICK members : PutIn(j, fs, members)
  BY <1>2
<1>5. MadeOf(j) /\ built[j] = ForCC(pkg[j]) \cup GoAsm(pkg[j])
  BY <1>1, <1>3 DEF JobInv, ArchiveRight, BuiltRight
<1> DEFINE objects == [f \in fs |-> Packed(j, f)]
<1>6. archive' = [archive EXCEPT ![j] = [go |-> archive[j].go, objects |-> objects,
                                        members |-> members]]
  BY <1>4 DEF PutIn
<1>7. Local(j)
  BY <1>1, <1>2, <1>3, <1>6 DEF Local, TypeOK, Working, Ended, Packing
<1>8. /\ pc'[j] = p /\ pkg'[j] = pkg[j] /\ built'[j] = built[j]
      /\ archive'[j] = [go |-> archive[j].go, objects |-> objects, members |-> members]
      /\ iface'[j] = iface[j] /\ entry'[j] = entry[j]
  BY <1>1, <1>2, <1>3, <1>6 DEF TypeOK
<1>9. HasFiles(j)' /\ BuiltRight(j)'
  BY <1>2, <1>8 DEF HasFiles, BuiltRight, Merged, Profiled, Embedded, Packing
<1>10. ArchiveRight(j)'
  <2>1. \A f \in fs : f.kind = "s" => objects[f].header = pkg[j]
    BY <1>3, PackedHeaders
  <2>2. MadeOf(j)'
    BY <1>5, <1>8, <2>1 DEF MadeOf
  <2>3. ToPack(j) = ForCC(pkg[j]) \cup OfKind(pkg[j], {"s", "syso"})
    BY <1>5 DEF ToPack, GoAsm, OfKind
  <2>4. p # "failed" =>
          DOMAIN objects = ForCC(pkg[j]) \cup OfKind(pkg[j], {"s", "syso"})
    BY <1>2, <2>3
  <2>5. DOMAIN archive'[j].objects = DOMAIN objects
    BY <1>8
  <2> HIDE DEF objects
  <2> QED
    BY <1>2, <1>8, <2>2, <2>4, <2>5 DEF ArchiveRight, Packing
<1>11. EntryRight(j)'
  BY <1>1, <1>2, <1>3, <1>8 DEF JobInv, EntryRight, Packing
<1> QED
  BY <1>3, <1>7, <1>9, <1>10, <1>11, OneJob DEF JobInv, Working

LEMMA PackFlagsKeeps == ASSUME CompileInv, NEW j \in Job, PackFlags(j) PROVE Local(j) /\ CompileInv'
<1>1. TypeOK /\ JobInv(j)
  BY DEF CompileInv
<1>2. PICK p \in {"entry", "ok"} : pc' = [pc EXCEPT ![j] = p]
  BY DEF PackFlags, Goto
<1>3. pc[j] = "pack flags" /\ UNCHANGED <<pkg, disk, work, built, dyn, iface, entry>>
  BY DEF PackFlags, Goto
<1>4. /\ MadeOf(j)
      /\ DOMAIN archive[j].objects = ForCC(pkg[j]) \cup OfKind(pkg[j], {"s", "syso"})
  BY <1>1, <1>3 DEF JobInv, ArchiveRight, Packing
<1> DEFINE members == archive[j].members \cup {"_cgo_flags"}
<1>5. archive' = [archive EXCEPT ![j] = [go |-> archive[j].go,
                    objects |-> archive[j].objects, members |-> members]]
  BY DEF PackFlags
<1>6. Local(j)
  BY <1>1, <1>2, <1>3, <1>5 DEF Local, TypeOK, Working, Ended
<1>7. /\ pc'[j] = p /\ pkg'[j] = pkg[j] /\ built'[j] = built[j]
      /\ archive'[j] = [go |-> archive[j].go, objects |-> archive[j].objects,
                        members |-> members]
      /\ iface'[j] = iface[j] /\ entry'[j] = entry[j]
  BY <1>1, <1>2, <1>3, <1>5 DEF TypeOK
<1>8. HasFiles(j)' /\ BuiltRight(j)'
  BY <1>2, <1>7 DEF HasFiles, BuiltRight, Merged, Profiled, Embedded
<1>9. ArchiveRight(j)'
  <2>1. MadeOf(j)'
    BY <1>4, <1>7 DEF MadeOf
  <2> QED
    BY <1>4, <1>7, <2>1 DEF ArchiveRight
<1>10. EntryRight(j)'
  BY <1>1, <1>2, <1>3, <1>7 DEF JobInv, EntryRight, Packing
<1> QED
  BY <1>3, <1>6, <1>8, <1>9, <1>10, OneJob DEF JobInv, Working

LEMMA WriteEntryKeeps == ASSUME CompileInv, NEW j \in Job, WriteEntry(j) PROVE Local(j) /\ CompileInv'
<1>1. TypeOK /\ JobInv(j)
  BY DEF CompileInv
<1>2. /\ pc[j] = "entry" /\ pc' = [pc EXCEPT ![j] = "ok"]
      /\ entry' = [entry EXCEPT ![j] = IF j \in Split THEN "iface" ELSE "output"]
      /\ UNCHANGED <<pkg, disk, work, built, dyn, archive, iface>>
  BY DEF WriteEntry, Goto
<1>3. Local(j)
  BY <1>1, <1>2 DEF Local, TypeOK, Working, Ended
<1>4. /\ pc'[j] = "ok" /\ pkg'[j] = pkg[j] /\ built'[j] = built[j]
      /\ archive'[j] = archive[j] /\ iface'[j] = iface[j]
      /\ entry'[j] = IF j \in Split THEN "iface" ELSE "output"
  BY <1>1, <1>2 DEF TypeOK
<1>5. HasFiles(j)' /\ BuiltRight(j)'
  BY <1>4 DEF HasFiles, BuiltRight, Merged, Profiled, Embedded
<1>6. ArchiveRight(j)' /\ EntryRight(j)'
  BY <1>1, <1>2, <1>4 DEF JobInv, ArchiveRight, MadeOf, EntryRight, Packing
<1> QED
  BY <1>2, <1>3, <1>5, <1>6, OneJob DEF JobInv, Working

LEMMA NextCompileInv == CompileInv /\ [Next \/ Done]_vars => CompileInv'
<1>1. ASSUME CompileInv, UNCHANGED vars PROVE CompileInv'
  <2>1. TypeOK' /\ Exclusive'
    BY <1>1 DEF vars, CompileInv, TypeOK, Exclusive
  <2>2. ASSUME NEW j \in Job PROVE JobInv(j)'
    <3>1. HasFiles(j)'
      BY <1>1 DEF vars, CompileInv, JobInv, HasFiles, Read, InTrimPath
    <3>2. BuiltRight(j)' /\ ArchiveRight(j)' /\ EntryRight(j)'
      BY <1>1 DEF vars, CompileInv, JobInv, BuiltRight, ArchiveRight, MadeOf, EntryRight
    <3> QED
      BY <3>1, <3>2 DEF JobInv
  <2> QED
    BY <2>1, <2>2 DEF CompileInv
<1>2. ASSUME CompileInv, NEW j \in Job, Step(j) PROVE CompileInv'
  BY <1>2, MovesKeep, WritesKeep, SymabisKeep, CompilerKeeps, CompileCKeeps,
     TestLinkKeeps, AssembleKeeps, PacksKeep, PackFlagsKeeps, WriteEntryKeeps
  DEF Step
<1> QED
  BY <1>1, <1>2 DEF Next, Done

\* Whatever packages are compiled in whatever directories, at once in several
\* or one after the other in one, and whichever tool fails: what is in an
\* archive was made from the package's own generated files.
THEOREM MadeOfItsOwn == Spec => []OwnInputsOnly
<1>1. Init => CompileInv
  BY InitCompileInv
<1>2. CompileInv /\ [Next \/ Done]_vars => CompileInv'
  BY NextCompileInv
<1>3. CompileInv => OwnInputsOnly
  BY CompileInvImplies
<1> QED
  BY <1>1, <1>2, <1>3, PTL DEF Spec

\* An entry for consumers is written only for an archive into which every
\* object was packed, and names the interface exactly if there is one.
THEOREM EntriesAreWhole == Spec => []NoEntryForPartial
<1>1. Init => CompileInv
  BY InitCompileInv
<1>2. CompileInv /\ [Next \/ Done]_vars => CompileInv'
  BY NextCompileInv
<1>3. CompileInv => NoEntryForPartial
  BY CompileInvImplies
<1> QED
  BY <1>1, <1>2, <1>3, PTL DEF Spec

-----------------------------------------------------------------------------
(***************************************************************************)
(* Nothing is missing from an archive, if no two sources share a name.     *)
(***************************************************************************)
\* No two sources that an object is made of have the same kind and the same
\* name without the extension, and C-like ones stand beside cgo files.
DistinctNames ==
  \A p \in Packages :
    /\ \A f, g \in p.files \cup {CgoExport} : ObjName(f) = ObjName(g) => f = g
    /\ \A f \in p.files :
         f.kind \in {"go", "cgo", "c", "S", "cxx", "f", "s", "syso", "m", "swig"}
    /\ ~UsesCgo(p) => OfKind(p, {"c", "S", "cxx", "f"}) = {}

Checked == Embedded \cup {"embed", "asm", "pack"} \cup Packing

ObjectsRight(j) ==
  /\ pc[j] \in Checked => Acceptable(pkg[j])
  /\ pc[j] \notin Packing \cup {"failed"} => \A f \in built[j] \cap ForCC(pkg[j]) :
       ObjName(f) \in DOMAIN work[j] /\ work[j][ObjName(f)] = f
  /\ pc[j] \in {"asm", "pack"} =>
       \A f \in GoAsm(pkg[j]) \cap built[j] :
         disk[InTrimPath(j, "o", f.stem)] = AsmObject(f, pkg[j])
  /\ pc[j] \in Packing =>
       \A f \in DOMAIN archive[j].objects :
         archive[j].objects[f] = RightObject(pkg[j], f)

ObjectsInv == \A j \in Job : ObjectsRight(j)

LEMMA InitObjectsInv == Init => ObjectsInv
<1> SUFFICES ASSUME Init, NEW j \in Job PROVE ObjectsRight(j)
  BY DEF ObjectsInv
<1>1. pc[j] = "idle" /\ built[j] = {}
  BY DEF Init
<1> QED
  BY <1>1 DEF ObjectsRight, Checked, Embedded, Profiled, Merged, Packing

LEMMA ObjectsInvImplies ==
  DistinctNames /\ CompileInv /\ ObjectsInv => CompleteArchive
<1> SUFFICES ASSUME DistinctNames, CompileInv, ObjectsInv, NEW j \in Job,
                    pc[j] \in {"entry", "ok"}, NEW f \in pkg[j].files,
                    f.kind \notin {"go", "cgo"}
             PROVE  f \in DOMAIN archive[j].objects
                    /\ archive[j].objects[f] = RightObject(pkg[j], f)
  BY DEF CompleteArchive
<1>1. pkg[j] \in Packages /\ ArchiveRight(j) /\ ObjectsRight(j)
  BY DEF CompileInv, TypeOK, JobInv, ObjectsInv
<1>2. Acceptable(pkg[j])
  BY <1>1 DEF ObjectsRight, Checked, Packing
<1>3. f.kind \in {"c", "S", "cxx", "f", "s", "syso"}
  BY <1>1, <1>2 DEF DistinctNames, Acceptable, OfKind
<1>4. f \in ForCC(pkg[j]) \cup OfKind(pkg[j], {"s", "syso"})
  BY <1>1, <1>3 DEF DistinctNames, ForCC, OfKind
<1>5. pc[j] \in Packing
  BY DEF Packing
<1> QED
  BY <1>1, <1>4, <1>5 DEF ArchiveRight, ObjectsRight

\* A step of one job leaves the objects of the others.
LEMMA OtherObjects ==
  ASSUME CompileInv, ObjectsInv, NEW j \in Job, Local(j),
         NEW k \in Job \ {j}, work'[k] = work[k]
  PROVE  ObjectsRight(k)'
<1>1. /\ pc'[k] = pc[k] /\ pkg'[k] = pkg[k] /\ built'[k] = built[k]
      /\ archive'[k] = archive[k]
  BY DEF Local, CompileInv, TypeOK
<1>2. ObjectsRight(k)
  BY DEF ObjectsInv
<1>3. ASSUME pc[k] \in {"asm", "pack"}, NEW f \in GoAsm(pkg[k])
      PROVE  disk[InTrimPath(k, "o", f.stem)]' = disk[InTrimPath(k, "o", f.stem)]
  <2>1. pc[k] \in Working
    BY <1>3 DEF Working
  <2>2. TrimPath[k] # TrimPath[j] \/ disk' = disk
    BY <2>1 DEF CompileInv, Exclusive, Local
  <2>3. f.stem \in Stems
    BY DEF GoAsm, OfKind, Stems, CompileInv, TypeOK
  <2>4. InTrimPath(k, "o", f.stem)' = InTrimPath(k, "o", f.stem)
    BY <1>1 DEF InTrimPath
  <2> QED
    BY <2>2, <2>3, <2>4 DEF Local, Names
<1> HIDE DEF Local
<1> QED
  BY <1>1, <1>2, <1>3 DEF ObjectsRight

LEMMA StepLocal ==
  ASSUME CompileInv, NEW j \in Job, Step(j)
  PROVE  Local(j) /\ CompileInv'
  BY MovesKeep, WritesKeep, SymabisKeep, CompilerKeeps, CompileCKeeps,
     TestLinkKeeps, AssembleKeeps, PacksKeep, PackFlagsKeeps, WriteEntryKeeps
  DEF Step

\* A step that leaves the objects and the archive alone, and packs nothing.
LEMMA QuietObjects ==
  ASSUME CompileInv, ObjectsInv, NEW j \in Job,
         UNCHANGED <<pkg, work, built, archive>>,
         pc[j] \notin Packing \cup {"failed"},
         pc'[j] \notin Packing,
         pc'[j] \in {"asm", "pack"} =>
           \/ GoAsm(pkg[j]) \cap built[j] = {}
           \/ pc[j] = "asm" /\ disk' = disk,
         pc'[j] \in Checked => pc[j] \in Checked \/ Acceptable(pkg[j])
  PROVE  ObjectsRight(j)'
<1>1. ObjectsRight(j)
  BY DEF ObjectsInv
<1>2. disk' = disk => \A f : disk[InTrimPath(j, "o", f.stem)]'
                             = disk[InTrimPath(j, "o", f.stem)]
  BY DEF InTrimPath
<1> QED
  BY <1>1, <1>2 DEF ObjectsRight

LEMMA StepObjects ==
  ASSUME DistinctNames, CompileInv, ObjectsInv, NEW j \in Job, Step(j)
  PROVE  ObjectsRight(j)'
<1>1. TypeOK /\ JobInv(j) /\ ObjectsRight(j) /\ pkg[j] \in Packages
  BY DEF CompileInv, ObjectsInv, TypeOK
<1> DEFINE Same == UNCHANGED <<pkg, work, built, archive>>
<1>2. CASE \/ Start(j) \/ LoadCompileManifest(j) \/ ToPkgFiles(j) \/ CheckFiles(j)
           \/ CgoFlags(j) \/ RunCgo(j) \/ CheckCgoLdflagPragmas(j)
           \/ AssembleEnd(j)
  <2>1. Same
    BY <1>2 DEF Start, LoadCompileManifest, ToPkgFiles, CheckFiles, CgoFlags, RunCgo,
                CheckCgoLdflagPragmas, AssembleEnd
  <2> DEFINE Goes(q, p) ==
        /\ q \notin Packing \cup {"failed"} /\ p \notin Packing \cup {"asm"}
        /\ p = "pack" => q = "asm" /\ disk' = disk
        /\ p \in Checked => q \in Checked \/ Acceptable(pkg[j])
  <2> USE DEF Goto, Packing, Checked, Embedded, Profiled, Merged
  <2>2. PICK p \in Working \cup Ended : pc' = [pc EXCEPT ![j] = p] /\ Goes(pc[j], p)
    <3> USE DEF Working, Ended
    <3>1. CASE Start(j)
      <4>1. PICK p \in {"load", "profile"} : pc' = [pc EXCEPT ![j] = p]
        BY <3>1 DEF Start
      <4>2. pc[j] = "idle"
        BY <3>1 DEF Start
      <4>3. Goes(pc[j], p) /\ p \in Working \cup Ended
        BY <4>1, <4>2
      <4> WITNESS p \in Working \cup Ended
      <4> QED
        BY <4>1, <4>3, Zenon
    <3>2. CASE LoadCompileManifest(j) \/ ToPkgFiles(j)
      <4>1. PICK p \in {"failed", "merge", "profile"} : pc' = [pc EXCEPT ![j] = p]
        BY <3>2 DEF LoadCompileManifest, ToPkgFiles
      <4>2. pc[j] \in {"load", "resolve"}
        BY <3>2 DEF LoadCompileManifest, ToPkgFiles
      <4>3. Goes(pc[j], p) /\ p \in Working \cup Ended
        BY <4>1, <4>2
      <4> WITNESS p \in Working \cup Ended
      <4> QED
        BY <4>1, <4>3, Zenon
    <3>3. CASE CheckFiles(j)
      <4>1. PICK p \in {"embed", "failed"} :
              pc' = [pc EXCEPT ![j] = p] /\ (p = "embed" => Acceptable(pkg[j]))
        BY <3>3 DEF CheckFiles
      <4>2. pc[j] = "check"
        BY <3>3 DEF CheckFiles
      <4>3. Goes(pc[j], p) /\ p \in Working \cup Ended
        BY <4>1, <4>2
      <4> WITNESS p \in Working \cup Ended
      <4> QED
        BY <4>1, <4>3, Zenon
    <3>4. CASE CgoFlags(j) \/ RunCgo(j) \/ CheckCgoLdflagPragmas(j)
      <4>1. PICK p \in {"failed", "cgo", "cc", "compile"} : pc' = [pc EXCEPT ![j] = p]
        BY <3>4 DEF CgoFlags, RunCgo, CheckCgoLdflagPragmas
      <4>2. pc[j] \in {"flags", "cgo", "pragmas"}
        BY <3>4 DEF CgoFlags, RunCgo, CheckCgoLdflagPragmas
      <4>3. Goes(pc[j], p) /\ p \in Working \cup Ended
        BY <4>1, <4>2
      <4> WITNESS p \in Working \cup Ended
      <4> QED
        BY <4>1, <4>3, Zenon
    <3>5. CASE AssembleEnd(j)
      BY <3>5 DEF AssembleEnd
    <3> QED
      BY <1>2, <3>1, <3>2, <3>3, <3>4, <3>5
  <2>3. pc'[j] = p
    BY <1>1, <2>2 DEF TypeOK
  <2> QED
    BY <2>1, <2>2, <2>3, QuietObjects
<1>3. CASE Fails(j)
  <2>1. pc'[j] = "failed"
    BY <1>1, <1>3 DEF Fails, TypeOK
  <2> QED
    BY <2>1 DEF ObjectsRight, Checked, Embedded, Profiled, Merged, Packing
<1>4. CASE MergeImportcfg(j) \/ Preprofile(j) \/ WriteEmbedcfg(j) \/ GenerateSymabis(j)
           \/ TestLink(j)
  <2>1. Same
    BY <1>4 DEF MergeImportcfg, Preprofile, WriteEmbedcfg, GenerateSymabis, TestLink
  <2>2. PICK p \in Working :
          /\ pc' = [pc EXCEPT ![j] = p]
          /\ pc[j] \notin Packing \cup {"failed"} /\ p \notin Packing \cup {"asm", "pack"}
          /\ p \in Checked => pc[j] \in Checked
    BY <1>4 DEF MergeImportcfg, Preprofile, WriteEmbedcfg, GenerateSymabis, TestLink,
                Goto, Working, Packing, Checked, Embedded, Profiled, Merged
  <2>3. pc'[j] = p
    BY <1>1, <2>2 DEF TypeOK
  <2> QED
    BY <2>1, <2>2, <2>3, QuietObjects
<1>5. ASSUME NEW f \in ForCC(pkg[j]), CompileC(j, f) PROVE ObjectsRight(j)'
  <2>1. /\ pc[j] = "cc" /\ pc' = pc /\ pkg' = pkg
        /\ work'[j] = Put(work[j], ObjName(f), f) /\ built'[j] = built[j] \cup {f}
    BY <1>1, <1>5 DEF CompileC, TypeOK
  <2>2. \A g \in ForCC(pkg[j]) : ObjName(g) = ObjName(f) => g = f
    BY <1>1 DEF DistinctNames, ForCC, OfKind
  <2>3. ASSUME NEW g \in (built[j] \cup {f}) \cap ForCC(pkg[j])
        PROVE  ObjName(g) \in DOMAIN work'[j] /\ work'[j][ObjName(g)] = g
    <3>1. CASE g = f
      BY <2>1, <3>1 DEF Put
    <3>2. CASE g # f
      <4>1. ObjName(g) \in DOMAIN work[j] /\ work[j][ObjName(g)] = g
        BY <1>1, <2>1, <3>2 DEF ObjectsRight, Packing
      <4>2. ObjName(g) # ObjName(f)
        BY <2>2, <3>2
      <4> HIDE DEF ObjName
      <4> QED
        BY <2>1, <4>1, <4>2 DEF Put
    <3> QED
      BY <3>1, <3>2
  <2> QED
    BY <1>1, <2>1, <2>3 DEF ObjectsRight, Packing
<1>6. CASE RunCompile(j)
  <2>1. PICK p \in {"asm", "pack"} : pc' = [pc EXCEPT ![j] = p]
    BY <1>6 DEF RunCompile, Goto
  <2>2. pc[j] = "compile" /\ pc'[j] = p /\ UNCHANGED <<pkg, work, built>>
    BY <1>1, <1>6, <2>1 DEF RunCompile, Goto, TypeOK
  <2>3. GoAsm(pkg[j]) \cap built[j] = {}
    <3>1. built[j] = ForCC(pkg[j])
      BY <1>1, <2>2 DEF JobInv, BuiltRight
    <3> QED
      BY <3>1 DEF ForCC, GoAsm, OfKind, CgoExport
  <2> QED
    BY <1>1, <2>1, <2>2, <2>3
    DEF ObjectsRight, Packing, Checked, Embedded, Profiled, Merged
<1>7. ASSUME NEW f \in GoAsm(pkg[j]), Assemble(j, f) PROVE ObjectsRight(j)'
  <2> DEFINE object == InTrimPath(j, "o", f.stem)
  <2>1. /\ pc[j] = "asm"
        /\ disk' = [disk EXCEPT ![object] = AsmObject(f, Read(j, "go_asm.h"))]
        /\ built' = [built EXCEPT ![j] = built[j] \cup {f}]
        /\ UNCHANGED <<pc, pkg, work, archive>>
    BY <1>7 DEF Assemble
  <2>2. \A g \in GoAsm(pkg[j]) : g.stem \in Stems
    BY <1>1 DEF GoAsm, OfKind, Stems
  <2>3. \A g \in GoAsm(pkg[j]) : InTrimPath(j, "o", g.stem) \in DOMAIN disk
    BY <1>1, <2>2, InPath DEF Names, TypeOK
  <2>4. Read(j, "go_asm.h") = pkg[j]
    BY <1>1, <2>1 DEF JobInv, HasFiles
  <2>5. f \notin ForCC(pkg[j])
    BY DEF ForCC, GoAsm, OfKind, CgoExport
  <2>6. built'[j] = built[j] \cup {f}
    BY <1>1, <2>1 DEF TypeOK
  <2>7. ASSUME NEW g \in GoAsm(pkg[j]) \cap (built[j] \cup {f})
        PROVE  disk'[InTrimPath(j, "o", g.stem)] = AsmObject(g, pkg[j])
    <3>1. CASE g = f
      BY <2>1, <2>3, <2>4, <3>1
    <3>2. CASE g # f
      <4>1. ObjName(g) # ObjName(f) /\ g.kind = f.kind
        BY <1>1, <3>2 DEF DistinctNames, GoAsm, OfKind
      <4>2. g.stem # f.stem
        BY <4>1 DEF ObjName
      <4>3. InTrimPath(j, "o", g.stem) # object
        BY <4>2, Apart DEF Names
      <4>4. disk[InTrimPath(j, "o", g.stem)] = AsmObject(g, pkg[j])
        BY <1>1, <2>1, <3>2 DEF ObjectsRight
      <4> HIDE DEF object
      <4> QED
        BY <2>1, <2>3, <4>3, <4>4
    <3> QED
      BY <3>1, <3>2
  <2>8. ASSUME NEW g \in GoAsm(pkg[j]) \cap (built[j] \cup {f})
        PROVE  disk[InTrimPath(j, "o", g.stem)]' = AsmObject(g, pkg[j])
    BY <2>1, <2>7 DEF InTrimPath
  <2> HIDE DEF object
  <2> QED
    BY <1>1, <2>1, <2>5, <2>6, <2>8 DEF ObjectsRight, Packing
<1>8. CASE Pack(j)
  <2>1. PICK p \in Packing : pc' = [pc EXCEPT ![j] = p]
    BY <1>8 DEF Pack, Goto, AfterPack, Packing
  <2>2. pc[j] = "pack" /\ pc'[j] = p /\ UNCHANGED pkg
    BY <1>1, <1>8, <2>1 DEF Pack, Goto, TypeOK
  <2>3. archive'[j].objects = [f \in ToPack(j) |-> Packed(j, f)]
    BY <1>1, <1>8 DEF Pack, PutIn, TypeOK
  <2>4. ASSUME NEW f \in ToPack(j) PROVE Packed(j, f) = RightObject(pkg[j], f)
    <3>1. built[j] = ForCC(pkg[j]) \cup GoAsm(pkg[j])
      BY <1>1, <2>2 DEF JobInv, BuiltRight
    <3>2. CASE f \in GoAsm(pkg[j])
      <4>1. f.kind = "s"
        BY <3>2 DEF GoAsm, OfKind
      <4>2. disk[InTrimPath(j, "o", f.stem)] = AsmObject(f, pkg[j])
        BY <1>1, <2>2, <3>1, <3>2 DEF ObjectsRight
      <4> QED
        BY <4>1, <4>2 DEF Packed, RightObject
    <3>3. CASE f \in ForCC(pkg[j])
      <4>1. f.kind \notin {"s", "syso"}
        BY <3>3 DEF ForCC, OfKind, CgoExport
      <4>2. work[j][ObjName(f)] = f
        BY <1>1, <2>2, <3>1, <3>3 DEF ObjectsRight, Packing
      <4> QED
        BY <4>1, <4>2 DEF Packed, RightObject
    <3>4. CASE f \in OfKind(pkg[j], {"syso"})
      BY <3>4 DEF OfKind, Packed, RightObject
    <3> QED
      BY <3>1, <3>2, <3>3, <3>4 DEF ToPack
  <2>5. Acceptable(pkg[j])
    BY <1>1, <2>2 DEF ObjectsRight, Checked
  <2> QED
    BY <2>1, <2>2, <2>3, <2>4, <2>5 DEF ObjectsRight, Packing, RightObject
<1>9. CASE PackFails(j)
  <2>1. pc'[j] = "failed"
    BY <1>1, <1>9 DEF PackFails, Goto, TypeOK
  <2> QED
    BY <2>1 DEF ObjectsRight, Checked, Embedded, Profiled, Merged, Packing
<1>10. CASE PackFlags(j) \/ WriteEntry(j)
  <2>1. PICK p \in {"entry", "ok"} : pc' = [pc EXCEPT ![j] = p]
    BY <1>10 DEF PackFlags, WriteEntry, Goto
  <2>2. pc[j] \in Packing /\ pc'[j] = p /\ UNCHANGED pkg
    BY <1>1, <1>10, <2>1 DEF PackFlags, WriteEntry, Goto, TypeOK, Packing
  <2>3. archive'[j].objects = archive[j].objects
    <3>1. CASE PackFlags(j)
      BY <1>1, <3>1 DEF PackFlags, TypeOK
    <3>2. CASE WriteEntry(j)
      BY <3>2 DEF WriteEntry
    <3> QED
      BY <1>10, <3>1, <3>2
  <2> QED
    BY <1>1, <2>1, <2>2, <2>3 DEF ObjectsRight, Packing, Checked, RightObject
<1> QED
  BY <1>2, <1>3, <1>4, <1>5, <1>6, <1>7, <1>8, <1>9, <1>10 DEF Step

LEMMA NextObjectsInv ==
  DistinctNames /\ CompileInv /\ ObjectsInv /\ [Next \/ Done]_vars => ObjectsInv'
<1> SUFFICES ASSUME DistinctNames, CompileInv, ObjectsInv, [Next \/ Done]_vars,
                    NEW k \in Job
             PROVE  ObjectsRight(k)'
  BY DEF ObjectsInv
<1>1. CASE UNCHANGED vars
  BY <1>1 DEF vars, ObjectsInv, ObjectsRight, InTrimPath
<1>2. ASSUME NEW j \in Job, Step(j) PROVE ObjectsRight(k)'
  <2>1. CASE k = j
    BY <1>2, <2>1, StepObjects
  <2>2. CASE k # j
    <3>1. work'[k] = work[k]
      <4>1. ASSUME NEW f, CompileC(j, f) PROVE work'[k] = work[k]
        BY <2>2, <4>1 DEF CompileC, CompileInv, TypeOK
      <4>2. CASE \A f : ~CompileC(j, f)
        BY <1>2, <4>2 DEF Step, Start, LoadCompileManifest, MergeImportcfg, ToPkgFiles,
           Preprofile, CheckFiles, WriteEmbedcfg, CgoFlags, RunCgo, TestLink,
           GenerateSymabis, CheckCgoLdflagPragmas, RunCompile, Assemble, AssembleEnd,
           Pack, PackFails, PackFlags, WriteEntry, Fails
      <4> QED
        BY <4>1, <4>2
    <3> QED
      BY <1>2, <2>2, <3>1, StepLocal, OtherObjects
  <2> QED
    BY <2>1, <2>2
<1> QED
  BY <1>1, <1>2 DEF Next, Done

\* If no two sources of a package share a name but for the extension, no
\* object overwrites another, and an archive that was made without an error
\* has the object of every source that is not Go.
THEOREM NothingIsMissing == DistinctNames /\ Spec => []CompleteArchive
<1> SUFFICES ASSUME DistinctNames PROVE Spec => []CompleteArchive
  OBVIOUS
<1>1. Init => CompileInv /\ ObjectsInv
  BY InitCompileInv, InitObjectsInv
<1>2. CompileInv /\ ObjectsInv /\ [Next \/ Done]_vars => (CompileInv /\ ObjectsInv)'
  BY NextCompileInv, NextObjectsInv
<1>3. CompileInv /\ ObjectsInv => CompleteArchive
  BY ObjectsInvImplies
<1> QED
  BY <1>1, <1>2, <1>3, PTL DEF Spec
-----------------------------------------------------------------------------
(***************************************************************************)
(* A package whose test link failed is marked for external linking.        *)
(***************************************************************************)
Linked == {"symabis", "pragmas", "compile", "asm", "pack"}

\* From the test link on its outcome is known; the archive is made from it.
LinkModeRight(j) ==
  /\ UsesCgo(pkg[j]) /\ pc[j] \in Linked => dyn[j] \in {"imports", "fail"}
  /\ pc[j] \in {"asm", "pack"} => (archive[j].go.dynimport <=> dyn[j] = "imports")
  /\ UsesCgo(pkg[j]) /\ pc[j] \in Packing =>
       (archive[j].go.dynimport <=> "dynimportfail" \notin archive[j].members)

LinkModeInv == TypeOK /\ \A j \in Job : LinkModeRight(j)

LEMMA InitLinkModeInv == Init => LinkModeInv
  BY InitCompileInv DEF Init, CompileInv, LinkModeInv, LinkModeRight, Linked, Packing

LEMMA LinkModeInvImplies == LinkModeInv => ExternalWhenUnlinked
  BY DEF LinkModeInv, LinkModeRight, ExternalWhenUnlinked, Packing

\* A step of a job changes what that job knows only.
LEMMA StepOwn ==
  ASSUME TypeOK, NEW j \in Job, Step(j), NEW k \in Job \ {j}
  PROVE  pc'[k] = pc[k] /\ pkg'[k] = pkg[k] /\ dyn'[k] = dyn[k] /\ archive'[k] = archive[k]
<1>1. ASSUME NEW f, CompileC(j, f) \/ Assemble(j, f)
      PROVE  UNCHANGED <<pc, pkg, dyn, archive>>
  BY <1>1 DEF CompileC, Assemble
<1>2. CASE Start(j) \/ LoadCompileManifest(j) \/ MergeImportcfg(j) \/ ToPkgFiles(j)
           \/ Preprofile(j) \/ CheckFiles(j) \/ WriteEmbedcfg(j) \/ CgoFlags(j) \/ RunCgo(j)
  BY <1>2 DEF Start, LoadCompileManifest, MergeImportcfg, ToPkgFiles, Preprofile,
     CheckFiles, WriteEmbedcfg, CgoFlags, RunCgo, Goto, TypeOK
<1>3. CASE TestLink(j) \/ GenerateSymabis(j) \/ CheckCgoLdflagPragmas(j) \/ RunCompile(j)
  BY <1>3 DEF TestLink, GenerateSymabis, CheckCgoLdflagPragmas, RunCompile, Goto, TypeOK
<1>4. CASE AssembleEnd(j) \/ Pack(j) \/ PackFails(j) \/ PackFlags(j) \/ WriteEntry(j)
           \/ Fails(j)
  BY <1>4 DEF AssembleEnd, Pack, PackFails, PackFlags, PutIn, WriteEntry, Fails, Goto, TypeOK
<1> QED
  BY <1>1, <1>2, <1>3, <1>4 DEF Step

LEMMA StepLinkMode ==
  ASSUME CompileInv, NEW j \in Job, LinkModeRight(j), Step(j)
  PROVE  LinkModeRight(j)'
<1>1. TypeOK
  BY DEF CompileInv
<1>3. CASE Start(j) \/ LoadCompileManifest(j) \/ MergeImportcfg(j) \/ ToPkgFiles(j)
           \/ Preprofile(j) \/ CheckFiles(j) \/ CgoFlags(j) \/ RunCgo(j) \/ Fails(j)
  <2> DEFINE Early == {"load", "merge", "resolve", "profile", "check", "embed", "cgo",
                       "cc", "failed"}
  <2>1. \E p \in Early : pc' = [pc EXCEPT ![j] = p]
    BY <1>3 DEF Start, LoadCompileManifest, MergeImportcfg, ToPkgFiles, Preprofile,
       CheckFiles, CgoFlags, RunCgo, Fails, Goto
  <2>2. pc'[j] \in Early
    BY <1>1, <2>1 DEF TypeOK
  <2> QED
    BY <2>2 DEF LinkModeRight, Linked, Packing
<1>4. CASE WriteEmbedcfg(j)
  <2>1. PICK p : pc' = [pc EXCEPT ![j] = p] /\ p \in {"flags", "symabis", "compile"}
                 /\ (UsesCgo(pkg[j]) => p = "flags")
    BY <1>4 DEF WriteEmbedcfg, Goto
  <2>2. pkg' = pkg
    BY <1>4 DEF WriteEmbedcfg
  <2> QED
    BY <1>1, <2>1, <2>2 DEF TypeOK, LinkModeRight, Linked, Packing
<1>5. CASE \E f : CompileC(j, f) \/ Assemble(j, f)
  BY <1>5 DEF CompileC, Assemble, LinkModeRight
<1>6. CASE TestLink(j)
  <2>1. PICK p : pc' = [pc EXCEPT ![j] = p] /\ p \in {"symabis", "pragmas"}
    BY <1>6 DEF TestLink, Goto
  <2>2. dyn'[j] \in {"imports", "fail"}
    BY <1>1, <1>6 DEF TestLink, TypeOK
  <2> QED
    BY <1>1, <2>1, <2>2 DEF TypeOK, LinkModeRight, Packing
<1>7. CASE GenerateSymabis(j) \/ CheckCgoLdflagPragmas(j)
  <2>1. PICK p : pc' = [pc EXCEPT ![j] = p] /\ p \in {"pragmas", "compile", "failed"}
    BY <1>7 DEF GenerateSymabis, CheckCgoLdflagPragmas, Goto
  <2>2. pc[j] \in Linked /\ UNCHANGED <<pkg, dyn>>
    BY <1>7 DEF GenerateSymabis, CheckCgoLdflagPragmas, Goto, Linked
  <2> QED
    BY <1>1, <2>1, <2>2 DEF TypeOK, LinkModeRight, Linked, Packing
<1>8. CASE RunCompile(j)
  <2>1. PICK p : pc' = [pc EXCEPT ![j] = p] /\ p \in {"asm", "pack"}
    BY <1>8 DEF RunCompile, Goto
  <2>2. pc[j] = "compile" /\ UNCHANGED <<pkg, dyn>>
    BY <1>8 DEF RunCompile, Goto
  <2>3. archive'[j].go.dynimport = (dyn[j] = "imports")
    BY <1>1, <1>8 DEF RunCompile, GoInputs, TypeOK
  <2> QED
    BY <1>1, <2>1, <2>2, <2>3 DEF TypeOK, LinkModeRight, Linked, Packing
<1>9. CASE AssembleEnd(j)
  <2>1. pc[j] = "asm" /\ pc' = [pc EXCEPT ![j] = "pack"] /\ UNCHANGED <<pkg, dyn, archive>>
    BY <1>9 DEF AssembleEnd, Goto
  <2> QED
    BY <1>1, <2>1 DEF TypeOK, LinkModeRight, Linked, Packing
<1>10. CASE Pack(j)
  <2>1. PICK p : pc' = [pc EXCEPT ![j] = p] /\ p \in Packing
    BY <1>10 DEF Pack, Goto, AfterPack, Packing
  <2>2. pc[j] = "pack" /\ UNCHANGED <<pkg, dyn>>
    BY <1>10 DEF Pack, Goto
  <2>3. archive'[j].go = archive[j].go /\ archive'[j].members = Markers(j)
    BY <1>1, <1>10 DEF Pack, PutIn, TypeOK
  <2>4. "dynimportfail" \in Markers(j) <=> dyn[j] = "fail"
    BY DEF Markers
  <2>5. pc'[j] = p
    BY <1>1, <2>1 DEF TypeOK
  <2>6. UsesCgo(pkg[j]) => dyn[j] \in {"imports", "fail"}
    BY <2>2 DEF LinkModeRight, Linked
  <2>7. archive[j].go.dynimport <=> dyn[j] = "imports"
    BY <2>2 DEF LinkModeRight
  <2> QED
    BY <2>1, <2>2, <2>3, <2>4, <2>5, <2>6, <2>7 DEF LinkModeRight, Packing, Linked
<1>11. CASE PackFails(j)
  <2>1. pc'[j] = "failed"
    BY <1>1, <1>11 DEF PackFails, Goto, TypeOK
  <2> QED
    BY <2>1 DEF LinkModeRight, Linked, Packing
<1>12. CASE PackFlags(j) \/ WriteEntry(j)
  <2>1. pc[j] \in Packing /\ pc'[j] \in {"entry", "ok"} /\ pkg' = pkg
    BY <1>1, <1>12 DEF PackFlags, WriteEntry, Goto, TypeOK, Packing
  <2>2. /\ archive'[j].go = archive[j].go
        /\ "dynimportfail" \in archive'[j].members <=> "dynimportfail" \in archive[j].members
    <3>1. CASE PackFlags(j)
      BY <1>1, <3>1 DEF PackFlags, TypeOK
    <3>2. CASE WriteEntry(j)
      BY <3>2 DEF WriteEntry
    <3> QED
      BY <1>12, <3>1, <3>2
  <2> QED
    BY <2>1, <2>2 DEF LinkModeRight, Linked, Packing
<1> QED
  BY <1>3, <1>4, <1>5, <1>6, <1>7, <1>8, <1>9, <1>10, <1>11, <1>12 DEF Step

LEMMA NextLinkModeInv ==
  CompileInv /\ LinkModeInv /\ [Next \/ Done]_vars => LinkModeInv'
<1> SUFFICES ASSUME CompileInv, LinkModeInv, [Next \/ Done]_vars PROVE LinkModeInv'
  OBVIOUS
<1>1. TypeOK'
  BY NextCompileInv DEF CompileInv
<1>2. CASE UNCHANGED vars
  BY <1>1, <1>2 DEF vars, LinkModeInv, LinkModeRight
<1>3. ASSUME NEW j \in Job, Step(j), NEW k \in Job PROVE LinkModeRight(k)'
  <2>1. CASE k = j
    BY <1>3, <2>1, StepLinkMode DEF LinkModeInv
  <2>2. CASE k # j
    <3>1. /\ pc'[k] = pc[k] /\ pkg'[k] = pkg[k] /\ dyn'[k] = dyn[k]
          /\ archive'[k] = archive[k]
      BY <1>3, <2>2, StepOwn DEF LinkModeInv
    <3> QED
      BY <3>1 DEF LinkModeInv, LinkModeRight
  <2> QED
    BY <2>1, <2>2
<1> QED
  BY <1>1, <1>2, <1>3 DEF LinkModeInv, Next, Done

\* Of every package compiled without an error: its archive lists its dynamic
\* imports, or has the member by which the linker links it externally.
THEOREM UnlinkedIsExternal == Spec => []ExternalWhenUnlinked
<1>1. Init => CompileInv /\ LinkModeInv
  BY InitCompileInv, InitLinkModeInv
<1>2. CompileInv /\ LinkModeInv /\ [Next \/ Done]_vars => (CompileInv /\ LinkModeInv)'
  BY NextCompileInv, NextLinkModeInv
<1>3. CompileInv /\ LinkModeInv => ExternalWhenUnlinked
  BY LinkModeInvImplies
<1> QED
  BY <1>1, <1>2, <1>3, PTL DEF Spec
=============================================================================
