------------------------------ MODULE Compile ------------------------------
(***************************************************************************)
(* Compiling one package: `go2nix compile-package`                         *)
(* (go/go2nix/cmd/go2nix/compile.go) and CompileGoPackage                  *)
(* (go/go2nix/pkg/compile), which link-binary and the test runner call     *)
(* without the command around it.                                          *)
(*                                                                         *)
(* A job is one call.  What one tool leaves for the next lies in files:    *)
(* those in TrimPath are named by the import path, and go_asm.h by nothing *)
(* at all; those of cgo lie in a directory of the job's own, cgowork.      *)
(* link-binary compiles several packages "main" at once, each with a       *)
(* TrimPath of its own; the test runner compiles one after the other in    *)
(* one TrimPath.                                                           *)
(*                                                                         *)
(* A package is its import path as file names have it, and its source      *)
(* files; a file is the kind of list it is in (see ManifestFiles), its     *)
(* name without the extension, and the extension.                          *)
(*                                                                         *)
(* Definitions under "Seeded fault" are no part of the model: each is the  *)
(* definition below it with a mistake the property named there must catch. *)
(***************************************************************************)
EXTENDS FiniteSets

CONSTANTS
  Job,        \* calls of CompileGoPackage
  Command,    \* those that are compile-package commands
  Split,      \* those commands that have an --iface-output
  Dir,        \* directories for temporary files
  TrimPath,   \* TrimPath[j]: the one of job j
  Packages,   \* the packages there are
  Nothing     \* what is in a file that is not there

\* Of a package: uid, files; embed: it has embed patterns; pgo: it is
\* compiled with a profile of its own; manifest: what its
\* compile manifest is like; safe: no file is called _cgo_* or like a flag;
\* flagsAllowed: checkCompilerFlags and checkLinkerFlags accept its #cgo
\* flags and pkg-config's; pragmasAllowed: checkCgoLdflagPragmas accepts what
\* cgo wrote; pkgConfig: pkg-config printed linker flags; external: its flags
\* do not suit internal linking.
ASSUME CompileAssumption ==
  /\ Split \subseteq Command /\ Command \subseteq Job
  /\ TrimPath \in [Job -> Dir]
  /\ Nothing \notin Packages
  /\ \A p \in Packages :
       p.manifest \in {"current", "outdated", "without files"}

OfKind(p, kinds) == {f \in p.files : f.kind \in kinds}

\* The lists GoFiles and CgoFiles.
UsesCgo(p) == OfKind(p, {"cgo"}) # {}

\* .s files are for the Go assembler; .S and .sx files, which are listed only
\* beside cgo files, are for the C compiler.
GoAsm(p) == OfKind(p, {"s"})

CgoExport == [kind |-> "export", stem |-> "_cgo_export", ext |-> "c"]

\* What a C, C++ or Fortran compiler makes an object of: _cgo_export.c, the
\* .cgo2.c file cgo makes of each cgo file, and the package's own.
ForCC(p) ==
  IF UsesCgo(p)
  THEN {CgoExport} \cup OfKind(p, {"cgo", "c", "S", "cxx", "f"})
  ELSE {}

\* The name of the object in cgowork: the suffix tells kinds apart, and what
\* the name had for an extension is gone.
ObjName(f) == <<f.stem, f.kind>>

\* A file in TrimPath.
Path == {"importcfg", "pgoprofile", "embedcfg", "symabis", "go_asm.h", "o"}
          \X Dir \X ({p.uid : p \in Packages} \cup {Nothing})
          \X ((UNION {{f.stem : f \in p.files} : p \in Packages}) \cup {Nothing})

VARIABLES
  pc,       \* where job j is
  pkg,      \* the package it compiles
  disk,     \* the files in the temporary directories
  work,     \* work[j]: the objects in cgowork, by name
  built,    \* built[j]: the sources whose objects are to be packed
  dyn,      \* what came of cgo's test link
  archive,  \* archive[j]: what is in --output
  iface,    \* iface[j]: the package whose exports are in --iface-output
  entry     \* entry[j]: what the entry written for consumers names

vars == <<pc, pkg, disk, work, built, dyn, archive, iface, entry>>

Ended == {"ok", "failed"}
Working == {"load", "merge", "resolve", "profile", "check", "embed", "flags", "cgo",
            "cc", "symabis", "pragmas", "compile", "asm", "pack",
            "pack flags", "entry"}

\* The manifests of link-binary and of the test runner are read before.
Init ==
  /\ pc = [j \in Job |-> "idle"]
  /\ pkg \in [Job -> Packages]
  /\ \A j \in Job \ Command : pkg[j].manifest = "current"
  /\ disk = [x \in Path |-> Nothing]
  /\ work = [j \in Job |-> <<>>]
  /\ built = [j \in Job |-> {}]
  /\ dyn = [j \in Job |-> "none"]
  /\ archive = [j \in Job |-> Nothing]
  /\ iface = [j \in Job |-> Nothing]
  /\ entry = [j \in Job |-> "none"]

Goto(j, from, to) ==
  /\ pc[j] = from
  /\ pc' = [pc EXCEPT ![j] = to]

InTrimPath(j, name, stem) ==
  <<name, TrimPath[j],
    IF name \in {"importcfg", "go_asm.h"} THEN Nothing ELSE pkg[j].uid, stem>>

Read(j, name) == disk[InTrimPath(j, name, Nothing)]

Write(j, name, content) ==
  disk' = [disk EXCEPT ![InTrimPath(j, name, Nothing)] = content]

\* Seeded fault: several compiles at once in one directory (OwnInputsOnly).
MayStartAnytime(j) == pc[j] = "idle"

\* Whoever compiles several packages at once gives each a directory.
MayStart(j) ==
  /\ pc[j] = "idle"
  /\ \A k \in Job \ {j} : TrimPath[k] = TrimPath[j] => pc[k] \notin Working

Start(j) ==
  /\ MayStart(j)
  /\ Goto(j, "idle", IF j \in Command THEN "load" ELSE "profile")
  /\ UNCHANGED <<pkg, disk, work, built, dyn, archive, iface, entry>>

\* A tool or a file fails.  (cgowork, which no other job knows, is removed
\* when a job ends; here it stays.)
Fails(j) ==
  /\ pc[j] \in Working
  /\ pc' = [pc EXCEPT ![j] = "failed"]
  /\ UNCHANGED <<pkg, disk, work, built, dyn, archive, iface, entry>>

-----------------------------------------------------------------------------
(***************************************************************************)
(* The command, up to CompileGoPackage.                                    *)
(***************************************************************************)
LoadCompileManifest(j) ==
  /\ Goto(j, "load", IF pkg[j].manifest = "outdated" THEN "failed" ELSE "merge")
  /\ UNCHANGED <<pkg, disk, work, built, dyn, archive, iface, entry>>

\* Into $NIX_BUILD_TOP, which is TrimPath if there is no --trim-path.
MergeImportcfg(j) ==
  /\ Goto(j, "merge", "resolve")
  /\ Write(j, "importcfg", pkg[j])
  /\ UNCHANGED <<pkg, work, built, dyn, archive, iface, entry>>

\* ToPkgFiles, and the manifest of an older plugin that has no files.
ToPkgFiles(j) ==
  /\ Goto(j, "resolve",
          IF pkg[j].manifest = "without files" THEN "failed" ELSE "profile")
  /\ UNCHANGED <<pkg, disk, work, built, dyn, archive, iface, entry>>

-----------------------------------------------------------------------------
(***************************************************************************)
(* CompileGoPackage.                                                       *)
(***************************************************************************)
Preprofile(j) ==
  /\ Goto(j, "profile", "check")
  /\ IF pkg[j].pgo THEN Write(j, "pgoprofile", pkg[j]) ELSE UNCHANGED disk
  /\ UNCHANGED <<pkg, work, built, dyn, archive, iface, entry>>

\* Seeded fault: sources that cannot be compiled are left out
\* (CompleteArchive).
AcceptableGo(p) == p.safe /\ OfKind(p, {"go", "cgo"}) # {}

Acceptable(p) ==
  /\ p.safe
  /\ OfKind(p, {"go", "cgo"}) # {}
  /\ OfKind(p, {"m", "swig"}) = {}

CheckFiles(j) ==
  /\ Goto(j, "check", IF Acceptable(pkg[j]) THEN "embed" ELSE "failed")
  /\ UNCHANGED <<pkg, disk, work, built, dyn, archive, iface, entry>>

\* compileCgo, compileWithAsm or compileGo.
WriteEmbedcfg(j) ==
  /\ Goto(j, "embed", IF UsesCgo(pkg[j]) THEN "flags"
                      ELSE IF GoAsm(pkg[j]) # {} THEN "symabis"
                      ELSE "compile")
  /\ IF pkg[j].embed THEN Write(j, "embedcfg", pkg[j]) ELSE UNCHANGED disk
  /\ UNCHANGED <<pkg, work, built, dyn, archive, iface, entry>>

\* The #cgo directives, pkg-config, and the check of both.
CgoFlags(j) ==
  /\ Goto(j, "flags", IF pkg[j].flagsAllowed THEN "cgo" ELSE "failed")
  /\ UNCHANGED <<pkg, disk, work, built, dyn, archive, iface, entry>>

RunCgo(j) ==
  /\ Goto(j, "cgo", "cc")
  /\ UNCHANGED <<pkg, disk, work, built, dyn, archive, iface, entry>>

Put(f, x, v) == [y \in DOMAIN f \cup {x} |-> IF y = x THEN v ELSE f[y]]

\* compileCFiles: one object after the other, here in any order.
CompileC(j, f) ==
  /\ pc[j] = "cc"
  /\ f \in ForCC(pkg[j]) \ built[j]
  /\ work' = [work EXCEPT ![j] = Put(@, ObjName(f), f)]
  /\ built' = [built EXCEPT ![j] = @ \cup {f}]
  /\ UNCHANGED <<pc, pkg, disk, dyn, archive, iface, entry>>

\* cgoTestLinkAndDynimport: a link that fails leaves the marker
\* dynimportfail, one that succeeds the file _cgo_import.
TestLink(j) ==
  /\ Goto(j, "cc", IF GoAsm(pkg[j]) # {} THEN "symabis" ELSE "pragmas")
  /\ built[j] = ForCC(pkg[j])
  /\ \E d \in {"imports", "fail"} : dyn' = [dyn EXCEPT ![j] = d]
  /\ UNCHANGED <<pkg, disk, work, built, archive, iface, entry>>

\* gensymabis, with an empty go_asm.h.
GenerateSymabis(j) ==
  /\ Goto(j, "symabis", IF UsesCgo(pkg[j]) THEN "pragmas" ELSE "compile")
  /\ disk' = [disk EXCEPT ![InTrimPath(j, "go_asm.h", Nothing)] = "empty",
                          ![InTrimPath(j, "symabis", Nothing)] = pkg[j]]
  /\ UNCHANGED <<pkg, work, built, dyn, archive, iface, entry>>

CheckCgoLdflagPragmas(j) ==
  /\ Goto(j, "pragmas", IF pkg[j].pragmasAllowed THEN "compile" ELSE "failed")
  /\ UNCHANGED <<pkg, disk, work, built, dyn, archive, iface, entry>>

\* What the compiler reads beside the sources.
GoInputs(j) ==
  [importcfg |-> IF j \in Command THEN Read(j, "importcfg") ELSE pkg[j],
   profile |-> IF pkg[j].pgo THEN Read(j, "pgoprofile") ELSE Nothing,
   embedcfg |-> IF pkg[j].embed THEN Read(j, "embedcfg") ELSE Nothing,
   symabis |-> IF GoAsm(pkg[j]) # {} THEN Read(j, "symabis") ELSE Nothing,
   dynimport |-> dyn[j] = "imports"]

\* go tool compile starts the archive anew and, if there is assembly, writes
\* go_asm.h.
RunCompile(j) ==
  /\ Goto(j, "compile", IF GoAsm(pkg[j]) # {} THEN "asm" ELSE "pack")
  /\ archive' = [archive EXCEPT ![j] =
                   [go |-> GoInputs(j), objects |-> <<>>, members |-> {}]]
  /\ iface' = IF j \in Split THEN [iface EXCEPT ![j] = pkg[j]] ELSE iface
  /\ IF GoAsm(pkg[j]) # {} THEN Write(j, "go_asm.h", pkg[j]) ELSE UNCHANGED disk
  /\ UNCHANGED <<pkg, work, built, dyn, entry>>

AsmObject(f, header) == [source |-> f, header |-> header]

Assemble(j, f) ==
  /\ pc[j] = "asm"
  /\ f \in GoAsm(pkg[j]) \ built[j]
  /\ disk' = [disk EXCEPT ![InTrimPath(j, "o", f.stem)] =
                             AsmObject(f, Read(j, "go_asm.h"))]
  /\ built' = [built EXCEPT ![j] = @ \cup {f}]
  /\ UNCHANGED <<pc, pkg, work, dyn, archive, iface, entry>>

AssembleEnd(j) ==
  /\ Goto(j, "asm", "pack")
  /\ GoAsm(pkg[j]) \subseteq built[j]
  /\ UNCHANGED <<pkg, disk, work, built, dyn, archive, iface, entry>>

-----------------------------------------------------------------------------
(***************************************************************************)
(* packAppend, which always appends to --output.                           *)
(***************************************************************************)
ToPack(j) == built[j] \cup OfKind(pkg[j], {"syso"})

\* The file that is packed for f: found by its name when it is packed.
Packed(j, f) ==
  CASE f.kind = "s" -> disk[InTrimPath(j, "o", f.stem)]
    [] f.kind = "syso" -> f
    [] OTHER -> work[j][ObjName(f)]

\* Seeded fault: no marker once the test link has failed
\* (ExternalWhenUnlinked).
MarkersWithoutFail(j) ==
  IF UsesCgo(pkg[j]) /\ pkg[j].external THEN {"preferlinkext"} ELSE {}

\* Members by which cmd/link chooses external linking.
Markers(j) ==
  (IF dyn[j] = "fail" THEN {"dynimportfail"} ELSE {})
    \cup IF UsesCgo(pkg[j]) /\ pkg[j].external THEN {"preferlinkext"} ELSE {}

PutIn(j, fs, members) ==
  archive' = [archive EXCEPT ![j] =
                [go |-> @.go, objects |-> [f \in fs |-> Packed(j, f)],
                 members |-> members]]

AfterPack(j) ==
  IF UsesCgo(pkg[j]) /\ pkg[j].pkgConfig THEN "pack flags"
  ELSE IF j \in Command THEN "entry" ELSE "ok"

Pack(j) ==
  /\ Goto(j, "pack", AfterPack(j))
  /\ PutIn(j, ToPack(j), Markers(j))
  /\ UNCHANGED <<pkg, disk, work, built, dyn, iface, entry>>

\* Seeded fault: an archive that is packed in part is good enough
\* (NoEntryForPartial).
PackFailsUnseen(j) ==
  /\ Goto(j, "pack", AfterPack(j))
  /\ \E fs \in SUBSET ToPack(j) : PutIn(j, fs, {})
  /\ UNCHANGED <<pkg, disk, work, built, dyn, iface, entry>>

\* Some of it is written.
PackFails(j) ==
  /\ Goto(j, "pack", "failed")
  /\ \E fs \in SUBSET ToPack(j) : PutIn(j, fs, {})
  /\ UNCHANGED <<pkg, disk, work, built, dyn, iface, entry>>

PackFlags(j) ==
  /\ Goto(j, "pack flags", IF j \in Command THEN "entry" ELSE "ok")
  /\ archive' = [archive EXCEPT ![j] =
                   [go |-> @.go, objects |-> @.objects,
                    members |-> @.members \cup {"_cgo_flags"}]]
  /\ UNCHANGED <<pkg, disk, work, built, dyn, iface, entry>>

\* The entry names the interface if there is one.
WriteEntry(j) ==
  /\ Goto(j, "entry", "ok")
  /\ entry' = [entry EXCEPT ![j] = IF j \in Split THEN "iface" ELSE "output"]
  /\ UNCHANGED <<pkg, disk, work, built, dyn, archive, iface>>

Step(j) ==
  \/ Start(j) \/ LoadCompileManifest(j) \/ MergeImportcfg(j) \/ ToPkgFiles(j)
  \/ Preprofile(j) \/ CheckFiles(j) \/ WriteEmbedcfg(j) \/ CgoFlags(j) \/ RunCgo(j)
  \/ \E f \in ForCC(pkg[j]) : CompileC(j, f)
  \/ TestLink(j) \/ GenerateSymabis(j) \/ CheckCgoLdflagPragmas(j)
  \/ RunCompile(j)
  \/ \E f \in GoAsm(pkg[j]) : Assemble(j, f)
  \/ AssembleEnd(j) \/ Pack(j) \/ PackFails(j) \/ PackFlags(j)
  \/ WriteEntry(j)
  \/ Fails(j)

Next == \E j \in Job : Step(j)

\* Every call has ended.
Done ==
  /\ \A j \in Job : pc[j] \in Ended
  /\ UNCHANGED vars

Spec == Init /\ [][Next \/ Done]_vars
-----------------------------------------------------------------------------
(***************************************************************************)
(* Properties                                                              *)
(***************************************************************************)
\* The object of f that belongs into the archive of p.
RightObject(p, f) == IF f.kind = "s" THEN AsmObject(f, p) ELSE f

\* Whatever is in --output or on its way there was made from the package's
\* own files: no generated file of another package with the same uid, none
\* left by an earlier compile, and never the empty go_asm.h.
OwnInputsOnly ==
  \A j \in Job : archive[j] # Nothing =>
    /\ archive[j].go.importcfg = pkg[j]
    /\ archive[j].go.profile = IF pkg[j].pgo THEN pkg[j] ELSE Nothing
    /\ archive[j].go.embedcfg = IF pkg[j].embed THEN pkg[j] ELSE Nothing
    /\ archive[j].go.symabis = IF GoAsm(pkg[j]) # {} THEN pkg[j] ELSE Nothing
    /\ \A f \in DOMAIN archive[j].objects :
         f.kind = "s" => archive[j].objects[f].header = pkg[j]

\* "fail fast with a clear message rather than producing an archive that is
\* missing object code (which would only blow up at final link [...])": the
\* archive of a compile that succeeded has the object of every source that
\* is not Go.
CompleteArchive ==
  \A j \in Job : pc[j] \in {"entry", "ok"} =>
    \A f \in pkg[j].files : f.kind \notin {"go", "cgo"} =>
      \E g \in DOMAIN archive[j].objects :
        archive[j].objects[g] = RightObject(pkg[j], f)

\* Who reads an entry finds a package that is whole, by the file that is
\* meant for compiles: the interface if there is one, whose contents then
\* are the package's exports, and otherwise the archive.
NoEntryForPartial ==
  \A j \in Job : entry[j] # "none" =>
    /\ DOMAIN archive[j].objects = ForCC(pkg[j]) \cup OfKind(pkg[j], {"s", "syso"})
    /\ entry[j] = IF iface[j] = pkg[j] THEN "iface" ELSE "output"

\* A package whose test link failed has no list of dynamic imports in it, and
\* then the linker is told to link it externally.
ExternalWhenUnlinked ==
  \A j \in Job : (pc[j] = "ok" /\ UsesCgo(pkg[j])) =>
    (archive[j].go.dynimport <=> "dynimportfail" \notin archive[j].members)
=============================================================================
