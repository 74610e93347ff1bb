----------------------------- MODULE MCCompile -----------------------------
(***************************************************************************)
(* Instances of Compile for TLC: a compile-package command with an         *)
(* interface and another call of CompileGoPackage in one directory, in     *)
(* either order.                                                           *)
(***************************************************************************)
EXTENDS Compile, TLC

File(kind, stem, ext) == [kind |-> kind, stem |-> stem, ext |-> ext]

Package(uid, files) ==
  [uid |-> uid, files |-> files, embed |-> FALSE, pgo |-> FALSE, manifest |-> "current",
   safe |-> TRUE, flagsAllowed |-> TRUE, pragmasAllowed |-> TRUE,
   pkgConfig |-> FALSE, external |-> FALSE]

X == File("go", "x", "go")

\* Go alone, with assembly of the same name in two packages of one uid, and
\* with everything.
Plain == [Package("m_a", {X}) EXCEPT !.embed = TRUE, !.pgo = TRUE]
Assembly(a) == [Package("m_a", {X, a, File("syso", "x", "syso")})
                  EXCEPT !.embed = TRUE, !.pgo = TRUE]
Cgo == [Package("m_c", {File("cgo", "y", "go"), File("c", "x", "c"),
                        File("cxx", "x", "cc"), File("S", "x", "S"),
                        File("s", "z", "s")})
          EXCEPT !.pkgConfig = TRUE, !.external = TRUE]

GoodPackages ==
  {Plain, Cgo, Assembly(File("s", "x", "s")), Assembly(File("s", "y", "s"))}

BadPackages ==
  { Package("m_a", {}), Package("m_a", {X, File("m", "x", "m")}),
    [Plain EXCEPT !.safe = FALSE],
    [Plain EXCEPT !.manifest = "outdated"],
    [Plain EXCEPT !.manifest = "without files"],
    [Cgo EXCEPT !.flagsAllowed = FALSE],
    [Cgo EXCEPT !.pragmasAllowed = FALSE] }

SomePackages == GoodPackages \cup BadPackages

\* Two C++ files, x.cc and x.cpp.
SameStem ==
  {Package("m_c", {File("cgo", "y", "go"), File("cxx", "x", "cc"),
                   File("cxx", "x", "cpp")})}

OneDir == 1 :> "b" @@ 2 :> "b"
OneOnly == 1 :> "b"
=============================================================================
