---------------------------- MODULE MCTestRunner ----------------------------
(***************************************************************************)
(* Instances of TestRunner for TLC.                                        *)
(***************************************************************************)
EXTENDS TestRunner

\* Every import graph of four packages, up to renaming: a package imports
\* some of those ranked below it.  Ranks do not follow the order of names.
Rank == <<2, 4, 1, 3>>
Below(p) == {q \in Pkg : Rank[q] < Rank[p]}
AllGraphs == {g \in [Pkg -> SUBSET Pkg] : \A p \in Pkg : g[p] \subseteq Below(p)}

\* The modules of third-party packages are not replaced by local ones: they
\* import no local package.
NoLocalImports == {g \in AllGraphs : \A p \in ThirdParty : g[p] \cap Local = {}}

\* Nothing imports package 3, so packages 1 and 2 are never both recompiled.
ThreeOnTop == {g \in NoLocalImports : \A p \in Pkg : 3 \notin g[p]}

\* All file names differ; or packages 1 and 2 have one, like a/b and a_b.
OneEach == [p \in Local |-> p]
Colliding == [p \in Local |-> IF p = 2 THEN 1 ELSE p]
=============================================================================
