----------------------------- MODULE MCResolve -----------------------------
(***************************************************************************)
(* Instances of Resolve for TLC: a project with two binaries, a library of *)
(* its own, and a module m that is required, bumped or replaced by a fork. *)
(***************************************************************************)
EXTENDS Resolve

OwnerOf == [p \in Foreign |-> "m"]

\* Package m/a imports m/b from version 2 on; the fork is as version 1.
TreeImports ==
  [t \in Module |->
     [p \in Foreign |-> IF p = "m/a" /\ t = <<"m", 2>> THEN {"m/b"} ELSE {}]]

GoMod(require, replace) == [require |-> require, replace |-> replace]
m(v) == "m" :> v
Forked == <<"m", AnyVersion>> :> <<"fork", 1>>

\* x imports the module, y only the library.
Base ==
  [gomod |-> GoMod(m(1), <<>>),
   imports |-> "x" :> {"lib", "m/a"} @@ "y" :> {"lib"} @@ "lib" :> {},
   text |-> [p \in {"x", "y", "lib"} |-> 1],
   mains |-> {"x", "y"}]

Edited == [Base EXCEPT !.text["y"] = 2]
LibEdited == [Base EXCEPT !.text["lib"] = 2]
Bumped == [Base EXCEPT !.gomod = GoMod(m(2), <<>>)]
Replaced == [Base EXCEPT !.gomod = GoMod(m(1), Forked)]
Deeper == [Base EXCEPT !.imports["lib"] = {"m/a"}, !.imports["x"] = {"lib"}]
OneMain == [Base EXCEPT !.mains = {"x"}]
NoMain == [Base EXCEPT !.mains = {}]

SomeProjects == {Base, Edited, LibEdited, Bumped, Replaced, Deeper, OneMain, NoMain}

\* The lockfile generate writes for the go.mod files of a list.
Generated(gomods) ==
  LET merged == FoldRight(LAMBDA gm, rest : CollectGoModModules(gm) @@ rest, gomods, <<>>)
  IN [mod |-> merged,
      replace |-> [k \in {k \in DOMAIN merged : merged[k][1] # k[1]} |-> merged[k][1]]]

Fork == GoMod("fork" :> 1, <<>>)

\* One made for the project, alone or with a project that requires the fork;
\* or any made before the module was bumped or replaced, or for the fork.
OwnOrStale ==
  [pr \in SomeProjects |->
     {Generated(<<q.gomod>>) : q \in SomeProjects} \cup {Generated(<<pr.gomod, Fork>>), Generated(<<Fork>>)}]

\* Two projects with one lockfile: the first requires m and its fork, the
\* second replaces m by that fork.
JustReplaced == {Replaced}
FirstOfBoth ==
  [pr \in JustReplaced |->
     {Generated(<<GoMod(m(1) @@ "fork" :> 1, <<>>), Replaced.gomod>>)}]
=============================================================================
