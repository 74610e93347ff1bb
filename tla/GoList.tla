------------------------------- MODULE GoList -------------------------------
(***************************************************************************)
(* What `go list -deps` and `go list -deps -test` print for a source tree, *)
(* as the evaluator plugin of go2nix relies on it                          *)
(* (packages/go2nix-nix-plugin/rust/src/resolve.rs).  The go command is    *)
(* not part of the repository; this module has no state.                   *)
(*                                                                         *)
(* An import path is a sequence of elements; the suffixes .test and _test  *)
(* are elements.  A tree t has                                             *)
(*   t.kind[m]  of every module: "main", "dir" if the main go.mod replaces *)
(*              it by a directory, "fork" if by another module, "fetched"  *)
(*   t.pkgs[p]  of every package: its module (mod); whether ... matches it *)
(*              (listed: it is not below testdata); files, tests, xtests:  *)
(*              which of its kinds of Go files exist; what each kind       *)
(*              imports; testEmbeds: its tests embed files; err, testErr,  *)
(*              xTestErr: "embed" for a pattern that matches nothing, else *)
(*              "other", or "none"                                         *)
(* A missing package has no module, like those of the standard library.    *)
(***************************************************************************)
EXTENDS ImportGraph

NoModule == <<>>
NoTest == <<>>

\* The pattern ./...; of m/... the pattern is m.
Here == <<".">>

\* What a record is called: P, or P [Q.test] for a copy made for Q's tests.
Bare(p) == [path |-> p, for |-> NoTest]
Copy(p, q) == [path |-> p, for |-> q]

TestMain(p) == Append(p, ".test")
XTest(p) == Append(p, "_test")

MainModule(t) == CHOOSE m \in DOMAIN t.kind : t.kind[m] = "main"
InMain(t, p) == t.pkgs[p].mod = MainModule(t)

\* The packages the patterns match.  m/... matches by import path: also what
\* belongs to a module m/sub.
Under(m, p) == IsPrefix(m, p)
Match(t, patterns, p) ==
  {m \in patterns : /\ t.pkgs[p].listed
                    /\ t.pkgs[p].mod # NoModule
                    /\ IF m = Here THEN InMain(t, p) ELSE Under(m, p)}
Matched(t, patterns) == {p \in DOMAIN t.pkgs : Match(t, patterns, p) # {}}

Imports(t) == [p \in DOMAIN t.pkgs |-> t.pkgs[p].imports]
HasTests(t, p) == t.pkgs[p].tests \/ t.pkgs[p].xtests

\* What a test of p may reach, and what of it is compiled again against p
\* with its internal tests: p itself and what imports it back.
TestReach(t, p) ==
  Reach({p} \cup t.pkgs[p].testImports \cup t.pkgs[p].xTestImports, Imports(t))
Copied(t, p) ==
  IF t.pkgs[p].tests THEN {q \in TestReach(t, p) : p \in Reach({q}, Imports(t))} ELSE {}

\* The names under which the test variants of p import the packages of S.
Renamed(t, p, S) == LET C == Copied(t, p)
                    IN  {IF q \in C THEN Copy(q, p) ELSE Bare(q) : q \in S}

-----------------------------------------------------------------------------
\* The records.  Test imports are listed with the package, resolved or not;
\* the files its tests embed only if a pattern matches it.

BareRecord(t, patterns, p) ==
  LET k == t.pkgs[p]
  IN  [path |-> p, for |-> NoTest, mod |-> k.mod,
       imports |-> {Bare(q) : q \in k.imports},
       testImports |-> k.testImports \cup k.xTestImports,
       files |-> k.files, hasTests |-> HasTests(t, p),
       match |-> Match(t, patterns, p),
       embeds |-> k.testEmbeds /\ Match(t, patterns, p) # {}, err |-> k.err]

CopyRecord(t, patterns, q, p) ==
  [BareRecord(t, patterns, q) EXCEPT
     !.for = p,
     !.imports = Renamed(t, p, t.pkgs[q].imports
                               \cup IF q = p THEN t.pkgs[p].testImports ELSE {}),
     !.files = @ \/ q = p,
     !.err = IF q = p /\ t.pkgs[p].testErr # "none" THEN t.pkgs[p].testErr ELSE @]

XTestRecord(t, p) ==
  [path |-> XTest(p), for |-> p, mod |-> t.pkgs[p].mod,
   imports |-> Renamed(t, p, t.pkgs[p].xTestImports), testImports |-> {},
   files |-> TRUE, hasTests |-> FALSE, match |-> {}, embeds |-> FALSE,
   err |-> t.pkgs[p].xTestErr]

MainRecord(t, p) ==
  [path |-> TestMain(p), for |-> NoTest, mod |-> t.pkgs[p].mod,
   imports |-> (IF t.pkgs[p].files \/ t.pkgs[p].tests THEN Renamed(t, p, {p}) ELSE {})
               \cup (IF t.pkgs[p].xtests THEN {Copy(XTest(p), p)} ELSE {}),
   testImports |-> {}, files |-> TRUE, hasTests |-> FALSE, match |-> {},
   embeds |-> FALSE, err |-> "none"]

Name(r) == [path |-> r.path, for |-> r.for]

\* go list -deps -test: the matches and the test mains of those with tests,
\* with all they import.
ListTest(t, patterns) ==
  LET M       == Matched(t, patterns)
      tested  == {p \in M : HasTests(t, p)}
      bare    == {BareRecord(t, patterns, p) : p \in DOMAIN t.pkgs}
      copies  == UNION {{CopyRecord(t, patterns, q, p) : q \in Copied(t, p)} : p \in tested}
      mains   == {MainRecord(t, p) : p \in tested}
      records == bare \cup copies \cup mains
                 \cup {XTestRecord(t, p) : p \in {q \in tested : t.pkgs[q].xtests}}
      next    == [r \in records |-> {s \in records \ mains : Name(s) \in r.imports}]
  IN  Reach({r \in bare : r.path \in M} \cup mains, next)

\* go list -deps of the packages in S.  A directory of another module than
\* the main one is refused.
ListBuild(t, S) ==
  {[BareRecord(t, {}, p) EXCEPT !.err = IF p \in S /\ ~InMain(t, p) THEN "other" ELSE @] :
     p \in Reach(S, Imports(t))}
=============================================================================
