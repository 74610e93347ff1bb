----------------------------- MODULE MCListing ------------------------------
(***************************************************************************)
(* Instances of Listing for TLC: a main module m with packages a and b, two *)
(* modules m/s and m/s/u that its go.mod replaces by directories, of which *)
(* the pattern m/s/... matches both, and two third-party modules t and w.  *)
(* A tree has some of the listed traits.                                   *)
(***************************************************************************)
EXTENDS Listing

CONSTANT MaxTraits   \* bound: traits of one tree

A == <<"m", "a">>
B == <<"m", "b">>
S == <<"m", "s">>
U == <<"m", "s", "u">>
T == <<"t">>
W == <<"w">>
Missing == <<"x">>
Std == <<"fmt">>
Twin == TestMain(A)   \* a package m/a.test

\* Every trait makes some package import another, from one kind of file.
Edges ==
  [AS |-> <<A, "imports", S>>, AT |-> <<A, "imports", T>>,
   TS |-> <<T, "imports", S>>, TU |-> <<T, "imports", U>>,
   WU |-> <<W, "imports", U>>, BA |-> <<B, "imports", A>>,
   UA |-> <<U, "imports", A>>, UW |-> <<U, "imports", W>>,
   BX |-> <<B, "imports", Missing>>,
   AtB |-> <<A, "testImports", B>>, AtU |-> <<A, "testImports", U>>,
   AtW |-> <<A, "testImports", W>>, BtW |-> <<B, "testImports", W>>,
   StU |-> <<S, "testImports", U>>, UtW |-> <<U, "testImports", W>>,
   AtTwin |-> <<A, "testImports", Twin>>, TwinW |-> <<Twin, "imports", W>>,
   AxB |-> <<A, "xTestImports", B>>, AxU |-> <<A, "xTestImports", U>>,
   AxT |-> <<A, "xTestImports", T>>, SxT |-> <<S, "xTestImports", T>>]

\* The other traits.
Others == {"b hidden", "u fetched", "s absolute", "embed error", "test embed error",
           "xtest embed error", "b only tests"}

Traits == DOMAIN Edges \cup Others

Plain ==
  [mod |-> <<"m">>, listed |-> TRUE, files |-> TRUE, imports |-> {},
   tests |-> FALSE, testImports |-> {}, xtests |-> FALSE, xTestImports |-> {},
   testEmbeds |-> FALSE, err |-> "none", testErr |-> "none", xTestErr |-> "none"]

Packages(traits) ==
  {A, B, S, U, T, W, Missing, Std} \cup (IF "AtTwin" \in traits THEN {Twin} ELSE {})

Imported(edges, p, kind) == {e[3] : e \in {x \in edges : x[1] = p /\ x[2] = kind}}

Package(traits, edges, p) ==
  [Plain EXCEPT
     !.mod = CASE p \in {S, U, T, W} -> p
               [] p \in {Missing, Std} -> NoModule
               [] OTHER -> <<"m">>,
     !.files = p # B \/ "b only tests" \notin traits,
     !.listed = p # B \/ "b hidden" \notin traits,
     !.imports = Imported(edges, p, "imports") \cup (IF p = A THEN {Std} ELSE {}),
     !.testImports = Imported(edges, p, "testImports"),
     !.xTestImports = Imported(edges, p, "xTestImports") \cup (IF p = A THEN {A} ELSE {}),
     !.tests = Imported(edges, p, "testImports") # {} \/ p = U
                \/ (p = B /\ "b only tests" \in traits),
     !.xtests = Imported(edges, p, "xTestImports") # {} \/ p = A,
     !.testEmbeds = p \in {A, U} \/ (p = B /\ "BtW" \in traits),
     !.err = CASE p = Missing -> "other"
               [] p = A /\ "embed error" \in traits -> "embed"
               [] OTHER -> @,
     !.xTestErr = IF p = A /\ "xtest embed error" \in traits THEN "embed" ELSE @,
     !.testErr = IF p = A /\ "test embed error" \in traits THEN "embed" ELSE @]

Tree(traits) ==
  LET table == Edges
      edges == {table[x] : x \in traits \cap DOMAIN table}
  IN  [pkgs |-> [p \in Packages(traits) |-> Package(traits, edges, p)],
       kind |-> [m \in {<<"m">>, S, U, T, W} |->
                   CASE m = <<"m">> -> "main" [] m = T -> "fetched" [] m = W -> "fork"
                     [] OTHER -> IF m = U /\ "u fetched" \in traits THEN "fetched" ELSE "dir"],
       scanned |-> {S, U} \ ((IF "s absolute" \in traits THEN {S} ELSE {})
                             \cup (IF "u fetched" \in traits THEN {U} ELSE {}))]

\* go refuses import cycles, also those a package's internal tests close.
Acyclic(t) ==
  \A p \in DOMAIN t.pkgs :
    p \notin Reach(t.pkgs[p].imports \cup t.pkgs[p].testImports, Imports(t))

\* What has only tests imports nothing otherwise and cannot be imported.
Importable(t) ==
  \A p \in DOMAIN t.pkgs :
    LET k == t.pkgs[p]
    IN  /\ k.files \/ k.imports = {}
        /\ \A q \in k.imports \cup k.testImports \cup (k.xTestImports \ {p}) : t.pkgs[q].files

\* At most MaxTraits of them.
Small ==
  LET grown[k \in Nat] ==
        IF k = 0 THEN {{}} ELSE {{}} \cup {s \cup {x} : s \in grown[k - 1], x \in Traits}
  IN  grown[MaxTraits]
MCTrees == {t \in {Tree(traits) : traits \in Small} : Acyclic(t) /\ Importable(t)}
Request(dirs, written, check) ==
  [subPackages |-> dirs, plain |-> written, doCheck |-> check]
MCRequests == {Request(dirs, TRUE, TRUE) : dirs \in {{A}, {A, B}, {A, S}}}
              \cup {Request({A}, FALSE, TRUE), Request({A}, TRUE, FALSE)}
=============================================================================
