----------------------------- MODULE MCLockfile -----------------------------
(***************************************************************************)
(* Instances of Lockfile for TLC: one module that is required as it is,    *)
(* replaced by a fork, or by a directory, and the fork required itself.    *)
(***************************************************************************)
EXTENDS LockfileInv, TLC

GoMod(require, replace) == [require |-> require, replace |-> replace]
NoReplace == <<>>
m(v) == "m" :> v
fork(v) == <<"fork", v>>
Wildcard(tree) == <<"m", AnyVersion>> :> tree
Only(v, tree) == <<"m", v>> :> tree

\* Plain requirements; a fork of the same and of another version; a replace
\* directive for one version beside one for all; a directory.
SomeGoMods ==
  { GoMod(m(1), NoReplace),
    GoMod(m(2), NoReplace),
    GoMod(m(1), Wildcard(fork(1))),
    GoMod(m(1) @@ "fork" :> 1, Wildcard(fork(2))),
    GoMod(m(2), Only(2, <<"m", 1>>) @@ Wildcard(fork(2))),
    GoMod(m(1) @@ "fork" :> 1, Wildcard(Directory)) }

OneOrBoth == {<<"x">>, <<"y", "x">>}
=============================================================================
