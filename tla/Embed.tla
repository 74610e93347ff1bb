------------------------------- MODULE Embed --------------------------------
(***************************************************************************)
(* //go:embed patterns resolved to files: ResolveEmbedCfg and              *)
(* MergeEmbedCfg of go/go2nix/pkg/gofiles/gofiles.go.  Operators only.     *)
(*                                                                         *)
(* A tree is what is below a package's directory: for every node 1, 2, ... *)
(* its parent (0 is the directory itself; numbers are in the order of      *)
(* paths), its kind, whether its name begins with '.' or '_' (hidden),     *)
(* whether it is one no module can hold (bad), and whether it is a         *)
(* directory with a go.mod (module).  A "dirlink" is a symlink to a        *)
(* directory, and what is in that directory has the link for a parent; a   *)
(* "filelink" leads to a regular file; an "irregular" node is a device or  *)
(* a symlink that leads nowhere or to one.                                 *)
(*                                                                         *)
(* A pattern is [glob, all, valid]: the nodes the glob matches, which are  *)
(* all at one depth, whether "all:" stands before it, and whether its      *)
(* syntax is valid.                                                        *)
(*                                                                         *)
(* Definitions under "Seeded fault" are no part of the model: each is the  *)
(* definition below it with a mistake the property named there must catch. *)
(***************************************************************************)
EXTENDS Naturals, Sequences, SequencesExt

Node(tree) == DOMAIN tree

\* Node n, and the directories above it, from it upwards.
Upwards(tree) ==
  LET up[n \in {0} \cup Node(tree)] ==
        IF n = 0 THEN <<>> ELSE <<n>> \o up[tree[n].parent]
  IN up

\* Seeded fault: the directories above a match are not looked at
\* (EmbedsAsSpecified).
OnlyTheMatch(tree, file, dirOK) == SelectSeq(<<file>>, LAMBDA d : d \notin dirOK)

\* What is to be checked for a match: up to one that was checked before.
Parents(tree, file, dirOK) ==
  LET up == Upwards(tree)[file]
      ok == {i \in DOMAIN up : up[i] \in dirOK}
  IN SubSeq(up, 1, IF ok = {} THEN Len(up) ELSE (CHOOSE i \in ok : \A k \in ok : i <= k) - 1)

\* The loop over the parent directories: s.dirOK grows, or s.err.
CheckParents(tree, s, file) ==
  FoldLeft(LAMBDA t, d :
             IF t.err \/ tree[d].module
               \/ (d # file /\ tree[d].kind # "dir")
               \/ tree[d].bad
             THEN [t EXCEPT !.err = TRUE]
             ELSE [t EXCEPT !.dirOK = @ \cup {d}],
           s, Parents(tree, file, s.dirOK))

-----------------------------------------------------------------------------
(***************************************************************************)
(* The walk of a directory that a pattern matches.                         *)
(***************************************************************************)
\* The walk leaves the node out, or does not enter it.
Skipped(tree, n, all) == tree[n].bad \/ (tree[n].hidden /\ ~all)

\* Visited: the walk from dir comes to the node.
Visited(tree, dir, all) ==
  LET visits[n \in Node(tree)] ==
        LET p == tree[n].parent
        IN \/ p = dir
           \/ /\ p # 0
              /\ visits[p]
              /\ tree[p].kind = "dir"
              /\ ~Skipped(tree, p, all)
              /\ ~tree[p].module
  IN {n \in Node(tree) : visits[n]}

\* A file with a name no module can hold ends it, unless the name is hidden.
WalkFails(tree, dir, all) ==
  \E n \in Visited(tree, dir, all) :
    tree[n].kind # "dir" /\ tree[n].bad /\ ~tree[n].hidden

Walk(tree, dir, all) ==
  {n \in Visited(tree, dir, all) : tree[n].kind = "file" /\ ~Skipped(tree, n, all)}

-----------------------------------------------------------------------------
(***************************************************************************)
(* ResolveEmbedCfg.                                                        *)
(***************************************************************************)
\* Seeded fault: a file of an earlier pattern is not listed again
\* (MergeAgrees).
AddOnce(s, files, pid) ==
  [s EXCEPT !.have = [f \in DOMAIN @ \cup files |-> IF f \in files THEN pid ELSE @[f]],
            !.list = @ \o SetToSortSeq(files \ DOMAIN s.have, <)]

\* have[f] is the last pattern that listed f.
Add(s, files, pid) ==
  [s EXCEPT !.have = [f \in DOMAIN @ \cup files |-> IF f \in files THEN pid ELSE @[f]],
            !.list = @ \o SetToSortSeq({f \in files : f \notin DOMAIN s.have \/ s.have[f] # pid}, <)]

\* One match of a pattern.
Match(tree, s, pattern, pid, file) ==
  LET c == IF s.err THEN s ELSE CheckParents(tree, s, file)
      kind == tree[file].kind
      fails == [c EXCEPT !.err = TRUE]
  IN CASE c.err -> c
       [] ~c.err /\ kind \in {"file", "filelink"} -> Add(c, {file}, pid)
       [] ~c.err /\ kind = "dir" ->
            LET files == Walk(tree, file, pattern.all)
            IN IF WalkFails(tree, file, pattern.all) \/ files = {} THEN fails
               ELSE Add(c, files, pid)
       [] ~c.err /\ kind \in {"dirlink", "irregular"} -> fails

Pattern(tree, s, pattern, pid) ==
  LET begun == [s EXCEPT !.list = <<>>]
      end == FoldLeft(LAMBDA t, f : Match(tree, t, pattern, pid, f),
                      begun, SetToSortSeq(pattern.glob, <))
  IN IF s.err \/ ~pattern.valid \/ end.err \/ end.list = <<>>
     THEN [s EXCEPT !.err = TRUE]
     ELSE [end EXCEPT !.patterns =
             [q \in DOMAIN @ \cup {pattern} |-> IF q = pattern THEN SortSeq(end.list, <) ELSE @[q]]]

Failed == [err |-> TRUE, patterns |-> <<>>, files |-> {}]

\* patterns maps a pattern to its list, files are those of all lists.
ResolveEmbedCfg(tree, patterns) ==
  LET s == FoldLeft(LAMBDA t, pid : Pattern(tree, t, patterns[pid], pid),
                    [dirOK |-> {}, have |-> <<>>, list |-> <<>>, patterns |-> <<>>,
                     err |-> FALSE],
                    [i \in 1..Len(patterns) |-> i])
  IN IF s.err THEN Failed
     ELSE [err |-> FALSE, patterns |-> s.patterns, files |-> DOMAIN s.have]

\* MergeEmbedCfg, of two configurations over one directory.
MergeEmbedCfg(a, b) ==
  IF a.err \/ b.err
     \/ \E q \in DOMAIN a.patterns \cap DOMAIN b.patterns : a.patterns[q] # b.patterns[q]
  THEN Failed
  ELSE [err |-> FALSE, files |-> a.files \cup b.files,
        patterns |-> [q \in DOMAIN a.patterns \cup DOMAIN b.patterns |->
                        IF q \in DOMAIN b.patterns THEN b.patterns[q] ELSE a.patterns[q]]]
=============================================================================
