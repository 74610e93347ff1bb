---------------------------- MODULE MCAlgorithms ----------------------------
(***************************************************************************)
(* The algorithms: toposort.Sort on every graph of NKeys keys, cyclic or   *)
(* not; and the embed configurations against what they are for, for every  *)
(* tree of NNodes nodes with at most MaxTraits traits and every pair of    *)
(* patterns.                                                               *)
(***************************************************************************)
EXTENDS TopoSort, Embed

CONSTANTS NKeys, NNodes, MaxTraits

MCKeys == 1..NKeys

\* All keys are nodes, or 2 and 4 are imports outside the set to be sorted.
MCNodeSets == {MCKeys, {1, 3}}

VARIABLES tree, production, test

embedVars == <<tree, production, test>>

-----------------------------------------------------------------------------
(***************************************************************************)
(* Trees with few uncommon traits, so that they meet in all ways.          *)
(***************************************************************************)
IsDir(t, n) == t[n].kind = "dir"

Traits(t) ==
  {<<n, "kind">> : n \in {n \in DOMAIN t : t[n].kind \notin {"file", "dir"}}}
    \cup {<<n, "hidden">> : n \in {n \in DOMAIN t : t[n].hidden}}
    \cup {<<n, "bad">> : n \in {n \in DOMAIN t : t[n].bad}}
    \cup {<<n, "module">> : n \in {n \in DOMAIN t : t[n].module}}

NodeValues ==
  {v \in [parent : 0..NNodes, hidden : BOOLEAN, bad : BOOLEAN, module : BOOLEAN,
          kind : {"file", "dir", "filelink", "dirlink", "irregular"}] :
     v.module => v.kind \in {"dir", "dirlink"}}

IsTree(t) ==
  \A n \in DOMAIN t :
    /\ t[n].parent < n
    /\ t[n].parent # 0 => t[t[n].parent].kind \in {"dir", "dirlink"}

Trees ==
  LET few == {v \in NodeValues : Cardinality(Traits(<<v>>)) <= MaxTraits}
  IN {t \in [1..NNodes -> few] : IsTree(t) /\ Cardinality(Traits(t)) <= MaxTraits}

Depth(t, n) == Len(Upwards(t)[n])

Globs(t) == {g \in SUBSET DOMAIN t : \A a, b \in g : Depth(t, a) = Depth(t, b)}

Glob(g, all) == [glob |-> g, all |-> all, valid |-> TRUE]

Invalid(t) ==
  [Glob({n \in DOMAIN t : t[n].parent = 0}, FALSE) EXCEPT !.valid = FALSE]

\* The production patterns, and those of the tests, which may repeat one.
PatternLists(t) ==
  {<<Glob(g, all)>> : g \in Globs(t), all \in BOOLEAN} \cup {<<Invalid(t)>>}

\* Nothing has been given to Sort, or nothing to the embed configurations.
Init ==
  \/ /\ SortInit
     /\ tree = <<>> /\ production = <<>> /\ test = <<>>
  \/ /\ depsOf = [k \in SortKeys |-> {}] /\ nodes = {}
     /\ state = [k \in SortKeys |-> "unvisited"]
     /\ visits = <<>> /\ sorted = <<>> /\ verdict = "sorted"
     /\ tree \in Trees
     /\ production \in PatternLists(tree)
     /\ test \in PatternLists(tree)

\* ResolveEmbedCfg and MergeEmbedCfg are functions of their input, each of
\* which is an initial state.
Next == SortNext /\ UNCHANGED embedVars

Spec == Init /\ [][Next]_<<sortVars, embedVars>>

-----------------------------------------------------------------------------
\* The nodes from a match down to one below it, without the match.
Between(m, n) ==
  LET up == Upwards(tree)[n] IN {up[i] : i \in 1..Len(up) - Depth(tree, m)}

IsBelow(m, n) == m # n /\ m \in ToSet(Upwards(tree)[n])

\* What a pattern stands for: files it matches, and below the directories it
\* matches all regular files that are in the same module and not hidden.
Stands(q) ==
  {n \in DOMAIN tree :
     \/ n \in q.glob /\ tree[n].kind \in {"file", "filelink"}
     \/ /\ tree[n].kind = "file"
        /\ \E m \in q.glob :
             /\ IsDir(tree, m) /\ IsBelow(m, n)
             /\ \A d \in Between(m, n) :
                  /\ ~tree[d].bad /\ ~tree[d].module
                  /\ tree[d].hidden => q.all
                  /\ d # n => IsDir(tree, d)}

\* A match no file of a module can have been made from.
Foreign(m) ==
  \/ tree[m].kind \in {"dirlink", "irregular"}
  \/ \E d \in ToSet(Upwards(tree)[m]) : tree[d].bad \/ tree[d].module
  \/ \E d \in ToSet(Upwards(tree)[m]) \ {m} : ~IsDir(tree, d)

\* A file below a match whose name is bad, and not left out as hidden or as
\* part of something hidden, bad, or of another module.
Misnamed(q) ==
  \E m \in q.glob, n \in DOMAIN tree :
    /\ IsDir(tree, m) /\ IsBelow(m, n)
    /\ ~IsDir(tree, n) /\ tree[n].bad /\ ~tree[n].hidden
    /\ \A d \in Between(m, n) \ {n} :
         IsDir(tree, d) /\ ~tree[d].bad /\ ~tree[d].module /\ (tree[d].hidden => q.all)

IsError(q) ==
  \/ ~q.valid \/ Stands(q) = {} \/ Misnamed(q)
  \/ \E m \in q.glob :
       Foreign(m) \/ (IsDir(tree, m) /\ Stands([q EXCEPT !.glob = {m}]) = {})

\* The patterns of a package in turn, and what is checked once for all of
\* them, give what each stands for by itself: an error if one is an error,
\* and otherwise its files, each once, in order.
EmbedsAsSpecified ==
  LET patterns == production \o test
      cfg == ResolveEmbedCfg(tree, patterns)
  IN IF \E q \in ToSet(patterns) : IsError(q) THEN cfg.err
     ELSE /\ ~cfg.err
          /\ cfg.patterns = [q \in ToSet(patterns) |-> SetToSortSeq(Stands(q), <)]
          /\ cfg.files = UNION {Stands(q) : q \in ToSet(patterns)}

\* The configuration of a package and that of its tests, resolved one by one
\* and merged for the internal test, are the one for the files of both
\* together: merging never fails by itself and loses nothing.
MergeAgrees ==
  MergeEmbedCfg(ResolveEmbedCfg(tree, production), ResolveEmbedCfg(tree, test))
    = ResolveEmbedCfg(tree, production \o test)
=============================================================================
