----------------------------- MODULE Evaluator ------------------------------
(***************************************************************************)
(* What the evaluator plugin keeps from one call for the next              *)
(* (packages/go2nix-nix-plugin/rust/src): in the process the output of     *)
(* `go list -test` (LISTINGS, in resolve.rs), and on disk, for every       *)
(* evaluator of the user, the NAR hashes of modules (nar_cache.rs,         *)
(* module_hashes.rs).  How a graph is made of a listing is the subject of  *)
(* Listing.                                                                *)
(*                                                                         *)
(* A call names its source by a path.  Meanwhile the world goes on: paths  *)
(* are made to point to other trees, trees that are not in the store are   *)
(* edited, and go commands extract modules into the module cache.          *)
(*                                                                         *)
(* Definitions under "Seeded fault" are no part of the model: each is the  *)
(* definition below it with a mistake the property named there must catch. *)
(***************************************************************************)
EXTENDS Naturals, FiniteSets, SequencesExt

CONSTANTS
  Process,    \* evaluators
  Src,        \* the paths given as src
  Setting,    \* what else reaches go: tags, platform, environment
  StoreTree,  \* trees in the store
  Open,       \* those that hold a link out of the store, to the live tree
  Live,       \* a tree that is not in the store
  Module,     \* module@version
  Requires,   \* Requires[t]: the modules of tree t
  Size,       \* Size[t]: bytes of its listing
  Limit,      \* LISTINGS_LIMIT
  NoKey, None,
  MaxCalls, MaxEdits

ASSUME EvaluatorAssumption ==
  /\ Open \subseteq StoreTree /\ Live \notin StoreTree
  /\ Requires \in [StoreTree \cup {Live} -> SUBSET Module]
  /\ Size \in [StoreTree \cup {Live} -> Nat] /\ Limit \in Nat
  /\ NoKey \notin [src : Src, setting : Setting] \X (StoreTree \cup {Live})

VARIABLES
  points,    \* points[s]: the tree path s leads to
  edits,     \* how often the live tree was edited
  modCache,  \* of a module: "absent", "partial" while extracted, "whole"
  call,      \* call[p]: what process p is asked for
  pc,
  key,       \* the key of the call
  listing,   \* the output of go list that serves it
  kept,      \* it comes from the memo
  memo,      \* memo[p]: LISTINGS, least recently used first
  narCache,  \* narCache[m]: what the file for m's h1 hash says, or None
  hashes,    \* hashes[p]: the hashes found for the call
  calls      \* calls begun

vars == <<points, edits, modCache, call, pc, key, listing, kept, memo,
          narCache, hashes, calls>>
world == <<points, edits, modCache>>

Init ==
  /\ points \in [Src -> StoreTree]
  /\ edits = 0
  /\ modCache = [m \in Module |-> "absent"]
  /\ call \in [Process -> [src : Src, setting : Setting]]
  /\ pc = [p \in Process |-> "idle"]
  /\ key = [p \in Process |-> NoKey]
  /\ listing = [p \in Process |-> None]
  /\ kept = [p \in Process |-> FALSE]
  /\ memo = [p \in Process |-> <<>>]
  /\ narCache = [m \in Module |-> None]
  /\ hashes = [p \in Process |-> <<>>]
  /\ calls = 0

Goto(p, from, to) ==
  /\ pc[p] = from
  /\ pc' = [pc EXCEPT ![p] = to]

-----------------------------------------------------------------------------
(***************************************************************************)
(* The world.                                                              *)
(***************************************************************************)
\* A path is not changed while a call that names it is under way.
Relink ==
  \E s \in Src, t \in StoreTree \cup {Live} :
    /\ \A p \in Process : call[p].src = s => pc[p] \in {"idle", "key", "answered"}
    /\ points' = [points EXCEPT ![s] = t]
    /\ UNCHANGED <<edits, modCache, call, pc, key, listing, kept, memo, narCache,
                   hashes, calls>>

Edit ==
  /\ edits < MaxEdits
  /\ edits' = edits + 1
  /\ UNCHANGED <<points, modCache, call, pc, key, listing, kept, memo, narCache,
                 hashes, calls>>

\* Modules are extracted in place, and never removed.
Extract ==
  \E m \in Module :
    /\ modCache[m] # "whole"
    /\ modCache' = [modCache EXCEPT ![m] = IF @ = "absent" THEN "partial" ELSE "whole"]
    /\ UNCHANGED <<points, edits, call, pc, key, listing, kept, memo, narCache,
                   hashes, calls>>

\* What go reads in a tree.
Content(t) == [tree |-> t, edit |-> IF t \in Open \cup {Live} THEN edits ELSE 0]

\* What it prints: records with errors if modules are missing.  It never
\* takes a module that is being extracted for one that is there.
GoListOutput(s, setting) ==
  [content |-> Content(points[s]), setting |-> setting,
   complete |-> \A m \in Requires[points[s]] : modCache[m] = "whole"]

-----------------------------------------------------------------------------
(***************************************************************************)
(* One call: the listing.                                                  *)
(***************************************************************************)
Begin(p) ==
  /\ calls < MaxCalls
  /\ pc[p] \in {"idle", "answered"}
  /\ \E c \in [src : Src, setting : Setting] : call' = [call EXCEPT ![p] = c]
  /\ pc' = [pc EXCEPT ![p] = "key"]
  /\ hashes' = [hashes EXCEPT ![p] = <<>>]
  /\ calls' = calls + 1
  /\ UNCHANGED <<world, key, listing, kept, memo, narCache>>

\* Seeded fault: the key names the path, not what it leads to
\* (ServedIsCurrent).
KeyOfPath(c) == <<c, c.src>>

\* The whole command and where the root leads.
ListingKey(c) == <<c, points[c.src]>>

MakeKey(p) ==
  /\ Goto(p, "key", "look up")
  /\ key' = [key EXCEPT ![p] =
               IF points[call[p].src] \in StoreTree THEN ListingKey(call[p]) ELSE NoKey]
  /\ UNCHANGED <<world, call, listing, kept, memo, narCache, hashes, calls>>

\* Where the memo has the key: at most one place.
Hits(p) == {i \in 1..Len(memo[p]) : memo[p][i].key = key[p]}

\* ListingMemo::get: the entry found becomes the last used.
LookUp(p) ==
  /\ pc[p] = "look up"
  /\ \/ \E i \in Hits(p) :
          /\ listing' = [listing EXCEPT ![p] = memo[p][i].listing]
          /\ memo' = [memo EXCEPT ![p] = Append(RemoveAt(@, i), @[i])]
          /\ kept' = [kept EXCEPT ![p] = TRUE]
          /\ pc' = [pc EXCEPT ![p] = "hash"]
     \/ /\ Hits(p) = {}
        /\ kept' = [kept EXCEPT ![p] = FALSE]
        /\ pc' = [pc EXCEPT ![p] = "list"]
        /\ UNCHANGED <<listing, memo>>
  /\ UNCHANGED <<world, call, key, narCache, hashes, calls>>

RunGoList(p) ==
  /\ Goto(p, "list", "keep")
  /\ listing' = [listing EXCEPT ![p] = GoListOutput(call[p].src, call[p].setting)]
  /\ UNCHANGED <<world, call, key, kept, memo, narCache, hashes, calls>>

\* Seeded fault: links out of the store are followed (ServedIsCurrent).
CanBeKeptOpen(p) ==
  /\ key[p] # NoKey
  /\ listing[p].complete
  /\ points[call[p].src] \in StoreTree

CanBeKept(p) ==
  /\ key[p] # NoKey
  /\ listing[p].complete
  /\ points[call[p].src] \in StoreTree \ Open

Bytes(entries) == FoldLeft(LAMBDA n, e : n + e.size, 0, entries)
From(i, entries) == SubSeq(entries, i, Len(entries))

\* Drop no more of the least recently used than it takes to fit.
DropTo(p, entries) ==
  \E i \in 1..Len(entries) + 1 :
    /\ Bytes(From(i, entries)) <= Limit
    /\ \A k \in 1..i - 1 : Bytes(From(k, entries)) > Limit
    /\ memo' = [memo EXCEPT ![p] = From(i, entries)]

\* ListingMemo::put takes the key out before it adds it.
WithoutKey(p) ==
  IF Hits(p) = {} THEN memo[p] ELSE RemoveAt(memo[p], CHOOSE i \in Hits(p) : TRUE)

\* A listing with errors is for the two passes to report.
Keep(p) ==
  /\ Goto(p, "keep", IF listing[p].complete THEN "hash" ELSE "answered")
  /\ LET e == [key |-> key[p], listing |-> listing[p],
               size |-> Size[listing[p].content.tree]]
     IN IF CanBeKept(p) /\ e.size <= Limit
        THEN DropTo(p, Append(WithoutKey(p), e))
        ELSE UNCHANGED memo
  /\ UNCHANGED <<world, call, key, listing, kept, narCache, hashes, calls>>

-----------------------------------------------------------------------------
(***************************************************************************)
(* One call: the hashes of the modules the listing names, in any order.    *)
(***************************************************************************)
Wanted(p) == Requires[listing[p].content.tree]

\* The hash of what is extracted of a module.
HashOf(m) == <<m, modCache[m]>>

AddHash(p, m, h) ==
  hashes' = [hashes EXCEPT ![p] = [x \in DOMAIN @ \cup {m} |-> IF x = m THEN h ELSE @[x]]]

Cached(p, m) ==
  /\ pc[p] = "hash"
  /\ m \in Wanted(p) \ DOMAIN hashes[p]
  /\ narCache[m] # None
  /\ AddHash(p, m, narCache[m])
  /\ UNCHANGED <<world, call, pc, key, listing, kept, memo, narCache, calls>>

\* Seeded fault: the file is written in place (HashesRight).
PutInPlace(m, h) == \E c \in {h, <<m, "a part">>} : narCache' = [narCache EXCEPT ![m] = c]

\* The file appears with its contents; that it cannot be written is no error.
Put(m, h) == \E c \in {h, narCache[m]} : narCache' = [narCache EXCEPT ![m] = c]

Computed(p, m) ==
  /\ pc[p] = "hash"
  /\ m \in Wanted(p) \ DOMAIN hashes[p]
  /\ modCache[m] # "absent"
  /\ AddHash(p, m, HashOf(m))
  /\ Put(m, HashOf(m))
  /\ UNCHANGED <<world, call, pc, key, listing, kept, memo, calls>>

Answer(p) ==
  /\ Goto(p, "hash", "answered")
  /\ \A m \in Wanted(p) : m \in DOMAIN hashes[p] \/ modCache[m] = "absent"
  /\ UNCHANGED <<world, call, key, listing, kept, memo, narCache, hashes, calls>>

\* The evaluator ends, or is killed, and another is started.
Restart(p) ==
  /\ pc' = [pc EXCEPT ![p] = "idle"]
  /\ memo' = [memo EXCEPT ![p] = <<>>]
  /\ hashes' = [hashes EXCEPT ![p] = <<>>]
  /\ listing' = [listing EXCEPT ![p] = None]
  /\ UNCHANGED <<world, call, key, kept, narCache, calls>>

Next ==
  \/ Relink \/ Edit \/ Extract
  \/ \E p \in Process :
       \/ Begin(p) \/ MakeKey(p) \/ LookUp(p) \/ RunGoList(p) \/ Keep(p)
       \/ \E m \in Module : Cached(p, m) \/ Computed(p, m)
       \/ Answer(p) \/ Restart(p)

Spec == Init /\ [][Next]_vars
-----------------------------------------------------------------------------
(***************************************************************************)
(* Properties                                                              *)
(***************************************************************************)
\* "A store path does not change while the process lives, anything else can
\* be edited between two calls": a call that is served from the memo gets what
\* go list would print for it then, without errors, under its own settings.
ServedIsCurrent ==
  \A p \in Process : (pc[p] = "hash" /\ kept[p]) =>
    /\ listing[p].complete
    /\ listing[p].setting = call[p].setting
    /\ listing[p].content = Content(points[call[p].src])

\* "Same input always produces the same output": every hash that is answered
\* is that of the whole module, computed now or by any evaluator before, and
\* no module of the listing is left without.
HashesRight ==
  \A p \in Process : (pc[p] = "answered" /\ listing[p] # None /\ listing[p].complete) =>
    hashes[p] = [m \in Wanted(p) |-> <<m, "whole">>]
=============================================================================
