------------------------------ MODULE TopoSort ------------------------------
(***************************************************************************)
(* toposort.Sort of go/go2nix/pkg/toposort/toposort.go: a depth-first      *)
(* visit of what the nodes depend on, for any graph.                       *)
(*                                                                         *)
(* Keys are numbered in the order sort.Strings gives them, in which the    *)
(* callers keep the list of what a key depends on too.  The closure visit  *)
(* calls itself: visits has the keys of the calls that have not returned,  *)
(* the outermost first.                                                    *)
(*                                                                         *)
(* Definitions under "Seeded fault" are no part of the model: each is the  *)
(* definition below it with a mistake the property named there must catch. *)
(***************************************************************************)
EXTENDS ImportGraph

CONSTANTS
  SortKeys,  \* the keys the nodes and what they depend on may have
  NodeSets   \* the sets of keys there may be nodes for

ASSUME SortAssumption ==
  /\ SortKeys \subseteq Nat /\ IsFiniteSet(SortKeys)
  /\ NodeSets \subseteq SUBSET SortKeys

VARIABLES
  depsOf,   \* depsOf[k]: what key k depends on
  nodes,    \* the keys of the nodes
  state,    \* the mark of each key
  visits,   \* the calls of visit that have not returned
  sorted,   \* result: the nodes whose visit is over
  verdict   \* what Sort returned: "sorted", "cycle", or "none" so far

sortVars == <<depsOf, nodes, state, visits, sorted, verdict>>

SortInit ==
  /\ depsOf \in [SortKeys -> SUBSET SortKeys]
  /\ nodes \in NodeSets
  /\ state = [k \in SortKeys |-> "unvisited"]
  /\ visits = <<>>
  /\ sorted = <<>>
  /\ verdict = "none"

-----------------------------------------------------------------------------
\* Seeded fault: keys that are no nodes are skipped (SortIsTopological).
RemainingNodes ==
  {k \in IF visits = <<>> THEN nodes ELSE depsOf[Last(visits)] :
     k \in nodes /\ state[k] # "visited"}

\* What the loop that runs has before it, the one in Sort or the one of the
\* innermost visit, but for the keys whose visit returns at once.
Remaining ==
  {k \in IF visits = <<>> THEN nodes ELSE depsOf[Last(visits)] : state[k] # "visited"}

\* Seeded fault: a key is not marked before what it depends on is visited
\* (VisitsEnd).
EnterUnmarked ==
  /\ verdict = "none" /\ Remaining # {}
  /\ state[Min(Remaining)] = "unvisited"
  /\ visits' = Append(visits, Min(Remaining))
  /\ UNCHANGED <<depsOf, nodes, state, sorted, verdict>>

\* visit is called for the next key.
Enter ==
  /\ verdict = "none" /\ Remaining # {}
  /\ LET key == Min(Remaining)
     IN /\ state[key] = "unvisited"
        /\ state' = [state EXCEPT ![key] = "visiting"]
        /\ visits' = Append(visits, key)
  /\ UNCHANGED <<depsOf, nodes, sorted, verdict>>

\* The next key is being visited: every call returns the error, and Sort
\* returns no result.
MeetCycle ==
  /\ verdict = "none" /\ Remaining # {}
  /\ state[Min(Remaining)] = "visiting"
  /\ verdict' = "cycle"
  /\ visits' = <<>>
  /\ sorted' = <<>>
  /\ UNCHANGED <<depsOf, nodes, state>>

\* The innermost visit is over.
Leave ==
  /\ verdict = "none" /\ Remaining = {} /\ visits # <<>>
  /\ LET key == Last(visits)
     IN /\ state' = [state EXCEPT ![key] = "visited"]
        /\ sorted' = IF key \in nodes THEN Append(sorted, key) ELSE sorted
  /\ visits' = Front(visits)
  /\ UNCHANGED <<depsOf, nodes, verdict>>

Finish ==
  /\ verdict = "none" /\ Remaining = {} /\ visits = <<>>
  /\ verdict' = "sorted"
  /\ UNCHANGED <<depsOf, nodes, state, visits, sorted>>

SortEnded == verdict # "none" /\ UNCHANGED sortVars

SortNext == Enter \/ MeetCycle \/ Leave \/ Finish \/ SortEnded

SortSpec == SortInit /\ [][SortNext]_sortVars

-----------------------------------------------------------------------------
\* What each key depends on, directly or not.
Above == [k \in SortKeys |-> Reach(depsOf[k], depsOf)]

Cyclic == \E k \in Reach(nodes, depsOf) : k \in Above[k]

\* Sort fails exactly when a cycle can be reached from a node, be it among
\* keys that are no nodes; otherwise it lists every node once, after all the
\* nodes it depends on, also when it depends on them through keys that are no
\* nodes.
SortIsTopological ==
  /\ verdict = "cycle" => Cyclic /\ sorted = <<>>
  /\ verdict = "sorted" => ~Cyclic /\ sorted \in TopologicalOrders(nodes, Above)

Marked(mark) == {k \in SortKeys : state[k] = mark}

\* The steps there may be: two for each key, and one to return.
StepsLeft ==
  2 * Cardinality(Marked("unvisited")) + Cardinality(Marked("visiting"))
    + IF verdict = "none" THEN 1 ELSE 0

\* The visit comes to an end on every graph: each step, of which there is one
\* until Sort has returned, leaves fewer.
VisitsEnd == [][StepsLeft' < StepsLeft]_sortVars
=============================================================================
