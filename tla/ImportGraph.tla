---------------------------- MODULE ImportGraph -----------------------------
(***************************************************************************)
(* What resolve and the test runner ask of an import graph, by its result: *)
(* what is reachable, and an order with dependencies first.  A graph is a  *)
(* function from packages to the set of packages they import.              *)
(***************************************************************************)
EXTENDS Naturals, FiniteSets, Sequences, SequencesExt

\* Everything reachable from S in the graph next: step by step, what was seen
\* before and what it leads to that is new.
Reach(S, next) ==
  LET walk[i \in Nat] ==
        IF i = 0 THEN [seen |-> {}, new |-> S]
        ELSE LET before == walk[i - 1]
                 seen   == before.seen \cup before.new
             IN [seen |-> seen, new |-> (UNION {next[x] : x \in before.new}) \ seen]
      end == walk[Cardinality(DOMAIN next)]
  IN end.seen \cup end.new

\* Every order of S with dependencies first.  toposort.Sort gives one of them.
TopologicalOrders(S, imports) ==
  {o \in SetToSeqs(S) : \A i, j \in DOMAIN o : o[j] \in imports[o[i]] => j < i}

\* It gives the same one for the same graph.
SortPackages(S, imports) == CHOOSE o \in TopologicalOrders(S, imports) : TRUE
=============================================================================
