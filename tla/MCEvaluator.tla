---------------------------- MODULE MCEvaluator ----------------------------
(***************************************************************************)
(* Instances of Evaluator for TLC: one path that leads to a tree in the    *)
(* store, to one with a link out of it, or to the live tree.               *)
(***************************************************************************)
EXTENDS Evaluator, TLC

SomeRequires == "s1" :> {"m1"} @@ "s2" :> {"m1", "m2"} @@ "open" :> {"m1"} @@ "live" :> {"m2"}

\* Two small listings fit, a small and a large one do not.
SomeSizes == "s1" :> 1 @@ "s2" :> 2 @@ "open" :> 1 @@ "live" :> 1
=============================================================================
