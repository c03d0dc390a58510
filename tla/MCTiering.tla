----------------------------- MODULE MCTiering -----------------------------
(***************************************************************************)
(* Small instances of Tiering: every call graph over a few functions.      *)
(***************************************************************************)
EXTENDS Tiering, TLC

(* Every program over Func whose functions are all called from somewhere   *)
(* or are Main: an unreachable function is never called nor compiled.      *)
LiveGraphs == {g \in CallGraphs : Reachable(g, Main) = Func}

(* The functions but Main are interchangeable. *)
Renamings == Permutations(Func \ {Main})
=============================================================================
