----------------------------- MODULE CallGraph -----------------------------
(***************************************************************************)
(* The static call graph of a minipy program.  Every call names a user     *)
(* function directly, so a program is, for the tiering code, a function    *)
(* from each function to the set of functions its body names.              *)
(***************************************************************************)

CONSTANT Func        \* the functions of a program, the synthesized main too

CallGraphs == [Func -> SUBSET Func]

(***************************************************************************)
(* What collect_calls_* is for: calls[f] is every function named in the    *)
(* body of f, call arguments included.  A set is closed when no body in it *)
(* names a function outside it: compiled as one unit, each BL lands inside.*)
(***************************************************************************)
CallClosed(calls, S) == \A f \in S : calls[f] \subseteq S

(***************************************************************************)
(* The least closed set that holds root: the functions in every closed set *)
(* around it.  reachable_from computes it with a worklist (module HotSet). *)
(***************************************************************************)
Reachable(calls, root) ==
    {g \in Func : \A S \in SUBSET Func :
                     (root \in S /\ CallClosed(calls, S)) => g \in S}
=============================================================================
