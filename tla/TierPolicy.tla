----------------------------- MODULE TierPolicy -----------------------------
(***************************************************************************)
(* What tiered execution promises, without stacks, counters or regions: a  *)
(* function is walked by the interpreter fewer than Threshold times, its   *)
(* Threshold-th interpreted call makes it native together with everything  *)
(* it can reach, and a native function is never walked again.              *)
(***************************************************************************)
EXTENDS Naturals, CallGraph

CONSTANT Threshold   \* --hot=N, at least 1: the call that promotes a function

VARIABLES
    calls,           \* the call graph, fixed by the program
    walked,          \* how many activations the tree walker has run
    native           \* the functions whose next call is machine code

vars == <<calls, walked, native>>

Init ==
    /\ calls \in CallGraphs
    /\ walked = [f \in Func |-> 0]
    /\ native = {}

Walk(f) ==
    /\ f \notin native
    /\ walked[f] + 1 < Threshold
    /\ walked' = [walked EXCEPT ![f] = @ + 1]
    /\ UNCHANGED <<calls, native>>

Promote(f) ==
    /\ f \notin native
    /\ walked[f] + 1 = Threshold
    /\ native' = native \cup Reachable(calls, f)
    /\ UNCHANGED <<calls, walked>>

Next == \E f \in Func : Walk(f) \/ Promote(f)

Spec == Init /\ [][Next]_vars
=============================================================================
