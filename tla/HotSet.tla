------------------------------- MODULE HotSet -------------------------------
(***************************************************************************)
(* TierManager::reachable_from: the worklist over the call graph that      *)
(* finds the set to compile.  Its result feeds compile_functions, which    *)
(* gives each entry a label and binds it once, and its order is the order  *)
(* of the code in the buffer.                                              *)
(***************************************************************************)
EXTENDS Naturals, Sequences, CallGraph

CONSTANT Bodies      \* the programs: for each function, the calls in its body
ASSUME BodiesAreCalls == Bodies \subseteq [Func -> Seq(Func)]

VARIABLES
    body,            \* collect_calls_block of each function, in walk order
    root,            \* the function that went hot
    found,           \* the result so far
    seen,            \* every function ever put on the worklist
    work,            \* the worklist, its back last
    callees          \* the calls of the popped function not yet looked at

vars == <<body, root, found, seen, work, callees>>

CallsOf(f) == {body[f][i] : i \in 1 .. Len(body[f])}
calls == [f \in Func |-> CallsOf(f)]
Elems(s) == {s[i] : i \in 1 .. Len(s)}

Init ==
    /\ body \in Bodies
    /\ root \in Func
    /\ found = <<>>
    /\ seen = {root}
    /\ work = <<root>>
    /\ callees = <<>>

(* The back of the worklist goes to the result, and its body is walked. *)
Pop ==
    /\ callees = <<>>
    /\ work # <<>>
    /\ LET fn == work[Len(work)] IN
          /\ found' = Append(found, fn)
          /\ callees' = body[fn]
    /\ work' = SubSeq(work, 1, Len(work) - 1)
    /\ UNCHANGED <<body, root, seen>>

(* Slip: marked seen only when found, so it can wait twice. *)
VisitUnmarked ==
    /\ callees # <<>>
    /\ callees' = Tail(callees)
    /\ IF Head(callees) \in Elems(found)
       THEN UNCHANGED <<seen, work>>
       ELSE /\ seen' = seen \cup {Head(callees)}
            /\ work' = Append(work, Head(callees))
    /\ UNCHANGED <<body, root, found>>

(* Slip: the loop leaves at the first callee already seen. *)
VisitStopsEarly ==
    /\ callees # <<>>
    /\ IF Head(callees) \in seen
       THEN callees' = <<>> /\ UNCHANGED <<seen, work>>
       ELSE /\ callees' = Tail(callees)
            /\ seen' = seen \cup {Head(callees)}
            /\ work' = Append(work, Head(callees))
    /\ UNCHANGED <<body, root, found>>

(* Slip: the iterator moves on only past a callee that was new. *)
VisitSticks ==
    /\ callees # <<>>
    /\ Head(callees) \notin seen
    /\ callees' = Tail(callees)
    /\ seen' = seen \cup {Head(callees)}
    /\ work' = Append(work, Head(callees))
    /\ UNCHANGED <<body, root, found>>

(* One turn of the loop over the callees: a new one waits its turn. *)
Visit ==
    /\ callees # <<>>
    /\ callees' = Tail(callees)
    /\ IF Head(callees) \in seen
       THEN UNCHANGED <<seen, work>>
       ELSE /\ seen' = seen \cup {Head(callees)}
            /\ work' = Append(work, Head(callees))
    /\ UNCHANGED <<body, root, found>>

Next == Pop \/ Visit

Done == callees = <<>> /\ work = <<>>

Spec == Init /\ [][Next]_vars

(* The loop runs without a pause inside compile_hot. *)
FairSpec == Spec /\ WF_vars(Next)

-----------------------------------------------------------------------------
(* Type invariant: result and worklist hold functions marked as seen.      *)
TypeOK ==
    /\ body \in [Func -> Seq(Func)]
    /\ root \in Func
    /\ seen \in SUBSET Func
    /\ found \in Seq(seen)
    /\ work \in Seq(seen)
    /\ callees \in Seq(Func)

(***************************************************************************)
(* What compile_functions is owed (codegen.h:61-66): the set found is the  *)
(* least set with the root in it that is closed under calling, no less, or *)
(* a BL would have no label, and no more, or cold code would be compiled.  *)
(***************************************************************************)
FindsReachable == Done => Elems(found) = Reachable(calls, root)

(***************************************************************************)
(* No function is found twice, not even when it calls itself or is called  *)
(* from several places: its label would be bound twice.                    *)
(***************************************************************************)
FoundOnce ==
    \A i, j \in 1 .. Len(found) : found[i] = found[j] => i = j

(* Cycles in the call graph do not keep the worklist busy for ever. *)
Terminates == <>Done
=============================================================================
