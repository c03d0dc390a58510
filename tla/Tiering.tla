------------------------------ MODULE Tiering ------------------------------
(***************************************************************************)
(* Mixed-mode execution: the tree walker of interp.cc and the TierManager  *)
(* of tiering.cc that decides, call by call, whether it walks a body or    *)
(* jumps into machine code.                                                *)
(*                                                                         *)
(* Values are abstracted away.  A body may call any function it names, any *)
(* number of times, return, or divide by zero; the stack holds what the    *)
(* host and native stacks hold: interpreted activations, calls whose       *)
(* arguments are being evaluated, and native activations.                  *)
(***************************************************************************)
EXTENDS Naturals, Sequences, FiniteSets, CallGraph

CONSTANTS
    Main,            \* the synthesized __main__
    Threshold,       \* --hot=N, the TierManager's threshold_
    MaxDepth,        \* bound on the stack: a program may recurse for ever
    Graphs           \* the programs considered, as call graphs

ASSUME FuncFinite == IsFiniteSet(Func)
ASSUME MainIsFunc == Main \in Func
ASSUME ThresholdPositive == Threshold \in Nat \ {0}  \* main.cc:66-72
ASSUME DepthIsNat == MaxDepth \in Nat
ASSUME GraphsAreCallGraphs == Graphs \subseteq CallGraphs

VARIABLES
    calls,           \* the program's call graph
    counts,          \* counts_: calls seen while the function was cold
    compiled,        \* compiled_: the region to enter, 0 when absent
    regions,         \* regions_: what each buffer holds, never released
    stack,           \* activations and pending calls, innermost last
    phase            \* "start", "running", "done" or "aborted"

vars == <<calls, counts, compiled, regions, stack, phase>>

Frames == [kind : {"interp", "args", "native"},
           fn : Func,        \* the function running, or about to be called
           body : Func,      \* the function whose text is being executed
           region : Nat]     \* the buffer the code runs in, 0 in the host

Interp(f) == [kind |-> "interp", fn |-> f, body |-> f, region |-> 0]
Pending(f, g) == [kind |-> "args", fn |-> g, body |-> f, region |-> 0]
Native(f, r) == [kind |-> "native", fn |-> f, body |-> f, region |-> r]

Top == stack[Len(stack)]
Popped == SubSeq(stack, 1, Len(stack) - 1)

IsCompiled(f) == compiled[f] # 0
NativeLive == \E i \in 1 .. Len(stack) : stack[i].kind = "native"

Init ==
    /\ calls \in Graphs
    /\ counts = [f \in Func |-> 0]
    /\ compiled = [f \in Func |-> 0]
    /\ regions = <<>>
    /\ stack = <<>>
    /\ phase = "start"

-----------------------------------------------------------------------------
(* TierManager *)

(* Slip: only the direct callees. *)
HotSetOfDirect(f) == {f} \cup calls[f]

HotSetOf(f) == Reachable(calls, f)

(* Slip: <= for <, one interpreted call too many. *)
StaysColdTooLong(f) == counts[f] + 1 <= Threshold

(* on_call's test after the increment: still below the threshold. *)
StaysCold(f) == counts[f] + 1 < Threshold

Count(f) == counts' = [counts EXCEPT ![f] = @ + 1]

(* Slip: bind the function that tripped the counter and no other. *)
CompileHotRootOnly(f) ==
    /\ regions' = Append(regions, HotSetOf(f))
    /\ compiled' = [compiled EXCEPT ![f] = Len(regions) + 1]

(* Slip: one region_ instead of regions_, so the older buffer is freed. *)
CompileHotFreesOld(f) ==
    /\ regions' = <<HotSetOf(f)>>
    /\ compiled' = [g \in Func |-> IF g \in HotSetOf(f) THEN 1 ELSE compiled[g]]

(***************************************************************************)
(* compile_hot: one new region for the whole set, and every member is      *)
(* (re)bound to it, the ones an older region already holds included.       *)
(***************************************************************************)
CompileHot(f) ==
    /\ regions' = Append(regions, HotSetOf(f))
    /\ compiled' = [g \in Func |->
                       IF g \in HotSetOf(f) THEN Len(regions) + 1
                       ELSE compiled[g]]

(* Slip: the offset taken from the newest region's base. *)
EnterCompiledNewest(f, below) ==
    /\ IsCompiled(f)
    /\ stack' = Append(below, Native(f, Len(regions)))
    /\ UNCHANGED <<counts, compiled, regions>>

(* Slip: the counter is asked before the compiled_ lookup. *)
EnterHotUnasked(f, below) ==
    /\ ~StaysCold(f)
    /\ Count(f)
    /\ CompileHot(f)
    /\ stack' = Append(below, Native(f, Len(regions) + 1))

(***************************************************************************)
(* Interpreter::call over the frames in below.  on_call answers with an    *)
(* entry (invoke runs it) or with null (a fresh frame is walked).          *)
(***************************************************************************)
EnterCompiled(f, below) ==
    /\ IsCompiled(f)
    /\ stack' = Append(below, Native(f, compiled[f]))
    /\ UNCHANGED <<counts, compiled, regions>>

EnterCold(f, below) ==
    /\ ~IsCompiled(f)
    /\ StaysCold(f)
    /\ Count(f)
    /\ stack' = Append(below, Interp(f))
    /\ UNCHANGED <<compiled, regions>>

EnterHot(f, below) ==
    /\ ~IsCompiled(f)
    /\ ~StaysCold(f)
    /\ Count(f)
    /\ CompileHot(f)
    /\ stack' = Append(below, Native(f, Len(regions) + 1))

Call(f, below) ==
    \/ EnterCompiled(f, below)
    \/ EnterCold(f, below)
    \/ EnterHot(f, below)

-----------------------------------------------------------------------------
(* Interpreter::run: the call of __main__, which has no arguments. *)
Start ==
    /\ phase = "start"
    /\ Call(Main, <<>>)
    /\ phase' = "running"
    /\ UNCHANGED calls

(***************************************************************************)
(* eval_call reaches a call in the text being walked: the arguments come   *)
(* first, in the caller's frame, and may hold calls of their own.          *)
(***************************************************************************)
BeginCall ==
    /\ phase = "running"
    /\ Top.kind \in {"interp", "args"}
    /\ Len(stack) < MaxDepth
    /\ \E g \in calls[Top.body] : stack' = Append(stack, Pending(Top.body, g))
    /\ UNCHANGED <<calls, counts, compiled, regions, phase>>

(* The arguments are there: only now does eval_call call the function. *)
FinishArgs ==
    /\ phase = "running"
    /\ Top.kind = "args"
    /\ Call(Top.fn, Popped)
    /\ UNCHANGED <<calls, phase>>

(* Slip: compiled code calls through a host stub that walks the callee. *)
NativeCallViaHost ==
    /\ phase = "running"
    /\ Top.kind = "native"
    /\ Len(stack) < MaxDepth
    /\ \E g \in calls[Top.body] : stack' = Append(stack, Interp(g))
    /\ UNCHANGED <<calls, counts, compiled, regions, phase>>

(* gen_call: a BL to the callee's label in the caller's own buffer. *)
NativeCall ==
    /\ phase = "running"
    /\ Top.kind = "native"
    /\ Len(stack) < MaxDepth
    /\ \E g \in calls[Top.body] :
          stack' = Append(stack, Native(g, Top.region))
    /\ UNCHANGED <<calls, counts, compiled, regions, phase>>

Return ==
    /\ phase = "running"
    /\ Top.kind \in {"interp", "native"}
    /\ stack' = Popped
    /\ phase' = IF Len(stack) = 1 THEN "done" ELSE "running"
    /\ UNCHANGED <<calls, counts, compiled, regions>>

(* Division by zero in either engine: exit(1) from wherever control is. *)
DivZero ==
    /\ phase = "running"
    /\ phase' = "aborted"
    /\ UNCHANGED <<calls, counts, compiled, regions, stack>>

(* The function a call is about to enter: on_call is running for it. *)
Entering(f) ==
    \/ phase = "start" /\ f = Main
    \/ phase = "running" /\ Top.kind = "args" /\ f = Top.fn

(***************************************************************************)
(* The compilation itself dies: a branch out of range (emitter_bug) or no  *)
(* executable memory (perror, abort).  The counter has been bumped by then.*)
(***************************************************************************)
CompileAborts ==
    /\ \E f \in Func :
          /\ Entering(f)
          /\ ~IsCompiled(f)
          /\ ~StaysCold(f)
          /\ Count(f)
    /\ phase' = "aborted"
    /\ UNCHANGED <<calls, compiled, regions, stack>>

Next ==
    \/ Start
    \/ BeginCall
    \/ FinishArgs
    \/ NativeCall
    \/ Return
    \/ DivZero
    \/ CompileAborts

Spec == Init /\ [][Next]_vars
-----------------------------------------------------------------------------
(* Type invariant: every variable holds what its declaration says.  The     *)
(* int counter never passes the threshold, so counts_[fn]++ cannot overflow.*)
TypeOK ==
    /\ calls \in CallGraphs
    /\ counts \in [Func -> 0 .. Threshold]
    /\ regions \in Seq(SUBSET Func)
    /\ compiled \in [Func -> 0 .. Len(regions)]
    /\ stack \in Seq(Frames)
    /\ phase \in {"start", "running", "done", "aborted"}

(***************************************************************************)
(* Every BL has somewhere to land (tiering.cc:143-146): the text a native  *)
(* frame runs calls only functions its own buffer holds.  It rests on the  *)
(* hot set being closed, and on no buffer going away under a live frame.   *)
(***************************************************************************)
NativeCallResolves ==
    \A i \in 1 .. Len(stack) :
        stack[i].kind = "native" =>
            /\ stack[i].region \in 1 .. Len(regions)
            /\ {stack[i].fn} \cup calls[stack[i].fn] \subseteq regions[stack[i].region]

(***************************************************************************)
(* There is no route back out to the interpreter (tiering.h:29-31): above  *)
(* a native frame there are only native frames, of the same buffer.        *)
(***************************************************************************)
NoWayBack ==
    \A i, j \in 1 .. Len(stack) :
        i < j /\ stack[i].kind = "native" =>
            stack[j].kind = "native" /\ stack[j].region = stack[i].region

(***************************************************************************)
(* An address compiled_ hands out points into a buffer that still exists   *)
(* and really holds the function, after any number of recompilations.      *)
(***************************************************************************)
EntryInRegion ==
    \A f \in Func : IsCompiled(f) =>
        compiled[f] \in 1 .. Len(regions) /\ f \in regions[compiled[f]]

(***************************************************************************)
(* Promotion takes everything a hot function can reach along: no compiled  *)
(* function calls one that is still cold, whichever roots went hot when.   *)
(***************************************************************************)
CompiledClosed ==
    \A f \in Func : IsCompiled(f) => \A g \in calls[f] : IsCompiled(g)

(***************************************************************************)
(* on_call never leaves a function cold at the threshold, not even when    *)
(* evaluating the arguments of a call promotes the function being called.  *)
(***************************************************************************)
ColdBelowThreshold ==
    phase # "aborted" =>
        \A f \in Func : ~IsCompiled(f) => counts[f] < Threshold

(***************************************************************************)
(* regions_ only grows, but not without bound: each region was made for a  *)
(* root that was cold until then, so there are never more of them than     *)
(* compiled functions (tiering.h:94-98 releases none before the end).      *)
(***************************************************************************)
RegionsBounded ==
    Len(regions) <= Cardinality({f \in Func : IsCompiled(f)})

(***************************************************************************)
(* An entry is used as long as it is current: the frame through which the  *)
(* host stack went native runs the newest copy of its function, though     *)
(* copies are rebound whenever another root goes hot.                      *)
(***************************************************************************)
EntryIsCurrent ==
    \A i \in 1 .. Len(stack) :
        /\ stack[i].kind = "native"
        /\ i = 1 \/ stack[i - 1].kind # "native"
        => stack[i].region = compiled[stack[i].fn]

(***************************************************************************)
(* A compilation happens only on the interpreter's stack: no buffer is     *)
(* made, and no entry rebound, while native code is active underneath.     *)
(***************************************************************************)
CompileOffStack ==
    [][<<compiled, regions>>' # <<compiled, regions>> => ~NativeLive]_vars

(***************************************************************************)
(* Once native, always native: a step never starts walking the body of a   *)
(* function that has compiled code, and never takes that code away.        *)
(***************************************************************************)
StartsWalking(f) ==
    /\ stack' # stack
    /\ stack' = Append(Popped, Interp(f))

HotStaysNative ==
    [][\A f \in Func :
          IsCompiled(f) => IsCompiled(f)' /\ ~StartsWalking(f)]_vars

-----------------------------------------------------------------------------
(***************************************************************************)
(* Tiered execution implements the policy.  An activation has been walked  *)
(* for each count but the promoting one, which ran as machine code.        *)
(***************************************************************************)
Policy == INSTANCE TierPolicy WITH
    walked <- [f \in Func |-> IF counts[f] = Threshold THEN Threshold - 1
                              ELSE counts[f]],
    native <- {f \in Func : IsCompiled(f)}

(* Every tiered run is a run the policy allows (tiering.h:9-13). *)
ImplementsPolicy == Policy!Spec

(***************************************************************************)
(* The header's claim that a function called once is never promoted,       *)
(* however long it runs (tiering.h:15-17).  --hot=1 breaks it: the first   *)
(* call is the threshold-th, so __main__ itself starts as machine code.    *)
(***************************************************************************)
CalledOnceStaysInterpreted ==
    \A f \in Func : counts[f] <= 1 /\ IsCompiled(f) =>
        \E g \in Func \ {f} : f \in Reachable(calls, g) /\ IsCompiled(g)
=============================================================================
