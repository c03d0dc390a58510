---------------------------- MODULE TieredMemory ----------------------------
(***************************************************************************)
(* Tiered execution on the machine: Tiering, with each buffer a JitMemory  *)
(* that is built step by step while the interpreter waits, entered and     *)
(* left by invoke, and released when the TierManager goes out of scope.    *)
(*                                                                         *)
(* The region numbered r is the JitMemory object r.  What it holds is the  *)
(* code of a set of functions; a line of memory holds (its part of) that.  *)
(* The steps of the constructor and of the hardware are those of           *)
(* JitMemory; what its users do is written here without JitMemory's        *)
(* assumptions about them, which are shown to be met.                      *)
(***************************************************************************)
EXTENDS Tiering

CONSTANTS
    Line,                                   \* as in JitMemory
    Zero, NoObj, NoWord,
    Stale,                                  \* what memory held before
    NoFunc                                  \* no compilation is under way

VARIABLES
    owner, image, live, building, step, left, writable, running,
    memPhase, mem, point, icache,           \* as in JitMemory
    hot                                     \* the function being compiled, or NoFunc

memory == <<owner, image, live, building, step, left, writable, running,
            memPhase, mem, point, icache>>
tiers == <<calls, counts, compiled, regions, stack, phase>>
allVars == <<tiers, memory, hot>>

Obj == 1 .. Cardinality(Func)
Code == [of : SUBSET Func]
Word == Code \cup {Zero, Stale}

ASSUME NoObjIsNoRegion == NoObj \notin Obj
ASSUME NoWordIsNoCode == NoWord \notin Word
ASSUME NoFuncIsNone == NoFunc \notin Func

J == INSTANCE JitMemory WITH phase <- memPhase

(* Between two statements of the host: no compilation is under way. *)
Idle == hot = NoFunc

-----------------------------------------------------------------------------
MemoryInit == J!Init /\ point \in [Line -> {Zero, Stale}] /\ hot = NoFunc

(* invoke: the processor runs region r, whatever the state of it. *)
Jump(r) ==
    /\ IF writable THEN memPhase' = "crashed" /\ UNCHANGED running
       ELSE running' = r /\ UNCHANGED memPhase
    /\ UNCHANGED <<owner, image, live, building, step, left, writable, mem, point, icache>>

(* Control is back in the host. *)
Back ==
    /\ running' = NoObj
    /\ UNCHANGED <<owner, image, live, building, step, left, writable, memPhase,
                   mem, point, icache>>

-----------------------------------------------------------------------------
(* Interpreter::call for f over the frames in below *)

CallCompiled(f, below) == EnterCompiled(f, below) /\ Jump(compiled[f]) /\ UNCHANGED hot

CallCold(f, below) == EnterCold(f, below) /\ UNCHANGED <<memory, hot>>

CallSettled(f, below) == CallCompiled(f, below) \/ CallCold(f, below)

StartSettled ==
    /\ Idle /\ phase = "start"
    /\ CallSettled(Main, <<>>)
    /\ phase' = "running"
    /\ UNCHANGED calls

FinishArgsSettled ==
    /\ Idle /\ phase = "running" /\ Top.kind = "args"
    /\ CallSettled(Top.fn, Popped)
    /\ UNCHANGED <<calls, phase>>

(* Slip: the members are bound as soon as the address is known. *)
CompileBeginsBound ==
    /\ Idle
    /\ \E f \in Func :
          /\ Entering(f) /\ ~IsCompiled(f) /\ ~StaysCold(f)
          /\ Count(f)
          /\ CompileHot(f)
          /\ hot' = f
          /\ \E ls \in (SUBSET J!LinesOf(NoObj)) \ {{}} :
                LET r == Len(regions) + 1 IN
                /\ building' = r
                /\ image' = [image EXCEPT ![r] = [l \in Line |-> [of |-> HotSetOf(f)]]]
                /\ owner' = [l \in Line |-> IF l \in ls THEN r ELSE owner[l]]
                /\ mem' = [l \in Line |-> IF l \in ls THEN Zero ELSE mem[l]]
    /\ step' = "mapped"
    /\ UNCHANGED <<calls, stack, phase>>
    /\ UNCHANGED <<live, left, writable, running, memPhase, point, icache>>

(***************************************************************************)
(* The call that promotes f: the counter, then compile_hot, as far as the  *)
(* mmap of the new region's JitMemory, which any free lines may satisfy.   *)
(***************************************************************************)
CompileBegins ==
    /\ Idle
    /\ \E f \in Func :
          /\ Entering(f) /\ ~IsCompiled(f) /\ ~StaysCold(f)
          /\ Count(f)
          /\ hot' = f
          /\ \E ls \in (SUBSET J!LinesOf(NoObj)) \ {{}} :
                LET r == Len(regions) + 1 IN
                /\ building' = r
                /\ image' = [image EXCEPT ![r] = [l \in Line |-> [of |-> HotSetOf(f)]]]
                /\ owner' = [l \in Line |-> IF l \in ls THEN r ELSE owner[l]]
                /\ mem' = [l \in Line |-> IF l \in ls THEN Zero ELSE mem[l]]
    /\ step' = "mapped"
    /\ UNCHANGED <<calls, compiled, regions, stack, phase>>
    /\ UNCHANGED <<live, left, writable, running, memPhase, point, icache>>

(* The compiler or mmap gives up; the counter has been bumped. *)
CompileDies ==
    /\ Idle
    /\ CompileAborts
    /\ memPhase' = "aborted"
    /\ UNCHANGED <<owner, image, live, building, step, left, writable, running,
                   mem, point, icache, hot>>

(* The rest of the constructor. *)
CompileGoesOn ==
    /\ phase = "running" \/ phase = "start"
    /\ J!Unprotect \/ J!Copy \/ J!Protect \/ J!Invalidate
    /\ UNCHANGED <<tiers, hot>>

(* The frames below the call that promotes: none below __main__'s. *)
Below == IF phase = "start" THEN <<>> ELSE Popped

(* The members are bound, the region is kept, and the call goes native. *)
CompileEnds ==
    /\ ~Idle /\ step = "idle"
    /\ CompileHot(hot)
    /\ stack' = Append(Below, Native(hot, Len(regions) + 1))
    /\ phase' = "running"
    /\ hot' = NoFunc
    /\ Jump(Len(regions) + 1)
    /\ UNCHANGED <<calls, counts>>

-----------------------------------------------------------------------------
(* The running program *)

WalkCall == Idle /\ BeginCall /\ UNCHANGED <<memory, hot>>

(* A BL stays in its buffer. *)
CodeCall == NativeCall /\ UNCHANGED <<memory, hot>>

ReturnInCode ==
    /\ Idle /\ Return
    /\ Len(stack) > 1 /\ Top.kind = "native" /\ stack[Len(stack) - 1].kind = "native"
    /\ UNCHANGED <<memory, hot>>

ReturnToHost ==
    /\ Idle /\ Return
    /\ Top.kind = "native" /\ (Len(stack) > 1 => stack[Len(stack) - 1].kind # "native")
    /\ Back /\ UNCHANGED hot

ReturnInWalk ==
    /\ Idle /\ Return
    /\ Top.kind = "interp"
    /\ UNCHANGED <<memory, hot>>

(* exit(1): nothing is destroyed. *)
DivideByZero == Idle /\ DivZero /\ UNCHANGED <<memory, hot>>

(* Slip: released as soon as the newest region is there. *)
ReleaseAnyTime ==
    /\ \E r \in live :
          /\ r < Len(regions)
          /\ live' = live \ {r}
          /\ owner' = [l \in Line |-> IF owner[l] = r THEN NoObj ELSE owner[l]]
    /\ UNCHANGED <<tiers, hot, image, building, step, left, writable, running,
                   memPhase, mem, point, icache>>

(* ~TierManager, at the end of run_tiered: every region, one by one. *)
Release ==
    /\ phase = "done"
    /\ \E r \in live :
          /\ live' = live \ {r}
          /\ owner' = [l \in Line |-> IF owner[l] = r THEN NoObj ELSE owner[l]]
    /\ UNCHANGED <<tiers, hot, image, building, step, left, writable, running,
                   memPhase, mem, point, icache>>

Caches == J!Hardware /\ UNCHANGED <<tiers, hot>>

MemoryNext ==
    \/ StartSettled \/ FinishArgsSettled
    \/ CompileBegins \/ CompileDies \/ CompileGoesOn \/ CompileEnds
    \/ WalkCall \/ CodeCall \/ ReturnInCode \/ ReturnToHost \/ ReturnInWalk
    \/ DivideByZero \/ Release \/ Caches

MemorySpec == Init /\ MemoryInit /\ [][MemoryNext]_allVars
-----------------------------------------------------------------------------
(***************************************************************************)
(* What the processor fetches under a native frame is the code of the      *)
(* function it runs and of all it calls: the region is still there, was    *)
(* complete when it was entered, and nothing older is left in the caches,  *)
(* whichever regions were made since (tiering.cc:133-156, tiering.h:94-98).*)
(***************************************************************************)
FetchesOwnCode ==
    \A i \in DOMAIN stack :
        stack[i].kind = "native" =>
            /\ stack[i].region \in live
            /\ J!LinesOf(stack[i].region) # {}
            /\ \A l \in J!LinesOf(stack[i].region) :
                  /\ J!Sees(l) \in Code
                  /\ {stack[i].fn} \cup calls[stack[i].fn] \subseteq J!Sees(l).of

(***************************************************************************)
(* The tiers use memory as JitMemory assumes: a region is made and freed   *)
(* only with control in the host, and only what was built is entered.  So  *)
(* what is shown of JitMemory holds here.                                  *)
(***************************************************************************)
UsesMemoryAsAssumed == J!Spec

Ti == INSTANCE Tiering WITH
        counts <- IF Idle THEN counts ELSE [counts EXCEPT ![hot] = @ - 1]

(***************************************************************************)
(* A compilation, for all its steps, is one step of Tiering to the program *)
(* that runs: nothing sees an entry before its code is in place.           *)
(***************************************************************************)
ImplementsTiering == Ti!Spec
=============================================================================
