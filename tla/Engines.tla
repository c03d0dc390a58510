------------------------------ MODULE Engines ------------------------------
(***************************************************************************)
(* The two engines side by side: compiled code on the machine, started the *)
(* way run_jit and TierManager::invoke start it, against what the tree     *)
(* walker computes for the same call.                                      *)
(***************************************************************************)
EXTENDS Machine, Codegen, Interp, Sema, Calls

CONSTANT Cases       \* what is run: a program, the function called, its
                     \* arguments, and whether all of it is compiled (run_jit)
                     \* or what that function can reach (compile_hot)

VARIABLES
    frames,          \* where the epilogues are, and the frame each removes
    oracle           \* where the tree walk of the same call ended

vars == <<code, pc, x, sp, flags, mem, out, end, frames, oracle>>

(* The walk, when it is over within its bound. *)
Walked(walk) ==
    /\ walk.end # "fuel"
    /\ oracle = [val |-> walk.val, out |-> walk.out, end |-> walk.end]

(* The compiled code, entered at a function of it. *)
Compiled(g, entry, args) ==
    /\ code = g.code
    /\ frames = g.exits
    /\ end = IF g.bug THEN "aborted" ELSE "running"
    /\ Powered(args, g.offsets[FuncLabel(g, entry)])

(* One case, of a program that sema accepts. *)
Begin(case) ==
    /\ Accepts(case.prog)
    /\ \E prog \in {Resolved(case.prog)} :
          /\ Len(case.args) = Len(FunctionNamed(prog, case.entry).params)
          /\ Walked(CallFn(prog, FunctionNamed(prog, case.entry), case.args, Fresh))
          /\ Compiled(compile(IF case.whole THEN prog ELSE reachable_from(prog, case.entry)),
                      case.entry, case.args)

Init == \E case \in Cases : Begin(case)

Next == Step /\ UNCHANGED <<frames, oracle>>

(* Nothing pauses the processor inside compiled code. *)
Spec == Init /\ [][Next]_vars /\ WF_vars(Next)

-----------------------------------------------------------------------------
(***************************************************************************)
(* The promise of the project (main.cc:46-47, README, tests/run.sh): the   *)
(* engines print the same, in the same order, return the same value, and   *)
(* stop at the same division by zero with the same output before it.       *)
(* Evaluation order of operands and arguments, short circuits, wraparound, *)
(* zeroed locals and the chunks of constants are all in it.                *)
(***************************************************************************)
EnginesAgree ==
    /\ IsPrefix(out, oracle.out)
    /\ end = "returned" => out = oracle.out /\ oracle.end = "running" /\ x[X0] = oracle.val
    /\ end = "exited" => out = oracle.out /\ oracle.end = "zero"

(***************************************************************************)
(* Compiled code never acts on a value it did not make: not on a local     *)
(* before its zeroing, not on the stack below sp, not on a register or a   *)
(* flag across a call into the host, and it never runs off its end, not    *)
(* even after the division stub, which has nothing after its call.         *)
(***************************************************************************)
NothingUndefined == end = "running" => Defined

(***************************************************************************)
(* sp stays inside the stack and aligned wherever the hardware or the ABI  *)
(* looks, calls into the host go to the two runtime functions (runtime.cc) *)
(* and no emitter_bug stops the compilation of an accepted program.        *)
(***************************************************************************)
NeverFaults ==
    /\ end # "aborted"
    /\ (end = "running" /\ Defined) => Allowed

(***************************************************************************)
(* All engines have to agree on a legal program (README:28), and an        *)
(* emitter_bug means that the compiler itself is wrong (emitter.cc:27-30): *)
(* so none stops an accepted program.                                      *)
(***************************************************************************)
AcceptedCompiles == end # "aborted"

(***************************************************************************)
(* The callee's side of the ABI (codegen.cc, gen_prologue, gen_epilogue):  *)
(* when the entry returns, the host has its stack pointer, frame pointer   *)
(* and stack back.                                                         *)
(***************************************************************************)
AbiHonoured ==
    end = "returned" =>
        /\ sp = HostSp
        /\ x[FP] = HostFp
        /\ \A a \in Addresses : a >= HostSp => mem[a] = Junk

(***************************************************************************)
(* Pushes and pops match on every path: whenever an epilogue begins, on    *)
(* falling off the end or on a return from inside any nesting, nothing is  *)
(* left on the stack above the frame.  The epilogue would hide it, since   *)
(* it restores sp from x29 (codegen.cc:443-445); a loop would not.         *)
(***************************************************************************)
BalancedAtReturn ==
    \A f \in frames :
        (end = "running" /\ pc = f.at) => sp = x[FP] - f.frame

(***************************************************************************)
(* Compiled code comes to an end whenever the walk does: no branch goes    *)
(* back to the wrong place.                                                *)
(***************************************************************************)
Terminates == <>(end # "running")
=============================================================================
