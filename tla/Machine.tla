------------------------------ MODULE Machine ------------------------------
(***************************************************************************)
(* The processor, external to the repository, running code that codegen    *)
(* made: what each instruction the emitter can emit does, and what the two *)
(* host functions look like from inside the code.  Whatever the code may   *)
(* not rely on holds Junk: registers and flags after a call into the host, *)
(* the stack below sp, the registers an entry does not pass.               *)
(***************************************************************************)
EXTENDS Instructions

CONSTANTS
    StackWords,      \* words of memory given to the stack
    Junk             \* a value nobody may look at

ASSUME StackHasWords == StackWords \in Nat
ASSUME JunkIsNoValue == Junk \notin Int /\ Junk \notin [N : BOOLEAN, Z : BOOLEAN, V : BOOLEAN]

VARIABLES
    code,            \* the instructions, and
    pc,              \* the one about to run, counting from 0
    x,               \* the registers that the code names
    sp,
    flags,           \* N, Z and V, or Junk
    mem,             \* the stack by address, in bytes
    out,             \* what print has written
    end              \* "running", "returned", "exited", or "aborted" if the
                     \* emitter gave up and there is no code to run

machine == <<code, pc, x, sp, flags, mem, out, end>>

Registers == 0 .. 7 \cup {X16, FP, LR}
Addresses == {8 * i : i \in 0 .. StackWords - 1}

HostWords == 2                              \* of the frame that calls in
HostSp == 8 * (StackWords - HostWords)
HostFp == 8 * StackWords
HostPc == -1                                \* where the entry returns to

(* Called from C++ with these arguments. *)
Powered(args, entry) ==
    /\ pc = entry
    /\ x = [r \in Registers |->
               CASE r < Len(args) -> args[r + 1]
                 [] r = FP -> HostFp
                 [] r = LR -> HostPc
                 [] OTHER -> Junk]
    /\ sp = HostSp
    /\ flags = Junk
    /\ mem = [a \in Addresses |-> Junk]
    /\ out = <<>>

-----------------------------------------------------------------------------
(* Operands: 31 is zero in most instructions, sp in the others *)

Zr(r) == IF r = XZR THEN 0 ELSE x[r]
Sr(r) == IF r = SP THEN sp ELSE x[r]

Here == code[pc + 1]

Stores == {"str_pre", "stur", "stp_pre"}
Loads == {"ldr_post", "ldur", "ldp_post"}
Pairs == {"stp_pre", "ldp_post"}
Before == {"str_pre", "stp_pre"}            \* sp moves and then is used
After == {"ldr_post", "ldp_post"}           \* sp is used and then moves
Arith == {"add", "sub", "madd", "msub", "sdiv"}

(* What an instruction makes its outcome depend on. *)
Consumed(i) ==
    CASE i.op \in {"add", "sub", "subs", "sdiv"} -> {Zr(i.rn), Zr(i.rm)}
      [] i.op \in {"madd", "msub"} -> {Zr(i.rn), Zr(i.rm), Zr(i.ra)}
      [] i.op = "movk" -> {x[i.rd]}
      [] i.op = "csinc" -> {flags}
      [] i.op \in {"addi", "subi"} \cup Stores \cup Loads -> {Sr(i.rn)}
      [] i.op \in {"cbz", "cbnz"} -> {Zr(i.rt)}
      [] i.op = "blr" -> {x[i.rn]} \cup (IF x[i.rn] = PrintAddr THEN {x[X0]} ELSE {})
      [] i.op = "ret" -> {x[LR]}
      [] OTHER -> {}

(* The words an access touches; its base may not be Junk. *)
Base(i) == IF i.op \in After THEN Sr(i.rn) ELSE Sr(i.rn) + i.imm
Touched(i) ==
    IF i.op \in Pairs THEN {Base(i), Base(i) + 8}
    ELSE IF i.op \in Stores \cup Loads THEN {Base(i)}
    ELSE {}

(* Inside the code, and with values the program put there, ... *)
Defined == pc \in 0 .. Len(code) - 1 /\ Junk \notin Consumed(Here)

(* ... inside the stack, with sp aligned when it is the base or at a call, *)
(* calling nothing but the two host functions.                             *)
Allowed ==
    /\ Touched(Here) \subseteq Addresses
    /\ Here.op \in {"bl", "blr", "str_pre", "ldr_post", "stp_pre", "ldp_post"} => sp % 16 = 0
    /\ Here.op = "blr" => x[Here.rn] \in {PrintAddr, AbortAddr}

(* The next instruction is one of these, and has a defined effect. *)
At(ops) == end = "running" /\ Defined /\ Allowed /\ Here.op \in ops

Set(r, v) == x' = [x EXCEPT ![r] = v]
NextPc == pc' = pc + 1

-----------------------------------------------------------------------------
(* Arithmetic *)

(* movz and movk: a chunk of the register, the others cleared or kept. *)
Move ==
    /\ At({"movz", "movk"})
    /\ LET shift == Shift(Here.hw)
           old == IF Here.op = "movz" THEN 0 ELSE x[Here.rd] % Modulus
           chunk == (old \div shift) % ChunkSize
       IN  Set(Here.rd, Wrap(old + (Here.imm - chunk) * shift))
    /\ NextPc
    /\ UNCHANGED <<code, sp, flags, mem, out, end>>

(* The divisor of sdiv may be zero: the quotient is zero then. *)
Compute ==
    /\ At(Arith)
    /\ LET n == Zr(Here.rn)
           m == Zr(Here.rm)
       IN  Set(Here.rd,
               CASE Here.op = "add" -> Wrap(n + m)
                 [] Here.op = "sub" -> Wrap(n - m)
                 [] Here.op = "madd" -> Wrap(Zr(Here.ra) + n * m)
                 [] Here.op = "msub" -> Wrap(Zr(Here.ra) - n * m)
                 [] Here.op = "sdiv" -> IF m = 0 THEN 0 ELSE Wrap(Truncated(n, m)))
    /\ NextPc
    /\ UNCHANGED <<code, sp, flags, mem, out, end>>

(* subs into the zero register *)
Compare ==
    /\ At({"subs"})
    /\ LET d == Zr(Here.rn) - Zr(Here.rm)
       IN  flags' = [N |-> Wrap(d) < 0, Z |-> d = 0, V |-> d \notin Word]
    /\ NextPc
    /\ UNCHANGED <<code, x, sp, mem, out, end>>

(* The even codes; an odd one is the opposite of the code before it. *)
Holds(cond) ==
    LET base == CASE cond \div 2 = 0 -> flags.Z
                  [] cond \div 2 = 5 -> flags.N = flags.V
                  [] cond \div 2 = 6 -> ~flags.Z /\ flags.N = flags.V
    IN  base = (cond % 2 = 0)

Select ==
    /\ At({"csinc"})
    /\ Set(Here.rd, IF Holds(Here.cond) THEN Zr(Here.rn) ELSE Wrap(Zr(Here.rm) + 1))
    /\ NextPc
    /\ UNCHANGED <<code, sp, flags, mem, out, end>>

(* The addresses the code computes: sp or x29 and a small distance. *)
MoveAddress ==
    /\ At({"addi", "subi"})
    /\ LET a == IF Here.op = "addi" THEN Sr(Here.rn) + Here.imm ELSE Sr(Here.rn) - Here.imm
       IN  IF Here.rd = SP THEN sp' = a /\ UNCHANGED x
           ELSE Set(Here.rd, a) /\ UNCHANGED sp
    /\ NextPc
    /\ UNCHANGED <<code, flags, mem, out, end>>

-----------------------------------------------------------------------------
(* Memory; the base is sp whenever it moves *)

MovedSp == sp' = IF Here.op \in Before \cup After THEN sp + Here.imm ELSE sp

Store ==
    /\ At(Stores)
    /\ mem' = [a \in Addresses |->
                  CASE a = Base(Here) -> Zr(Here.rt)
                    [] Here.op \in Pairs /\ a = Base(Here) + 8 -> Zr(Here.rt2)
                    [] OTHER -> mem[a]]
    /\ MovedSp
    /\ NextPc
    /\ UNCHANGED <<code, x, flags, out, end>>

Load ==
    /\ At(Loads)
    /\ x' = [r \in Registers |->
                CASE r = Here.rt -> mem[Base(Here)]
                  [] Here.op \in Pairs /\ r = Here.rt2 -> mem[Base(Here) + 8]
                  [] OTHER -> x[r]]
    /\ MovedSp
    /\ NextPc
    /\ UNCHANGED <<code, flags, mem, out, end>>

-----------------------------------------------------------------------------
(* Branches; a displacement counts from the branch *)

Branch ==
    /\ At({"b", "bl", "cbz", "cbnz"})
    /\ LET taken == \/ Here.op \in {"b", "bl"}
                    \/ Here.op = "cbz" /\ Zr(Here.rt) = 0
                    \/ Here.op = "cbnz" /\ Zr(Here.rt) # 0
       IN  pc' = IF taken THEN pc + Here.to ELSE pc + 1
    /\ x' = IF Here.op = "bl" THEN [x EXCEPT ![LR] = pc + 1] ELSE x
    /\ UNCHANGED <<code, sp, flags, mem, out, end>>

Ret ==
    /\ At({"ret"})
    /\ pc' = x[LR]
    /\ end' = IF x[LR] = HostPc THEN "returned" ELSE end
    /\ UNCHANGED <<code, x, sp, flags, mem, out>>

(* mp_print: prints its argument and returns 0; the rest as the ABI allows. *)
HostPrint ==
    /\ At({"blr"})
    /\ x[Here.rn] = PrintAddr
    /\ out' = Append(out, x[X0])
    /\ x' = [r \in Registers |->
                CASE r = X0 -> 0
                  [] r = LR -> pc + 1
                  [] r = FP -> x[FP]
                  [] OTHER -> Junk]
    /\ flags' = Junk
    /\ mem' = [a \in Addresses |-> IF a < sp THEN Junk ELSE mem[a]]
    /\ NextPc
    /\ UNCHANGED <<code, sp, end>>

(* mp_div_zero_abort: flushes, reports and exits. *)
HostAbort ==
    /\ At({"blr"})
    /\ x[Here.rn] = AbortAddr
    /\ end' = "exited"
    /\ UNCHANGED <<code, pc, x, sp, flags, mem, out>>

Step ==
    \/ Move \/ Compute \/ Compare \/ Select \/ MoveAddress
    \/ Store \/ Load
    \/ Branch \/ Ret \/ HostPrint \/ HostAbort
=============================================================================
