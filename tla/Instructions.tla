---------------------------- MODULE Instructions ----------------------------
(***************************************************************************)
(* The instructions of the emitter, and the sequences of them that         *)
(* codegen emits without a branch between.  An instruction is a record of  *)
(* its operation and operands.  The aliases of the emitter are the         *)
(* instructions they stand for: cmp is a subtract that keeps only the      *)
(* flags, and so on.                                                       *)
(***************************************************************************)
EXTENDS Words, Sequences

CONSTANTS
    PrintAddr, AbortAddr   \* addresses of mp_print and mp_div_zero_abort

X0 == 0
X1 == 1
X2 == 2
X16 == 16
FP == 29
LR == 30
SP == 31     \* in the instructions that read 31 that way
XZR == 31    \* in the others

(* Condition codes; flipping the low bit inverts the condition. *)
Cond(op) ==
    CASE op = "Eq" -> 0 [] op = "Ne" -> 1 [] op = "Ge" -> 10
      [] op = "Lt" -> 11 [] op = "Gt" -> 12 [] op = "Le" -> 13

Inverted(cond) == IF cond % 2 = 0 THEN cond + 1 ELSE cond - 1

-----------------------------------------------------------------------------
(* The instructions of the emitter *)

movz(rd, imm, hw) == [op |-> "movz", rd |-> rd, imm |-> imm, hw |-> hw]
movk(rd, imm, hw) == [op |-> "movk", rd |-> rd, imm |-> imm, hw |-> hw]
add_reg(rd, rn, rm) == [op |-> "add", rd |-> rd, rn |-> rn, rm |-> rm]
sub_reg(rd, rn, rm) == [op |-> "sub", rd |-> rd, rn |-> rn, rm |-> rm]
neg(rd, rm) == sub_reg(rd, XZR, rm)
mul(rd, rn, rm) == [op |-> "madd", rd |-> rd, rn |-> rn, rm |-> rm, ra |-> XZR]
msub(rd, rn, rm, ra) == [op |-> "msub", rd |-> rd, rn |-> rn, rm |-> rm, ra |-> ra]
sdiv(rd, rn, rm) == [op |-> "sdiv", rd |-> rd, rn |-> rn, rm |-> rm]
cmp(rn, rm) == [op |-> "subs", rd |-> XZR, rn |-> rn, rm |-> rm]
cset(rd, cond) == [op |-> "csinc", rd |-> rd, rn |-> XZR, rm |-> XZR, cond |-> Inverted(cond)]
add_imm(rd, rn, imm) == [op |-> "addi", rd |-> rd, rn |-> rn, imm |-> imm]
sub_imm(rd, rn, imm) == [op |-> "subi", rd |-> rd, rn |-> rn, imm |-> imm]
str_pre(rt, rn, imm) == [op |-> "str_pre", rt |-> rt, rn |-> rn, imm |-> imm]
ldr_post(rt, rn, imm) == [op |-> "ldr_post", rt |-> rt, rn |-> rn, imm |-> imm]
stur(rt, rn, imm) == [op |-> "stur", rt |-> rt, rn |-> rn, imm |-> imm]
ldur(rt, rn, imm) == [op |-> "ldur", rt |-> rt, rn |-> rn, imm |-> imm]
stp_pre(rt, rt2, rn, imm) ==
    [op |-> "stp_pre", rt |-> rt, rt2 |-> rt2, rn |-> rn, imm |-> imm]
ldp_post(rt, rt2, rn, imm) ==
    [op |-> "ldp_post", rt |-> rt, rt2 |-> rt2, rn |-> rn, imm |-> imm]
b(l) == [op |-> "b", to |-> l]
bl(l) == [op |-> "bl", to |-> l]
cbz(rt, l) == [op |-> "cbz", rt |-> rt, to |-> l]
cbnz(rt, l) == [op |-> "cbnz", rt |-> rt, to |-> l]
blr(rn) == [op |-> "blr", rn |-> rn]
ret == [op |-> "ret"]

(* The range checks of imm9_field, imm7_field and imm12_field. *)
Encodable(i) ==
    CASE i.op \in {"str_pre", "ldr_post", "stur", "ldur"} -> i.imm \in -256 .. 255
      [] i.op \in {"stp_pre", "ldp_post"} -> i.imm % 8 = 0 /\ i.imm \in -512 .. 504
      [] i.op \in {"addi", "subi"} -> i.imm \in 0 .. 4095
      [] OTHER -> TRUE

(* The chunks of a word, the lowest first. *)
Shift(hw) ==
    CASE hw = 0 -> 1 [] hw = 1 -> ChunkSize
      [] hw = 2 -> ChunkSize * ChunkSize
      [] hw = 3 -> ChunkSize * ChunkSize * ChunkSize

Chunk(value, hw) == ((value % Modulus) \div Shift(hw)) % ChunkSize

(* One turn of its loop: no instruction for a chunk of zero, a movz for    *)
(* the first of the others, a movk for the rest.                           *)
MoveChunk(rd, value, hw) ==
    IF Chunk(value, hw) = 0 THEN <<>>
    ELSE IF \A k \in 0 .. hw - 1 : Chunk(value, k) = 0
    THEN <<movz(rd, Chunk(value, hw), hw)>>
    ELSE <<movk(rd, Chunk(value, hw), hw)>>

mov_imm64(rd, value) ==
    LET moves == MoveChunk(rd, value, 0) \o MoveChunk(rd, value, 1)
                     \o MoveChunk(rd, value, 2) \o MoveChunk(rd, value, 3)
    IN  IF moves = <<>> THEN <<movz(rd, 0, 0)>> ELSE moves

-----------------------------------------------------------------------------
(* The layout of a frame, and small helpers *)

(* Slip: slot 0 at the frame pointer, where the caller's x29 is saved. *)
slot_offset_at_fp(slot) == -8 * slot

slot_offset(slot) == -8 * (slot + 1)

frame_size(nslots) == ((nslots * 8 + 15) \div 16) * 16

push_x0 == str_pre(X0, SP, -16)
pop_into(r) == ldr_post(r, SP, 16)
call_host(address) == Append(mov_imm64(X16, address), blr(X16))

(* What gen_unary emits behind the operand, which is in x0. *)
UnaryCode(op) ==
    IF op = "Neg" THEN <<neg(X0, X0)>> ELSE <<cmp(X0, XZR), cset(X0, Cond("Eq"))>>

(* What gen_binary emits behind the operands, the left in x1 and the right *)
(* in x0; a division goes to zero first when there is nothing to divide by.*)
BinaryCode(op) ==
    CASE op = "Add" -> <<add_reg(X0, X1, X0)>>
      [] op = "Sub" -> <<sub_reg(X0, X1, X0)>>
      [] op = "Mul" -> <<mul(X0, X1, X0)>>
      [] op = "Div" -> <<sdiv(X0, X1, X0)>>
      [] op = "Mod" -> <<sdiv(X2, X1, X0), msub(X0, X2, X0, X1)>>
      [] OTHER -> <<cmp(X1, X0), cset(X0, Cond(op))>>

OperationCode(op, zero) ==
    (IF op \in Divisions THEN <<cbz(X0, zero)>> ELSE <<>>) \o BinaryCode(op)

(* What gen_call emits between the arguments, pushed in order, and the bl. *)
unload(nargs) == [i \in 1 .. nargs |-> pop_into(nargs - i)]

(* Save the link, make the frame, spill the parameters, zero the locals.   *)
Prologue(nparams, nslots) ==
    <<stp_pre(FP, LR, SP, -16), add_imm(FP, SP, 0)>>
    \o (IF frame_size(nslots) > 0 THEN <<sub_imm(SP, SP, frame_size(nslots))>> ELSE <<>>)
    \o [i \in 1 .. nslots |->
           stur(IF i <= nparams THEN i - 1 ELSE XZR, FP, slot_offset(i - 1))]

gen_epilogue == <<add_imm(SP, FP, 0), ldp_post(FP, LR, SP, 16), ret>>
=============================================================================
