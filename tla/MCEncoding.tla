----------------------------- MODULE MCEncoding -----------------------------
(***************************************************************************)
(* An instance of Encoding.  Every operand field takes values that set and *)
(* clear each of its bits, the ends of its range, and values past them.    *)
(* A single word takes them all; several words, with several labels, are   *)
(* branches and returns, which is what fixups and finalize are about.      *)
(***************************************************************************)
EXTENDS Encoding

OperandRegs == {0, 10, 21, 31, 32}

Quarters == 0 .. 4
Chunks == {0, 21845, 43690, 65535}
Unsigned12 == {0, 1365, 2730, 4095, 4096}
Signed9 == {-257, -256, -171, 0, 170, 255, 256}
Pairs7 == {-520, -512, -344, 4, 336, 504, 512}

CondCodes == {0, 1, 10, 11, 12, 13}

(* The words the comments of emitter.cc give for their examples, with the  *)
(* instructions they give them for: Decode reads them as meant.            *)
Examples ==
    {<<Word(\hD280, \h0540), G!movz(0, 42, 0)>>, <<Word(\hF2C2, \h4680), G!movk(0, 4660, 2)>>,
     <<Word(\hAA01, \h03E0), mov_record(0, 1)>>, <<Word(\h8B02, \h0020), G!add_reg(0, 1, 2)>>,
     <<Word(\hCB02, \h0020), G!sub_reg(0, 1, 2)>>, <<Word(\h9B02, \h7C20), G!mul(0, 1, 2)>>,
     <<Word(\h9AC2, \h0C20), G!sdiv(0, 1, 2)>>, <<Word(\h9B02, \h8C20), G!msub(0, 1, 2, 3)>>,
     <<Word(\hCB01, \h03E0), G!neg(0, 1)>>, <<Word(\h9100, \h2820), G!add_imm(0, 1, 10)>>,
     <<Word(\h9100, \h43FF), G!add_imm(31, 31, 16)>>,
     <<Word(\hD100, \h2820), G!sub_imm(0, 1, 10)>>, <<Word(\hEB01, \h001F), G!cmp(0, 1)>>,
     <<Word(\h9A9F, \hA7E0), G!cset(0, 11)>>, <<Word(\hF81F, \h0FE0), G!str_pre(0, 31, -16)>>,
     <<Word(\hF841, \h07E0), G!ldr_post(0, 31, 16)>>,
     <<Word(\hF81F, \h83A0), G!stur(0, 29, -8)>>, <<Word(\hF85F, \h83A0), G!ldur(0, 29, -8)>>,
     <<Word(\hA9BF, \h7BFD), G!stp_pre(29, 30, 31, -16)>>,
     <<Word(\hA8C1, \h7BFD), G!ldp_post(29, 30, 31, 16)>>,
     <<Word(\hD63F, \h0200), G!blr(16)>>, <<Word(\hD65F, \h03C0), G!ret>>,
     <<Word(\h1400, \h0000), [op |-> "b", by |-> 0]>>,
     <<Word(\h9400, \h0000), [op |-> "bl", by |-> 0]>>,
     <<Word(\h5400, \h000B), [op |-> "b_cond", cond |-> 11, by |-> 0]>>,
     <<Word(\hB400, \h0000), [op |-> "cbz", rt |-> 0, by |-> 0]>>,
     <<Word(\hB500, \h0000), [op |-> "cbnz", rt |-> 0, by |-> 0]>>}

ASSUME ExamplesDecode == \A e \in Examples : Decode(e[1]) = e[2]

Alone == INSTANCE Encoding WITH MaxWords <- 1, MaxLabels <- 1

Branching == INSTANCE Encoding WITH
                Regs <- {}, Tested <- {0}, Halves <- {}, Imm16 <- {}, Imm12 <- {},
                Imm9 <- {}, Imm7 <- {}, Conds <- {}

OnlyBranches == \A p \in DOMAIN listing : listing[p].text.op \in {"b", "bl", "cbz", "ret"}

MCSpec == Init /\ [][Alone!Next \/ (OnlyBranches /\ Branching!Next)]_vars
=============================================================================
