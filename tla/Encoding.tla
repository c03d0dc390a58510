------------------------------ MODULE Encoding ------------------------------
(***************************************************************************)
(* The emitter down to the bits.  A word is the set of the bits that are   *)
(* one, so that the OR of the code is a union and its masks are            *)
(* intersections; nothing keeps two operands from meeting in one bit but   *)
(* the range checks of the code.                                           *)
(*                                                                         *)
(* The text of a listing line is the instruction it names, as the record   *)
(* that Codegen emits and Machine executes.  Decode is the processor's     *)
(* view of a word.  Labels, fixups and finalize are those of Emitter,      *)
(* which this module implements.                                           *)
(***************************************************************************)
EXTENDS Integers, Sequences, FiniteSets

CONSTANTS
    Regs, Tested,                \* the registers operands are drawn from, and
                                 \* those cbz and cbnz test
    Halves, Imm16,               \* of movz and movk
    Imm12, Imm9, Imm7,           \* of add_imm, of stur, of stp_pre
    Conds,                       \* values of Cond
    MaxWords, MaxLabels          \* bounds on the words and labels

(* The types of the parameters: int, uint16_t, uint32_t, and an enumeration *)
(* whose members fit the field for them (emitter.h:68-81).                  *)
ASSUME OperandsHaveTypes ==
    /\ Regs \subseteq Int /\ Tested \subseteq Int /\ Halves \subseteq Int
    /\ Imm12 \subseteq Nat /\ Imm9 \subseteq Int /\ Imm7 \subseteq Int
    /\ \A imm \in Imm16 : imm \in Nat /\ imm <= 65535
    /\ \A cond \in Conds : cond \in Nat /\ cond <= 15
ASSUME BoundsAreNat == MaxWords \in Nat /\ MaxLabels \in Nat

VARIABLES code, listing, labelPos, fixups, status, next, bytes

vars == <<code, listing, labelPos, fixups, status, next, bytes>>

(* The records of the instructions; none of the constants there matter. *)
G == INSTANCE Instructions WITH PrintAddr <- 0, AbortAddr <- 0, ChunkSize <- 2 ^ 16

mov_record(rd, rm) == [op |-> "orr", rd |-> rd, rn |-> G!XZR, rm |-> rm]
b_cond_record(cond, l) == [op |-> "b_cond", cond |-> cond, to |-> l]

kUnbound == -1

-----------------------------------------------------------------------------
(* Words *)

Bit == 0 .. 31

TwoTo[j \in 0 .. 30] == IF j = 0 THEN 1 ELSE 2 * TwoTo[j - 1]

(* The bits of a number that are one. *)
Bits(n) == {j \in 0 .. 30 : (n \div TwoTo[j]) % 2 = 1}

(* static_cast<uint32_t>(n) << k *)
Shl(n, k) == {k + j : j \in Bits(n)} \cap Bit

(* A constant of 32 bits, by its halves. *)
Word(high, low) == Shl(high, 16) \cup Shl(low, 0)

(* The value of bits high .. low, plain and in two's complement. *)
Field(w, high, low) ==
    LET value[j \in low .. high + 1] ==
            IF j > high THEN 0 ELSE (IF j \in w THEN 1 ELSE 0) + 2 * value[j + 1]
    IN  value[low]

Signed(w, high, low) ==
    Field(w, high - 1, low) - (IF high \in w THEN TwoTo[high - low] ELSE 0)

(***************************************************************************)
(* The processor's reading of a word, for the instructions the emitter     *)
(* has: the fields that select the class, then those that select the       *)
(* instruction, then the operands.  A branch has its displacement in "by". *)
(***************************************************************************)
Undefined == [op |-> "undefined"]

Decode(w) ==
    LET F(high, low) == Field(w, high, low)
        rd == F(4, 0)
        rn == F(9, 5)
        rm == F(20, 16)
        ra == F(14, 10)
        is64 == 31 \in w
        three(op) == [op |-> op, rd |-> rd, rn |-> rn, rm |-> rm]
        memory(op) == [op |-> op, rt |-> rd, rn |-> rn, imm |-> Signed(w, 20, 12)]
        pair(op) == [op |-> op, rt |-> rd, rt2 |-> ra, rn |-> rn, imm |-> 8 * Signed(w, 21, 15)]
    IN  CASE F(28, 23) = \b100101 /\ is64 /\ 30 \in w ->         \* move wide
               [op |-> IF 29 \in w THEN "movk" ELSE "movz",
                rd |-> rd, imm |-> F(20, 5), hw |-> F(22, 21)]
          [] F(28, 23) = \b100010 /\ is64 /\ {29, 22} \cap w = {} ->  \* immediate
               [op |-> IF 30 \in w THEN "subi" ELSE "addi",
                rd |-> rd, rn |-> rn, imm |-> F(21, 10)]
          [] F(28, 21) = \b01011000 /\ is64 /\ F(15, 10) = 0 ->  \* shifted register
               three(<<"add", "adds", "sub", "subs">>[F(30, 29) + 1])
          [] F(28, 21) = \b01010000 /\ is64 /\ F(15, 10) = 0 /\ F(30, 29) = 1 ->
               three("orr")
          [] F(30, 21) = \b0011010110 /\ is64 /\ F(15, 10) = \b000011 ->
               three("sdiv")
          [] F(30, 21) = \b0011010100 /\ is64 /\ F(11, 10) = 1 ->
               [op |-> "csinc", rd |-> rd, rn |-> rn, rm |-> rm, cond |-> F(15, 12)]
          [] F(30, 21) = \b0011011000 /\ is64 ->                 \* three sources
               [op |-> IF 15 \in w THEN "msub" ELSE "madd",
                rd |-> rd, rn |-> rn, rm |-> rm, ra |-> ra]
          [] F(31, 23) = \b111110000 /\ 21 \notin w ->           \* one register
               IF 22 \in w
               THEN CASE F(11, 10) = 0 -> memory("ldur") [] F(11, 10) = 1 -> memory("ldr_post")
                      [] F(11, 10) = 3 -> memory("ldr_pre") [] OTHER -> Undefined
               ELSE CASE F(11, 10) = 0 -> memory("stur") [] F(11, 10) = 1 -> memory("str_post")
                      [] F(11, 10) = 3 -> memory("str_pre") [] OTHER -> Undefined
          [] F(31, 25) = \b1010100 /\ 23 \in w ->                \* a pair
               IF 22 \in w
               THEN pair(IF 24 \in w THEN "ldp_pre" ELSE "ldp_post")
               ELSE pair(IF 24 \in w THEN "stp_pre" ELSE "stp_post")
          [] F(30, 26) = \b00101 ->
               [op |-> IF is64 THEN "bl" ELSE "b", by |-> Signed(w, 25, 0)]
          [] F(31, 24) = \b01010100 /\ 4 \notin w ->
               [op |-> "b_cond", cond |-> F(3, 0), by |-> Signed(w, 23, 5)]
          [] F(31, 25) = \b1011010 ->
               [op |-> IF 24 \in w THEN "cbnz" ELSE "cbz",
                rt |-> rd, by |-> Signed(w, 23, 5)]
          [] F(31, 25) = \b1101011 /\ F(20, 10) = \b11111000000 /\ F(4, 0) = 0 ->
               CASE F(24, 21) = 0 -> [op |-> "br", rn |-> rn]
                 [] F(24, 21) = 1 -> [op |-> "blr", rn |-> rn]
                 [] F(24, 21) = 2 -> IF rn = G!LR THEN G!ret ELSE Undefined
                 [] OTHER -> Undefined
          [] OTHER -> Undefined

-----------------------------------------------------------------------------
(* The buffer *)

Init ==
    /\ code = <<>> /\ listing = <<>> /\ labelPos = <<>> /\ fixups = <<>>
    /\ status = "open" /\ next = 1 /\ bytes = <<>>

(* emitter_bug *)
Abort == status' = "aborted" /\ UNCHANGED <<code, listing, labelPos, fixups, next, bytes>>

check_reg(rs) == rs \subseteq Bit

Issued(l) == l \in 0 .. Len(labelPos) - 1

emit(word, text) ==
    /\ code' = Append(code, word)
    /\ listing' = Append(listing, [word |-> word, text |-> text])

Open == status = "open" /\ Len(code) < MaxWords

(* An instruction without a label, unless a check of it fails. *)
Plain(ok, word, text) ==
    /\ Open
    /\ IF ok THEN emit(word, text) /\ UNCHANGED <<labelPos, fixups, status, next, bytes>>
       ELSE Abort

(* add_fixup, then the word with no displacement. *)
Branch(ok, l, kind, word, text) ==
    /\ Open
    /\ IF ok /\ Issued(l)
       THEN /\ fixups' = Append(fixups, [at |-> Len(code), label |-> l, kind |-> kind])
            /\ emit(word, text)
            /\ UNCHANGED <<labelPos, status, next, bytes>>
       ELSE Abort

new_label ==
    /\ status = "open"
    /\ Len(labelPos) < MaxLabels
    /\ labelPos' = Append(labelPos, kUnbound)
    /\ UNCHANGED <<code, listing, fixups, status, next, bytes>>

bind(l) ==
    /\ status = "open"
    /\ IF Issued(l) /\ labelPos[l + 1] = kUnbound
       THEN /\ labelPos' = [labelPos EXCEPT ![l + 1] = Len(code)]
            /\ UNCHANGED <<code, listing, fixups, status, next, bytes>>
       ELSE Abort

-----------------------------------------------------------------------------
(* Moves and arithmetic *)

movz(rd, imm16, hw) ==
    Plain(check_reg({rd}) /\ hw \in 0 .. 3,
          Word(\hD280, \h0000) \cup Shl(hw, 21) \cup Shl(imm16, 5) \cup Shl(rd, 0),
          G!movz(rd, imm16, hw))

movk(rd, imm16, hw) ==
    Plain(check_reg({rd}) /\ hw \in 0 .. 3,
          Word(\hF280, \h0000) \cup Shl(hw, 21) \cup Shl(imm16, 5) \cup Shl(rd, 0),
          G!movk(rd, imm16, hw))

mov_reg(rd, rm) ==
    Plain(check_reg({rd, rm}),
          Word(\hAA00, \h0000) \cup Shl(rm, 16) \cup Shl(31, 5) \cup Shl(rd, 0),
          mov_record(rd, rm))

(* The layout of the forms with three registers. *)
ThreeRegs(base, rd, rn, rm) == base \cup Shl(rm, 16) \cup Shl(rn, 5) \cup Shl(rd, 0)

add_reg(rd, rn, rm) ==
    Plain(check_reg({rd, rn, rm}),
          ThreeRegs(Word(\h8B00, \h0000), rd, rn, rm), G!add_reg(rd, rn, rm))

sub_reg(rd, rn, rm) ==
    Plain(check_reg({rd, rn, rm}),
          ThreeRegs(Word(\hCB00, \h0000), rd, rn, rm), G!sub_reg(rd, rn, rm))

mul(rd, rn, rm) ==
    Plain(check_reg({rd, rn, rm}),
          ThreeRegs(Word(\h9B00, \h0000), rd, rn, rm) \cup Shl(31, 10), G!mul(rd, rn, rm))

sdiv(rd, rn, rm) ==
    Plain(check_reg({rd, rn, rm}),
          ThreeRegs(Word(\h9AC0, \h0C00), rd, rn, rm), G!sdiv(rd, rn, rm))

msub(rd, rn, rm, ra) ==
    Plain(check_reg({rd, rn, rm, ra}),
          ThreeRegs(Word(\h9B00, \h8000), rd, rn, rm) \cup Shl(ra, 10),
          G!msub(rd, rn, rm, ra))

neg(rd, rm) ==
    Plain(check_reg({rd, rm}),
          Word(\hCB00, \h0000) \cup Shl(rm, 16) \cup Shl(31, 5) \cup Shl(rd, 0), G!neg(rd, rm))

cmp(rn, rm) ==
    Plain(check_reg({rn, rm}),
          Word(\hEB00, \h0000) \cup Shl(rm, 16) \cup Shl(rn, 5) \cup Shl(31, 0), G!cmp(rn, rm))

(* Slip: the condition goes in as it is. *)
CsetNotInverted(rd, cond) ==
    Plain(check_reg({rd}),
          Word(\h9A80, \h0400) \cup Shl(31, 16) \cup Shl(cond, 12) \cup Shl(31, 5) \cup Shl(rd, 0),
          G!cset(rd, cond))

(* The low bit of the condition flipped. *)
cset(rd, cond) ==
    Plain(check_reg({rd}),
          Word(\h9A80, \h0400) \cup Shl(31, 16) \cup Shl(G!Inverted(cond), 12)
              \cup Shl(31, 5) \cup Shl(rd, 0),
          G!cset(rd, cond))

imm12_ok(imm) == imm <= 4095

add_imm(rd, rn, imm) ==
    Plain(check_reg({rd, rn}) /\ imm12_ok(imm),
          Word(\h9100, \h0000) \cup Shl(imm, 10) \cup Shl(rn, 5) \cup Shl(rd, 0),
          G!add_imm(rd, rn, imm))

sub_imm(rd, rn, imm) ==
    Plain(check_reg({rd, rn}) /\ imm12_ok(imm),
          Word(\hD100, \h0000) \cup Shl(imm, 10) \cup Shl(rn, 5) \cup Shl(rd, 0),
          G!sub_imm(rd, rn, imm))

-----------------------------------------------------------------------------
(* Memory *)

imm9_ok(imm) == imm \in -256 .. 255

(* imm9_field: the sign is masked off. *)
OneReg(base, rt, rn, imm) == base \cup Shl(imm % 2 ^ 9, 12) \cup Shl(rn, 5) \cup Shl(rt, 0)

str_pre(rt, rn, imm) ==
    Plain(check_reg({rt, rn}) /\ imm9_ok(imm),
          OneReg(Word(\hF800, \h0C00), rt, rn, imm), G!str_pre(rt, rn, imm))

ldr_post(rt, rn, imm) ==
    Plain(check_reg({rt, rn}) /\ imm9_ok(imm),
          OneReg(Word(\hF840, \h0400), rt, rn, imm), G!ldr_post(rt, rn, imm))

stur(rt, rn, imm) ==
    Plain(check_reg({rt, rn}) /\ imm9_ok(imm),
          OneReg(Word(\hF800, \h0000), rt, rn, imm), G!stur(rt, rn, imm))

ldur(rt, rn, imm) ==
    Plain(check_reg({rt, rn}) /\ imm9_ok(imm),
          OneReg(Word(\hF840, \h0000), rt, rn, imm), G!ldur(rt, rn, imm))

imm7_ok(imm) == imm % 8 = 0 /\ imm \div 8 \in -64 .. 63

(* imm7_field: whole registers, the sign masked off. *)
TwoRegs(base, rt, rt2, rn, imm) ==
    base \cup Shl((imm \div 8) % 2 ^ 7, 15) \cup Shl(rt2, 10) \cup Shl(rn, 5) \cup Shl(rt, 0)

stp_pre(rt, rt2, rn, imm) ==
    Plain(check_reg({rt, rt2, rn}) /\ imm7_ok(imm),
          TwoRegs(Word(\hA980, \h0000), rt, rt2, rn, imm), G!stp_pre(rt, rt2, rn, imm))

ldp_post(rt, rt2, rn, imm) ==
    Plain(check_reg({rt, rt2, rn}) /\ imm7_ok(imm),
          TwoRegs(Word(\hA8C0, \h0000), rt, rt2, rn, imm), G!ldp_post(rt, rt2, rn, imm))

-----------------------------------------------------------------------------
(* Branches and calls *)

b(l) == Branch(TRUE, l, "imm26", Word(\h1400, \h0000), G!b(l))

bl(l) == Branch(TRUE, l, "imm26", Word(\h9400, \h0000), G!bl(l))

b_cond(cond, l) ==
    Branch(TRUE, l, "imm19", Word(\h5400, \h0000) \cup Shl(cond, 0), b_cond_record(cond, l))

cbz(rt, l) ==
    Branch(check_reg({rt}), l, "imm19", Word(\hB400, \h0000) \cup Shl(rt, 0), G!cbz(rt, l))

cbnz(rt, l) ==
    Branch(check_reg({rt}), l, "imm19", Word(\hB500, \h0000) \cup Shl(rt, 0), G!cbnz(rt, l))

blr(rn) == Plain(check_reg({rn}), Word(\hD63F, \h0000) \cup Shl(rn, 5), G!blr(rn))

ret == Plain(TRUE, Word(\hD65F, \h0000) \cup Shl(30, 5), G!ret)

-----------------------------------------------------------------------------
(* finalize *)

StartFinalize ==
    /\ status = "open"
    /\ IF \E i \in DOMAIN labelPos : labelPos[i] = kUnbound THEN Abort
       ELSE /\ status' = "patching"
            /\ UNCHANGED <<code, listing, labelPos, fixups, next, bytes>>

Fits(delta, kind) ==
    IF kind = "imm26" THEN -TwoTo[25] <= delta /\ delta < TwoTo[25]
    ELSE -TwoTo[18] <= delta /\ delta < TwoTo[18]

(* Slip: the displacement of cbz in bits 18..0. *)
PatchedUnshifted(word, delta, kind) ==
    IF kind = "imm26" THEN (word \ (0 .. 25)) \cup Shl(delta % TwoTo[26], 0)
    ELSE (word \ (0 .. 18)) \cup Shl(delta % TwoTo[19], 0)

(* The field cleared, and the low bits of the displacement put there. *)
Patched(word, delta, kind) ==
    IF kind = "imm26" THEN (word \ (0 .. 25)) \cup Shl(delta % TwoTo[26], 0)
    ELSE (word \ (5 .. 23)) \cup Shl(delta % TwoTo[19], 5)

Patch ==
    /\ status = "patching"
    /\ next <= Len(fixups)
    /\ LET f == fixups[next]
           delta == labelPos[f.label + 1] - f.at
           word == Patched(code[f.at + 1], delta, f.kind)
       IN  IF f.at < Len(code) /\ Fits(delta, f.kind)
           THEN /\ code' = [code EXCEPT ![f.at + 1] = word]
                /\ listing' = [listing EXCEPT ![f.at + 1].word = word]
                /\ next' = next + 1
                /\ UNCHANGED <<labelPos, fixups, status, bytes>>
           ELSE Abort

(* Low byte first. *)
BytesOf(word) == [i \in 1 .. 4 |-> Field(word, 8 * (i - 1) + 7, 8 * (i - 1))]

Finish ==
    /\ status = "patching"
    /\ next = Len(fixups) + 1
    /\ bytes' = [n \in 1 .. 4 * Len(code) |->
                    BytesOf(code[(n - 1) \div 4 + 1])[((n - 1) % 4) + 1]]
    /\ status' = "final"
    /\ UNCHANGED <<code, listing, labelPos, fixups, next>>

Labels == 0 .. MaxLabels

Next ==
    \/ new_label
    \/ \E l \in Labels : bind(l)
    \/ /\ Open
       /\ \E rd \in Regs, imm \in Imm16, hw \in Halves : movz(rd, imm, hw) \/ movk(rd, imm, hw)
    \/ Open /\ \E rd, rm \in Regs : mov_reg(rd, rm) \/ neg(rd, rm) \/ cmp(rd, rm)
    \/ /\ Open
       /\ \E rd, rn, rm \in Regs :
             add_reg(rd, rn, rm) \/ sub_reg(rd, rn, rm) \/ mul(rd, rn, rm) \/ sdiv(rd, rn, rm)
    \/ Open /\ \E rd, rn, rm, ra \in Regs : msub(rd, rn, rm, ra)
    \/ Open /\ \E rd \in Regs, cond \in Conds : cset(rd, cond)
    \/ Open /\ \E rd, rn \in Regs, imm \in Imm12 : add_imm(rd, rn, imm) \/ sub_imm(rd, rn, imm)
    \/ /\ Open
       /\ \E rt, rn \in Regs, imm \in Imm9 :
             \/ str_pre(rt, rn, imm) \/ ldr_post(rt, rn, imm)
             \/ stur(rt, rn, imm) \/ ldur(rt, rn, imm)
    \/ /\ Open
       /\ \E rt, rt2, rn \in Regs, imm \in Imm7 :
             stp_pre(rt, rt2, rn, imm) \/ ldp_post(rt, rt2, rn, imm)
    \/ Open /\ \E l \in Labels : b(l) \/ bl(l)
    \/ Open /\ \E cond \in Conds, l \in Labels : b_cond(cond, l)
    \/ Open /\ \E rt \in Tested, l \in Labels : cbz(rt, l) \/ cbnz(rt, l)
    \/ Open /\ \E rn \in Regs : blr(rn)
    \/ ret
    \/ StartFinalize \/ Patch \/ Finish

Spec == Init /\ [][Next]_vars

-----------------------------------------------------------------------------
(* What the processor fetches at word p: four bytes, the low one first. *)
Fetched(p) == UNION {Shl(bytes[4 * (p - 1) + i], 8 * (i - 1)) : i \in 1 .. 4}

(***************************************************************************)
(* The instruction the processor decodes from the bytes of a finalized     *)
(* buffer is the one its listing line names, with its operands, and a      *)
(* branch goes where the label of that line is bound.  No operand reaches  *)
(* into another field or into the opcode (emitter.cc:165-619).             *)
(***************************************************************************)
BytesMeanTheListing ==
    status = "final" =>
        /\ Len(bytes) = 4 * Len(listing)
        /\ \A p \in DOMAIN listing :
              LET i == Decode(Fetched(p))
                  text == listing[p].text
              IN  IF "to" \in DOMAIN text
                  THEN /\ DOMAIN i = ((DOMAIN text) \ {"to"}) \cup {"by"}
                       /\ \A x \in (DOMAIN text) \ {"to"} : i[x] = text[x]
                       /\ p - 1 + i.by = labelPos[text.to + 1]
                  ELSE i = text

(* A word as Emitter has it: the width of its displacement, and the bits. *)
Abstract(word) ==
    LET i == Decode(word)
    IN  CASE i.op \in {"b", "bl"} -> [kind |-> "imm26", field |-> Field(word, 25, 0)]
          [] i.op \in {"b_cond", "cbz", "cbnz"} ->
                [kind |-> "imm19", field |-> Field(word, 23, 5)]
          [] OTHER -> [kind |-> "plain", field |-> 0]

E == INSTANCE Emitter WITH
        Half26 <- TwoTo[25], Half19 <- TwoTo[18],
        code <- [p \in DOMAIN code |-> Abstract(code[p])],
        listing <- [p \in DOMAIN listing |->
                       [word |-> Abstract(listing[p].word),
                        to |-> IF "to" \in DOMAIN listing[p].text
                               THEN listing[p].text.to ELSE -1]]

(***************************************************************************)
(* The masks and shifts of the code do to the words what Emitter says of   *)
(* their fields, in the order it says: patching a branch changes its       *)
(* displacement and nothing else (emitter.cc:548-596).                     *)
(***************************************************************************)
ImplementsEmitter == E!Spec
=============================================================================
