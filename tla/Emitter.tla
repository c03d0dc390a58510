------------------------------ MODULE Emitter ------------------------------
(***************************************************************************)
(* The label machinery of the AArch64 emitter: branches are emitted with   *)
(* an empty displacement and a fixup, labels are bound while emission goes *)
(* on, and finalize patches every branch once all positions are known.     *)
(*                                                                         *)
(* A word is its family (a plain instruction, or a branch by the width of  *)
(* its displacement field) and the bits of that field; the other bits of   *)
(* an instruction do not take part.  Word positions count from 0 as in     *)
(* the code, so the word at position p is code[p + 1].                     *)
(***************************************************************************)
EXTENDS Integers, Sequences

CONSTANTS
    Half26, Half19,  \* a field of family k holds -Half(k) .. Half(k) - 1;
                     \* 2^25 and 2^18 in the code
    MaxWords,        \* bound on the words emitted
    MaxLabels        \* bound on the labels issued

ASSUME HalvesPositive == Half26 \in Nat \ {0} /\ Half19 \in Nat \ {0}
ASSUME BoundsAreNat == MaxWords \in Nat /\ MaxLabels \in Nat

VARIABLES
    code,            \* code_
    listing,         \* listing_: the word, and the label its text names
    labelPos,        \* label_pos_: labelPos[l + 1] is label l's position
    fixups,          \* fixups_
    status,          \* "open", "patching", "final" or "aborted"
    next             \* finalize's loop variable: the fixup to patch

vars == <<code, listing, labelPos, fixups, status, next>>

kUnbound == -1
NoLabel == -1

Kinds == {"imm26", "imm19"}
Words == [kind : Kinds \cup {"plain"}, field : Nat]
Fixups == [at : Nat, label : Nat, kind : Kinds]
Half(kind) == IF kind = "imm26" THEN Half26 ELSE Half19

Issued(l) == l \in 0 .. Len(labelPos) - 1

(* static_cast<uint32_t>(delta) & mask, for a delta within twice the reach. *)
Field(delta, kind) == IF delta >= 0 THEN delta ELSE delta + 2 * Half(kind)

(* What the processor adds to the position of a branch: the field signed. *)
Displacement(word) ==
    IF word.field < Half(word.kind) THEN word.field
    ELSE word.field - 2 * Half(word.kind)

Init ==
    /\ code = <<>>
    /\ listing = <<>>
    /\ labelPos = <<>>
    /\ fixups = <<>>
    /\ status = "open"
    /\ next = 1

(* emitter_bug: a message, and abort. *)
Abort == status' = "aborted" /\ UNCHANGED <<code, listing, labelPos, fixups, next>>

-----------------------------------------------------------------------------
(* Emission *)

NewLabel ==
    /\ status = "open"
    /\ Len(labelPos) < MaxLabels
    /\ labelPos' = Append(labelPos, kUnbound)
    /\ UNCHANGED <<code, listing, fixups, status, next>>

(* A label names the next word to be emitted; it is bound only once. *)
Bind(l) ==
    /\ status = "open"
    /\ IF Issued(l) /\ labelPos[l + 1] = kUnbound
       THEN /\ labelPos' = [labelPos EXCEPT ![l + 1] = Len(code)]
            /\ UNCHANGED <<code, listing, fixups, status, next>>
       ELSE Abort

Emit(word, label) ==
    /\ code' = Append(code, word)
    /\ listing' = Append(listing, [word |-> word, to |-> label])

(* movz, add_reg, blr, ret and the others with no label operand. *)
EmitPlain ==
    /\ status = "open"
    /\ Len(code) < MaxWords
    /\ Emit([kind |-> "plain", field |-> 0], NoLabel)
    /\ UNCHANGED <<labelPos, fixups, status, next>>

(* b, bl (imm26); b_cond, cbz, cbnz (imm19): add_fixup, then the word. *)
Branch(l, kind) ==
    /\ status = "open"
    /\ Len(code) < MaxWords
    /\ IF Issued(l)
       THEN /\ fixups' = Append(fixups,
                               [at |-> Len(code), label |-> l, kind |-> kind])
            /\ Emit([kind |-> kind, field |-> 0], l)
            /\ UNCHANGED <<labelPos, status, next>>
       ELSE Abort

-----------------------------------------------------------------------------
(* finalize *)

(* Every label bound, or an abort before anything is patched. *)
StartFinalize ==
    /\ status = "open"
    /\ IF \E i \in 1 .. Len(labelPos) : labelPos[i] = kUnbound
       THEN Abort
       ELSE /\ status' = "patching"
            /\ UNCHANGED <<code, listing, labelPos, fixups, next>>

Delta(f) == labelPos[f.label + 1] - f.at

(* Slip: <= at the upper end of the range. *)
FitsLoosely(f) == -Half(f.kind) <= Delta(f) /\ Delta(f) <= Half(f.kind)

Fits(f) == -Half(f.kind) <= Delta(f) /\ Delta(f) < Half(f.kind)

(* The mask and shift of one family applied to a word of the other would   *)
(* change opcode bits: some other instruction, which "plain" stands for.   *)
Patched(word, f) ==
    IF word.kind = f.kind THEN [word EXCEPT !.field = Field(Delta(f), f.kind)]
    ELSE [word EXCEPT !.kind = "plain"]

(* Slip: the listing keeps the word with the empty displacement. *)
PatchCodeOnly ==
    /\ status = "patching"
    /\ next <= Len(fixups)
    /\ LET f == fixups[next] IN
          IF f.at < Len(code) /\ Fits(f)
          THEN /\ code' = [code EXCEPT ![f.at + 1] = Patched(@, f)]
               /\ next' = next + 1
               /\ UNCHANGED <<listing, labelPos, fixups, status>>
          ELSE Abort

(* One turn of the loop: the displacement in range and patched, or abort. *)
Patch ==
    /\ status = "patching"
    /\ next <= Len(fixups)
    /\ LET f == fixups[next] IN
          IF f.at < Len(code) /\ Fits(f)
          THEN /\ code' = [code EXCEPT ![f.at + 1] = Patched(@, f)]
               /\ listing' = [listing EXCEPT
                                 ![f.at + 1].word = Patched(code[f.at + 1], f)]
               /\ next' = next + 1
               /\ UNCHANGED <<labelPos, fixups, status>>
          ELSE Abort

(* The bytes are handed out; the emitter is not used again. *)
Finish ==
    /\ status = "patching"
    /\ next = Len(fixups) + 1
    /\ status' = "final"
    /\ UNCHANGED <<code, listing, labelPos, fixups, next>>

(* Callers may use any label, issued or not, bound or not. *)
Next ==
    \/ NewLabel
    \/ \E l \in 0 .. MaxLabels : Bind(l)
    \/ EmitPlain
    \/ \E l \in 0 .. MaxLabels, kind \in Kinds : Branch(l, kind)
    \/ StartFinalize \/ Patch \/ Finish

Spec == Init /\ [][Next]_vars

-----------------------------------------------------------------------------
(* Type invariant. *)
TypeOK ==
    /\ code \in Seq(Words)
    /\ listing \in Seq([word : Words, to : Nat \cup {NoLabel}])
    /\ labelPos \in Seq(Nat \cup {kUnbound})
    /\ fixups \in Seq(Fixups)
    /\ status \in {"open", "patching", "final", "aborted"}
    /\ next \in 1 .. Len(fixups) + 1

(***************************************************************************)
(* In a finalized buffer every branch goes where its listing line says it  *)
(* goes: to the position its label was bound at, forward or backward, at   *)
(* the limits of its reach and for either family (emitter.cc:558-596).     *)
(***************************************************************************)
BranchesLand ==
    status = "final" =>
        \A p \in 0 .. Len(code) - 1 :
            code[p + 1].kind # "plain" =>
                /\ Issued(listing[p + 1].to)
                /\ p + Displacement(code[p + 1]) = labelPos[listing[p + 1].to + 1]
                /\ labelPos[listing[p + 1].to + 1] \in 0 .. Len(code)

(* The listing shows the words of the buffer, also while branches are      *)
(* patched one after the other (emitter.cc:593-595).                       *)
ListingHonest ==
    /\ Len(listing) = Len(code)
    /\ \A p \in 1 .. Len(code) : listing[p].word = code[p]

(* Finalizing leaves every instruction the instruction it was: only the    *)
(* displacement field of a branch changes, never a word without one.       *)
OpcodesKept ==
    [][\A p \in 1 .. Len(code) :
          /\ code'[p].kind = code[p].kind
          /\ code[p].kind = "plain" => code'[p] = code[p]]_vars

(* A bound label never moves, and never names a position past the buffer:  *)
(* a displacement is only ever computed from where the label really is.    *)
LabelsStay ==
    [][\A l \in 1 .. Len(labelPos) :
          labelPos[l] # kUnbound => labelPos'[l] = labelPos[l]]_vars
=============================================================================
