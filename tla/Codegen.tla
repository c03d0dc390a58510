------------------------------ MODULE Codegen ------------------------------
(***************************************************************************)
(* Code generation: the walk of the resolved tree that drives the emitter. *)
(* The state of both is a record g that each step takes and returns:       *)
(*    code        the instructions, with the label a branch goes to        *)
(*    labels      label_pos_, labels counting from 1, -1 while unbound     *)
(*    funcs       the functions compiled: function i has label i           *)
(*    divZero     div_zero_, 0 when no division has been compiled          *)
(*    returnLabel return_label_ of the function being compiled             *)
(*    offsets     where each function starts, in instructions              *)
(*    exits       not in the code: where the epilogues are, with the frame *)
(*                size each of them takes down                             *)
(*    bug         an emitter_bug has aborted the compilation               *)
(***************************************************************************)
EXTENDS Instructions, Ast, SequencesExt

CONSTANTS
    Reach26, Reach19       \* reach of the branch families: 2^25, 2^18 words

Emit(g, i) == [g EXCEPT !.code = Append(@, i), !.bug = @ \/ ~Encodable(i)]
EmitAll(g, is) ==
    [g EXCEPT !.code = @ \o is, !.bug = @ \/ \E j \in DOMAIN is : ~Encodable(is[j])]

(* The label a new_label() is about to return. *)
NextLabel(g) == Len(g.labels) + 1
NewLabel(g) == [g EXCEPT !.labels = Append(@, -1)]
Bind(g, l) ==
    IF g.labels[l] # -1 THEN [g EXCEPT !.bug = TRUE]
    ELSE [g EXCEPT !.labels[l] = Len(g.code)]

(* div_zero_label(): made by the first division, shared by the others. *)
WithDivZero(g) ==
    IF g.divZero = 0 THEN [NewLabel(g) EXCEPT !.divZero = NextLabel(g)] ELSE g

(* func_labels_.at(f): no label, so no landing, for a function not there. *)
FuncLabel(g, f) ==
    LET found == {i \in DOMAIN g.funcs : g.funcs[i] = f}
    IN  IF found = {} THEN 0 ELSE CHOOSE i \in found : TRUE

-----------------------------------------------------------------------------
(* Expressions: the value in x0, the stack as it was *)

RECURSIVE GenExpr(_, _)

gen_unary(g, e) == EmitAll(GenExpr(g, e.operand), UnaryCode(e.op))

gen_short_circuit(g, e) ==
    LET done == NextLabel(g)
        l == GenExpr(NewLabel(g), e.lhs)
        skip == Emit(l, IF e.op = "Or" THEN cbnz(X0, done) ELSE cbz(X0, done))
    IN  Bind(GenExpr(skip, e.rhs), done)

(* With x1 the left and x0 the right operand. *)
Operation(g, op) ==
    LET h == IF op \in Divisions THEN WithDivZero(g) ELSE g
    IN  EmitAll(h, OperationCode(op, h.divZero))

gen_binary(g, e) ==
    IF e.op \in Logical THEN gen_short_circuit(g, e)
    ELSE LET l == Emit(GenExpr(g, e.lhs), push_x0)
             r == Emit(GenExpr(l, e.rhs), pop_into(X1))
         IN  Operation(r, e.op)

(* Slip: unloaded in the order they were pushed. *)
gen_call_in_order(g, e) ==
    LET args == FoldLeft(LAMBDA h, a : Emit(GenExpr(h, a), push_x0), g, e.args)
        pops == [i \in DOMAIN e.args |-> pop_into(i - 1)]
    IN  IF e.callee = Builtin
        THEN EmitAll(GenExpr(g, e.args[1]), call_host(PrintAddr))
        ELSE Emit(EmitAll(args, pops), bl(FuncLabel(g, e.callee)))

(* Slip: the arguments of print left on the stack. *)
gen_call_leaves_args(g, e) ==
    LET args == FoldLeft(LAMBDA h, a : Emit(GenExpr(h, a), push_x0), g, e.args)
        pops == [i \in DOMAIN e.args |-> pop_into(Len(e.args) - i)]
    IN  IF e.callee = Builtin
        THEN EmitAll(args, call_host(PrintAddr))
        ELSE Emit(EmitAll(args, pops), bl(FuncLabel(g, e.callee)))

gen_call(g, e) ==
    LET args == FoldLeft(LAMBDA h, a : Emit(GenExpr(h, a), push_x0), g, e.args)
    IN  IF e.callee = Builtin
        THEN EmitAll(GenExpr(g, e.args[1]), call_host(PrintAddr))
        ELSE Emit(EmitAll(args, unload(Len(e.args))), bl(FuncLabel(g, e.callee)))

GenExpr(g, e) ==
    CASE e.kind = "Int" -> EmitAll(g, mov_imm64(X0, e.value))
      [] e.kind = "Name" -> Emit(g, ldur(X0, FP, slot_offset(e.slot)))
      [] e.kind = "Unary" -> gen_unary(g, e)
      [] e.kind = "Binary" -> gen_binary(g, e)
      [] e.kind = "Call" -> gen_call(g, e)

-----------------------------------------------------------------------------
(* Statements *)

RECURSIVE gen_block(_, _), gen_stmt(_, _)

gen_block(g, block) ==
    IF g.bug \/ block = <<>> THEN g
    ELSE gen_block(gen_stmt(g, Head(block)), Tail(block))

gen_if(g, s) ==
    LET end == NextLabel(g)
        GenTest(h, t) ==
            LET next == NextLabel(h)
                c == Emit(GenExpr(NewLabel(h), t.cond), cbz(X0, next))
            IN  Bind(Emit(gen_block(c, t.body), b(end)), next)
    IN  Bind(gen_block(FoldLeft(GenTest, NewLabel(g), s.branches), s.else_body), end)

(* Slip: the test leaves for the wrong one of the two labels. *)
gen_while_never_left(g, s) ==
    LET top == NextLabel(g)
        end == top + 1
        c == GenExpr(Bind(NewLabel(NewLabel(g)), top), s.cond)
        body == gen_block(Emit(c, cbz(X0, top)), s.body)
    IN  Bind(Emit(body, b(top)), end)

gen_while(g, s) ==
    LET top == NextLabel(g)
        end == top + 1
        c == GenExpr(Bind(NewLabel(NewLabel(g)), top), s.cond)
        body == gen_block(Emit(c, cbz(X0, end)), s.body)
    IN  Bind(Emit(body, b(top)), end)

gen_stmt(g, s) ==
    CASE s.kind = "Assign" -> Emit(GenExpr(g, s.value), stur(X0, FP, slot_offset(s.slot)))
      [] s.kind = "Return" ->
            Emit(IF s.value = NoExpr THEN Emit(g, movz(X0, 0, 0)) ELSE GenExpr(g, s.value),
                 b(g.returnLabel))
      [] s.kind = "ExprStmt" -> GenExpr(g, s.expr)
      [] s.kind = "If" -> gen_if(g, s)
      [] s.kind = "While" -> gen_while(g, s)

-----------------------------------------------------------------------------
(* Functions *)

(* Slip: locals left as the stack has them. *)
gen_prologue_no_zeroing(g, fn) ==
    LET frame == frame_size(fn.nslots)
    IN  EmitAll(g,
            <<stp_pre(FP, LR, SP, -16), add_imm(FP, SP, 0)>>
            \o (IF frame > 0 THEN <<sub_imm(SP, SP, frame)>> ELSE <<>>)
            \o [i \in DOMAIN fn.params |-> stur(i - 1, FP, slot_offset(i - 1))])

gen_prologue(g, fn) == EmitAll(g, Prologue(Len(fn.params), fn.nslots))

gen_function(g, fn) ==
    LET here == Bind([g EXCEPT !.offsets = Append(@, Len(g.code))], FuncLabel(g, fn.name))
        opened == [NewLabel(here) EXCEPT !.returnLabel = NextLabel(here)]
        body == gen_block(gen_prologue(opened, fn), fn.body)
        fallen == Emit(body, movz(X0, 0, 0))
        closed == Bind(fallen, opened.returnLabel)
    IN  [EmitAll(closed, gen_epilogue) EXCEPT
            !.exits = @ \cup {[at |-> Len(closed.code), frame |-> frame_size(fn.nslots)]}]

(* Emitter::finalize: all labels bound, all branches within their reach,    *)
(* and each branch with its displacement (module Emitter).                  *)
Finalized(g) ==
    LET Branches == {i \in DOMAIN g.code : g.code[i].op \in {"b", "bl", "cbz", "cbnz"}}
        delta(i) == g.labels[g.code[i].to] - (i - 1)
        Reach(i) == IF g.code[i].op \in {"b", "bl"} THEN Reach26 ELSE Reach19
    IN  IF \/ g.bug
           \/ \E i \in Branches : g.code[i].to = 0
           \/ \E l \in DOMAIN g.labels : g.labels[l] = -1
           \/ \E i \in Branches : delta(i) \notin -Reach(i) .. Reach(i) - 1
        THEN [g EXCEPT !.bug = TRUE]
        ELSE [g EXCEPT !.code = [i \in DOMAIN @ |->
                 IF i \in Branches THEN [@[i] EXCEPT !.to = delta(i)] ELSE @[i]]]

(* A label for every function, before any body. *)
Declared(fns) ==
    FoldLeft(LAMBDA g, fn : [NewLabel(g) EXCEPT !.funcs = Append(@, fn.name)],
             [code |-> <<>>, labels |-> <<>>, funcs |-> <<>>,
              divZero |-> 0, returnLabel |-> 0,
              offsets |-> <<>>, exits |-> {}, bug |-> FALSE],
             fns)

(* The shared division stub, last, if anything needs it. *)
WithStub(g) ==
    IF g.divZero = 0 THEN g ELSE EmitAll(Bind(g, g.divZero), call_host(AbortAddr))

(* Codegen::compile: the bodies in the order given. *)
compile(fns) == Finalized(WithStub(FoldLeft(gen_function, Declared(fns), fns)))
=============================================================================
