------------------------------- MODULE Interp -------------------------------
(***************************************************************************)
(* The tree walker without a TierManager: the oracle the other engines are *)
(* compared with.  A walk takes and returns a state of the interpreter;    *)
(* once it has ended, by a division by zero or for want of fuel, nothing   *)
(* more of the tree is walked.                                             *)
(***************************************************************************)
EXTENDS Words, Ast, SequencesExt, TLC

CONSTANT Fuel        \* bound on the calls made and the loop turns begun

(* vars: the Frame of the current call; val: the value just computed;      *)
(* flow: "Return" while a return propagates; out: what print has written.  *)
Fresh == [vars |-> <<>>, val |-> 0, flow |-> "Normal", out |-> <<>>,
          end |-> "running", fuel |-> Fuel]

Over(s) == s.end # "running"
Give(s, v) == IF Over(s) THEN s ELSE [s EXCEPT !.val = v]
Burn(s) == IF s.fuel = 0 THEN [s EXCEPT !.end = "fuel"] ELSE [s EXCEPT !.fuel = @ - 1]

RECURSIVE Eval(_, _, _), ExecBlock(_, _, _)

-----------------------------------------------------------------------------
(* Calls *)

(* The caller's frame again, and the value: 0 unless one was returned.     *)
Leave(caller, t) ==
    IF Over(t) THEN t
    ELSE [t EXCEPT !.vars = caller.vars, !.flow = "Normal",
                   !.val = IF t.flow = "Return" THEN t.val ELSE 0]

(* Interpreter::call: the body in a fresh frame of the parameters. *)
CallFn(prog, fn, args, s) ==
    LET frame == [x \in ToSet(fn.params) |-> args[CHOOSE i \in DOMAIN args : fn.params[i] = x]]
    IN  Leave(s, ExecBlock(prog, fn.body, [Burn(s) EXCEPT !.vars = frame]))

(* The arguments in the caller's frame, left to right, and then the call.  *)
EvalArgs(prog, args, s) ==
    FoldLeft(LAMBDA acc, a :
                LET t == Eval(prog, a, acc.s)
                IN  [s |-> t, vals |-> Append(acc.vals, t.val)],
             [s |-> s, vals |-> <<>>], args)

EvalCall(prog, e, s) ==
    LET done == EvalArgs(prog, e.args, s)
        t == done.s
    IN  IF Over(t) THEN t
        ELSE IF e.callee = Builtin
        THEN [t EXCEPT !.out = Append(@, t.val), !.val = 0]
        ELSE CallFn(prog, FunctionNamed(prog, e.callee), done.vals, t)

-----------------------------------------------------------------------------
(* Expressions *)

(* The deciding operand's value, and the right one only if it is needed.   *)
EvalLogical(prog, e, s) ==
    LET l == Eval(prog, e.lhs, s)
    IN  IF Over(l) \/ (e.op = "Or") = (l.val # 0) THEN l ELSE Eval(prog, e.rhs, l)

EvalBinary(prog, e, s) ==
    LET l == Eval(prog, e.lhs, s)
        r == Eval(prog, e.rhs, l)
    IN  IF Over(r) THEN r
        ELSE IF e.op \in Divisions /\ r.val = 0 THEN [r EXCEPT !.end = "zero"]
        ELSE Give(r, Combine(e.op, l.val, r.val))

(* A name never assigned is not in the frame, and reads as 0. *)
Eval(prog, e, s) ==
    IF Over(s) THEN s
    ELSE CASE e.kind = "Int" -> Give(s, e.value)
           [] e.kind = "Name" ->
                Give(s, IF e.name \in DOMAIN s.vars THEN s.vars[e.name] ELSE 0)
           [] e.kind = "Call" -> EvalCall(prog, e, s)
           [] e.kind = "Unary" ->
                LET t == Eval(prog, e.operand, s)
                IN  Give(t, Apply(e.op, t.val))
           [] e.kind = "Binary" ->
                IF e.op \in Logical THEN EvalLogical(prog, e, s) ELSE EvalBinary(prog, e, s)

-----------------------------------------------------------------------------
(* Statements *)

RECURSIVE ExecTests(_, _, _, _), ExecWhile(_, _, _)

(* The first true test wins, and no later one is evaluated. *)
ExecTests(prog, tests, else, s) ==
    IF tests = <<>> THEN ExecBlock(prog, else, s)
    ELSE LET t == Eval(prog, Head(tests).cond, s)
         IN  IF Over(t) THEN t
             ELSE IF t.val # 0 THEN ExecBlock(prog, Head(tests).body, t)
             ELSE ExecTests(prog, Tail(tests), else, t)

ExecWhile(prog, w, s) ==
    LET c == Eval(prog, w.cond, s)
        b == ExecBlock(prog, w.body, Burn(c))
    IN  IF Over(c) \/ c.val = 0 THEN c
        ELSE IF Over(b) \/ b.flow = "Return" THEN b
        ELSE ExecWhile(prog, w, b)

Exec(prog, stmt, s) ==
    CASE stmt.kind = "Assign" ->
            LET t == Eval(prog, stmt.value, s)
            IN  IF Over(t) THEN t ELSE [t EXCEPT !.vars = (stmt.name :> t.val) @@ @]
      [] stmt.kind = "Return" ->
            LET t == IF stmt.value = NoExpr THEN Give(s, 0) ELSE Eval(prog, stmt.value, s)
            IN  IF Over(t) THEN t ELSE [t EXCEPT !.flow = "Return"]
      [] stmt.kind = "ExprStmt" -> Eval(prog, stmt.expr, s)
      [] stmt.kind = "If" -> ExecTests(prog, stmt.branches, stmt.else_body, s)
      [] stmt.kind = "While" -> ExecWhile(prog, stmt, s)

ExecBlock(prog, block, s) ==
    IF Over(s) \/ s.flow = "Return" \/ block = <<>> THEN s
    ELSE ExecBlock(prog, Tail(block), Exec(prog, Head(block), s))
=============================================================================
