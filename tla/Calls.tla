------------------------------- MODULE Calls -------------------------------
(***************************************************************************)
(* From the tree to the functions compiled together: the calls in a body,  *)
(* in the order of the walk, and the worklist over them, here as the list  *)
(* it computes (module HotSet is the loop itself, over given calls).       *)
(***************************************************************************)
EXTENDS Ast, SequencesExt

RECURSIVE collect_calls_expr(_), collect_calls_block(_)

(* Slip: the arguments of a call are not walked. *)
collect_calls_expr_outer(e) ==
    CASE e.kind = "Unary" -> collect_calls_expr(e.operand)
      [] e.kind = "Binary" -> collect_calls_expr(e.lhs) \o collect_calls_expr(e.rhs)
      [] e.kind = "Call" -> IF e.callee = Builtin THEN <<>> ELSE <<e.callee>>
      [] OTHER -> <<>>

collect_calls_expr(e) ==
    CASE e.kind = "Unary" -> collect_calls_expr(e.operand)
      [] e.kind = "Binary" -> collect_calls_expr(e.lhs) \o collect_calls_expr(e.rhs)
      [] e.kind = "Call" ->
            FoldLeft(LAMBDA names, a : names \o collect_calls_expr(a),
                     IF e.callee = Builtin THEN <<>> ELSE <<e.callee>>, e.args)
      [] OTHER -> <<>>

collect_calls_stmt(s) ==
    CASE s.kind \in {"Assign", "Return"} -> collect_calls_expr(s.value)
      [] s.kind = "ExprStmt" -> collect_calls_expr(s.expr)
      [] s.kind = "If" ->
            FoldLeft(LAMBDA names, t : names \o collect_calls_expr(t.cond)
                                             \o collect_calls_block(t.body),
                     <<>>, s.branches)
                \o collect_calls_block(s.else_body)
      [] s.kind = "While" -> collect_calls_expr(s.cond) \o collect_calls_block(s.body)

collect_calls_block(body) ==
    FoldLeft(LAMBDA names, s : names \o collect_calls_stmt(s), <<>>, body)

RECURSIVE Found(_, _, _, _)

(* The worklist from here on: pop its back, put the new callees on it. *)
Found(prog, found, seen, work) ==
    IF work = <<>> THEN found
    ELSE LET calls == collect_calls_block(FunctionNamed(prog, Last(work)).body)
             new == FoldLeft(LAMBDA names, f : IF f \in seen \/ Contains(names, f)
                                               THEN names ELSE Append(names, f),
                             <<>>, calls)
         IN  Found(prog, Append(found, Last(work)), seen \cup ToSet(new), Front(work) \o new)

(* The functions compile_hot compiles for a hot root, in their order. *)
reachable_from(prog, root) ==
    LET names == Found(prog, <<>>, {root}, <<root>>)
    IN  [i \in DOMAIN names |-> FunctionNamed(prog, names[i])]
=============================================================================
