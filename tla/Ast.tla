-------------------------------- MODULE Ast --------------------------------
(***************************************************************************)
(* The tree the parser builds and every later phase walks.  A program is   *)
(* the sequence of its functions, the synthesized __main__ last.  Slots    *)
(* are -1, and a function's slot count 0, until sema fills them in.        *)
(***************************************************************************)
EXTENDS Integers, Sequences

kMainFunc == "__main__"
Builtin == "print"

NoSlot == -1

IntLit(v) == [kind |-> "Int", value |-> v]
Name(x) == [kind |-> "Name", name |-> x, slot |-> NoSlot]
Call(f, args) == [kind |-> "Call", callee |-> f, args |-> args]
Unary(op, e) == [kind |-> "Unary", op |-> op, operand |-> e]
Binary(op, l, r) == [kind |-> "Binary", op |-> op, lhs |-> l, rhs |-> r]

Arithmetic == {"Add", "Sub", "Mul", "Div", "Mod"}
Comparisons == {"Eq", "Ne", "Lt", "Le", "Gt", "Ge"}
Logical == {"And", "Or"}

NoExpr == [kind |-> "None"]    \* the null value of a bare return

Assign(x, e) == [kind |-> "Assign", name |-> x, slot |-> NoSlot, value |-> e]
Return(e) == [kind |-> "Return", value |-> e]
Do(e) == [kind |-> "ExprStmt", expr |-> e]
Test(cond, body) == [cond |-> cond, body |-> body]
If(tests, else) == [kind |-> "If", branches |-> tests, else_body |-> else]
While(cond, body) == [kind |-> "While", cond |-> cond, body |-> body]

FuncDef(name, params, body) ==
    [name |-> name, params |-> params, body |-> body, nslots |-> 0]

(* parse_program: the definitions, then the top-level statements as main. *)
Program(defs, top) == Append(defs, FuncDef(kMainFunc, <<>>, top))

(* funcs_ of the interpreter and by_name_ of the tier manager. *)
FunctionNamed(prog, name) == prog[CHOOSE i \in DOMAIN prog : prog[i].name = name]

(* The expressions directly inside an expression, and their sequences. *)
Operands(e) ==
    CASE e.kind = "Call" -> {e.args[i] : i \in DOMAIN e.args}
      [] e.kind = "Unary" -> {e.operand}
      [] e.kind = "Binary" -> {e.lhs, e.rhs}
      [] OTHER -> {}
=============================================================================
