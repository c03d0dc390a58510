------------------------------- MODULE Parser ------------------------------
(***************************************************************************)
(* parse of parser.cc: recursive descent over the tokens of the lexer, one *)
(* operator per parse function.  Each takes the position of the cursor and *)
(* gives where it leaves it (at) and what it built (node).                 *)
(*                                                                         *)
(* A CompileError is a negative position, that of the offending token: no  *)
(* token is seen there, so every function on the way out stops at once.    *)
(***************************************************************************)
EXTENDS Ast, SequencesExt

VARIABLE toks        \* the stream; its last token is eof

Result(at, node) == [at |-> at, node |-> node]

Fail(p) == IF p > 0 THEN -p ELSE p
Failed(p) == p < 0

(* peek: past the end there is only the final eof. *)
Peek(p) == IF p <= Len(toks) THEN toks[p] ELSE Last(toks)
Kind(p) == IF Failed(p) THEN "error" ELSE Peek(p).kind

Expect(p, kind) == IF Kind(p) = kind THEN p + 1 ELSE Fail(p)

(* A token that has to be a name, and the name. *)
Ident(p) == Result(Expect(p, "ident"), IF Failed(p) THEN <<>> ELSE Peek(p).text)

(* What parse_ of a nonterminal gives, for those that occur in others. *)
RECURSIVE parse_(_, _)

-----------------------------------------------------------------------------
(* Expressions: a function per level of precedence, the loosest first *)

OrOps == [k \in {"or"} |-> "Or"]
AndOps == [k \in {"and"} |-> "And"]
CompOps == [k \in {"==", "!=", "<", "<=", ">", ">="} |->
               CASE k = "==" -> "Eq" [] k = "!=" -> "Ne" [] k = "<" -> "Lt"
                 [] k = "<=" -> "Le" [] k = ">" -> "Gt" [] k = ">=" -> "Ge"]
AddOps == [k \in {"+", "-"} |-> IF k = "+" THEN "Add" ELSE "Sub"]
MulOps == [k \in {"*", "//", "%"} |->
               CASE k = "*" -> "Mul" [] k = "//" -> "Div" [] k = "%" -> "Mod"]

RECURSIVE OrLoop(_), AndLoop(_), AddLoop(_), MulLoop(_), Args(_)

(* One turn of a loop: the operator at left.at, then its right operand. *)
Joined(ops, left, right) ==
    Result(right.at, Binary(ops[Kind(left.at)], left.node, right.node))

(* args or params after the first: f gives one of them. *)
Listed(list, item) == Result(item.at, Append(list.node, item.node))

Args(list) ==
    IF Kind(list.at) = "," THEN Args(Listed(list, parse_("expr", list.at + 1))) ELSE list

Call_(name, p) ==
    LET args == IF Kind(p) = ")" THEN Result(p, <<>>)
                ELSE Args(Listed(Result(p, <<>>), parse_("expr", p)))
    IN  Result(Expect(args.at, ")"), Call(name, args.node))

parse_primary(p) ==
    CASE Kind(p) = "integer" -> Result(p + 1, IntLit(Peek(p).int_val))
      [] Kind(p) = "True" -> Result(p + 1, IntLit(1))
      [] Kind(p) = "False" -> Result(p + 1, IntLit(0))
      [] Kind(p) = "(" ->
            LET e == parse_("expr", p + 1) IN Result(Expect(e.at, ")"), e.node)
      [] Kind(p) = "ident" ->
            IF Kind(p + 1) = "(" THEN Call_(Peek(p).text, p + 2)
            ELSE Result(p + 1, Name(Peek(p).text))
      [] OTHER -> Result(Fail(p), NoExpr)

parse_unary(p) ==
    IF Kind(p) = "-"
    THEN LET e == parse_("unary", p + 1) IN Result(e.at, Unary("Neg", e.node))
    ELSE parse_primary(p)

MulLoop(left) ==
    IF Kind(left.at) \in DOMAIN MulOps
    THEN MulLoop(Joined(MulOps, left, parse_("unary", left.at + 1)))
    ELSE left

parse_mult(p) == MulLoop(parse_("unary", p))

(* Slip: the right operand is the whole rest, as a grammar without loops    *)
(* would have it.                                                           *)
AddLoopRight(left) ==
    IF Kind(left.at) \in DOMAIN AddOps
    THEN Joined(AddOps, left, AddLoop(parse_("mult", left.at + 1)))
    ELSE left

AddLoop(left) ==
    IF Kind(left.at) \in DOMAIN AddOps
    THEN AddLoop(Joined(AddOps, left, parse_("mult", left.at + 1)))
    ELSE left

parse_additive(p) == AddLoop(parse_("mult", p))

(* One comparison at most. *)
Compared(left) ==
    IF Kind(left.at) \in DOMAIN CompOps
    THEN LET both == Joined(CompOps, left, parse_("additive", left.at + 1))
         IN  IF Kind(both.at) \in DOMAIN CompOps
             THEN Result(Fail(both.at), NoExpr) ELSE both
    ELSE left

parse_comparison(p) == Compared(parse_("additive", p))

parse_not(p) ==
    IF Kind(p) = "not"
    THEN LET e == parse_("not", p + 1) IN Result(e.at, Unary("Not", e.node))
    ELSE parse_comparison(p)

AndLoop(left) ==
    IF Kind(left.at) \in DOMAIN AndOps
    THEN AndLoop(Joined(AndOps, left, parse_("not", left.at + 1)))
    ELSE left

parse_and(p) == AndLoop(parse_("not", p))

OrLoop(left) ==
    IF Kind(left.at) \in DOMAIN OrOps
    THEN OrLoop(Joined(OrOps, left, parse_("and", left.at + 1)))
    ELSE left

parse_expr(p) == OrLoop(parse_("and", p))

-----------------------------------------------------------------------------
(* Statements *)

RECURSIVE Statements(_), Elifs(_)

(* The statements of a block after those parsed already. *)
Statements(list) ==
    IF Kind(list.at) \in {"dedent", "eof", "error"} THEN list
    ELSE Statements(Listed(list, parse_("statement", list.at)))

(* The first statement is parsed whatever comes: no block is empty. *)
parse_block(p) ==
    LET in == Expect(Expect(p, "newline"), "indent")
        body == Statements(Listed(Result(in, <<>>), parse_("statement", in)))
    IN  Result(Expect(body.at, "dedent"), body.node)

(* expr ":" block, after an if, an elif or a while. *)
Guarded(p) ==
    LET cond == parse_("expr", p)
        body == parse_("block", Expect(cond.at, ":"))
    IN  Result(body.at, Test(cond.node, body.node))

parse_simple_stmt(p) ==
    CASE Kind(p) = "return" /\ Kind(p + 1) = "newline" -> Result(p + 1, Return(NoExpr))
      [] Kind(p) = "return" /\ Kind(p + 1) # "newline" ->
            LET e == parse_("expr", p + 1) IN Result(e.at, Return(e.node))
      [] Kind(p) = "ident" /\ Kind(p + 1) = "=" ->
            LET e == parse_("expr", p + 2) IN Result(e.at, Assign(Peek(p).text, e.node))
      [] OTHER ->
            LET e == parse_("expr", p) IN Result(e.at, Do(e.node))

Elifs(list) ==
    IF Kind(list.at) = "elif" THEN Elifs(Listed(list, Guarded(list.at + 1))) ELSE list

parse_if(p) ==
    LET tests == Elifs(Listed(Result(p, <<>>), Guarded(p + 1)))
        else == parse_("block", Expect(tests.at + 1, ":"))
    IN  IF Kind(tests.at) = "else" THEN Result(else.at, If(tests.node, else.node))
        ELSE Result(tests.at, If(tests.node, <<>>))

parse_while(p) ==
    LET loop == Guarded(p + 1)
    IN  Result(loop.at, While(loop.node.cond, loop.node.body))

parse_statement(p) ==
    CASE Kind(p) = "if" -> parse_if(p)
      [] Kind(p) = "while" -> parse_while(p)
      [] OTHER ->
            LET s == parse_simple_stmt(p) IN Result(Expect(s.at, "newline"), s.node)

parse_(what, p) ==
    CASE what = "expr" -> parse_expr(p)
      [] what = "and" -> parse_and(p)
      [] what = "not" -> parse_not(p)
      [] what = "additive" -> parse_additive(p)
      [] what = "mult" -> parse_mult(p)
      [] what = "unary" -> parse_unary(p)
      [] what = "block" -> parse_block(p)
      [] what = "statement" -> parse_statement(p)

-----------------------------------------------------------------------------
(* Definitions and the program *)

RECURSIVE Params(_), TopLevel(_)

Params(list) ==
    IF Kind(list.at) = "," THEN Params(Listed(list, Ident(list.at + 1))) ELSE list

parse_funcdef(p) ==
    LET name == Ident(p + 1)
        open == Expect(name.at, "(")
        params == IF Kind(open) = ")" THEN Result(open, <<>>)
                  ELSE Params(Listed(Result(open, <<>>), Ident(open)))
        body == parse_("block", Expect(Expect(params.at, ")"), ":"))
    IN  Result(body.at, FuncDef(name.node, params.node, body.node))

(* Definitions and other statements may alternate: the former keep their   *)
(* order, the latter become one body.                                      *)
TopLevel(prog) ==
    CASE Kind(prog.at) \in {"eof", "error"} -> prog
      [] Kind(prog.at) = "newline" -> TopLevel([prog EXCEPT !.at = @ + 1])
      [] Kind(prog.at) = "def" ->
            LET fn == parse_funcdef(prog.at)
            IN  TopLevel([prog EXCEPT !.at = fn.at, !.defs = Append(@, fn.node)])
      [] OTHER ->
            LET s == parse_("statement", prog.at)
            IN  TopLevel([prog EXCEPT !.at = s.at, !.top = Append(@, s.node)])

parse_program ==
    LET prog == TopLevel([at |-> 1, defs |-> <<>>, top |-> <<>>])
    IN  Result(prog.at, Program(prog.defs, prog.top))
=============================================================================
