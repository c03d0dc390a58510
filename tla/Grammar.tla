------------------------------ MODULE Grammar ------------------------------
(***************************************************************************)
(* The language, as the productions in the comments of parser.cc give it:  *)
(* for each nonterminal, the trees that a sequence of tokens derives.      *)
(* Nothing here looks ahead, decides or consumes: a sequence derives what  *)
(* any way to cut it into parts derives.  It is the reference the parser   *)
(* is checked against, and does not translate its code.                    *)
(***************************************************************************)
EXTENDS Ast, SequencesExt

Fore(s, k) == SubSeq(s, 1, k - 1)
Rest(s, k) == SubSeq(s, k + 1, Len(s))
Where(s, kinds) == {k \in DOMAIN s : s[k].kind \in kinds}
Starts(s, kind) == s # <<>> /\ s[1].kind = kind
Ends(s, kind) == s # <<>> /\ s[Len(s)].kind = kind
Single(s, kind) == Len(s) = 1 /\ s[1].kind = kind
Inner(s) == SubSeq(s, 2, Len(s) - 1)

(* The trees that s derives from a nonterminal. *)
RECURSIVE trees(_, _)

(* lhs op rhs, cut at any of the operators. *)
Cut(s, kinds, lhs, rhs, Tree(_, _, _)) ==
    UNION {{Tree(s[k].kind, l, r) : l \in trees(lhs, Fore(s, k)), r \in trees(rhs, Rest(s, k))} :
            k \in Where(s, kinds)}

BinOpOf(kind) ==
    CASE kind = "or" -> "Or" [] kind = "and" -> "And"
      [] kind = "==" -> "Eq" [] kind = "!=" -> "Ne" [] kind = "<" -> "Lt"
      [] kind = "<=" -> "Le" [] kind = ">" -> "Gt" [] kind = ">=" -> "Ge"
      [] kind = "+" -> "Add" [] kind = "-" -> "Sub"
      [] kind = "*" -> "Mul" [] kind = "//" -> "Div" [] kind = "%" -> "Mod"

Op(kind, l, r) == Binary(BinOpOf(kind), l, r)

-----------------------------------------------------------------------------
(* Expressions *)

(* expr ("," expr)* *)
args(s) ==
    {<<e>> : e \in trees("or_expr", s)}
    \cup Cut(s, {","}, "args", "or_expr", LAMBDA kind, l, e : Append(l, e))

primary(s) ==
    CASE Single(s, "integer") -> {IntLit(s[1].int_val)}
      [] Single(s, "True") -> {IntLit(1)}
      [] Single(s, "False") -> {IntLit(0)}
      [] Single(s, "ident") -> {Name(s[1].text)}
      [] Starts(s, "(") /\ Ends(s, ")") -> trees("or_expr", Inner(s))
      [] Starts(s, "ident") /\ Starts(Tail(s), "(") /\ Ends(s, ")") ->
            LET inner == Inner(Tail(s))
            IN  {Call(s[1].text, l) : l \in IF inner = <<>> THEN {<<>>} ELSE trees("args", inner)}
      [] OTHER -> {}

unary(s) ==
    primary(s) \cup IF Starts(s, "-") THEN {Unary("Neg", e) : e \in trees("unary", Tail(s))} ELSE {}

mult(s) == unary(s) \cup Cut(s, {"*", "//", "%"}, "mult", "unary", Op)

additive(s) == mult(s) \cup Cut(s, {"+", "-"}, "additive", "mult", Op)

comparison(s) ==
    additive(s) \cup Cut(s, {"==", "!=", "<", "<=", ">", ">="}, "additive", "additive", Op)

not_expr(s) ==
    comparison(s)
    \cup IF Starts(s, "not") THEN {Unary("Not", e) : e \in trees("not_expr", Tail(s))} ELSE {}

and_expr(s) == not_expr(s) \cup Cut(s, {"and"}, "and_expr", "not_expr", Op)

or_expr(s) == and_expr(s) \cup Cut(s, {"or"}, "or_expr", "and_expr", Op)

-----------------------------------------------------------------------------
(* Statements *)

simple_stmt(s) ==
    {Do(e) : e \in trees("or_expr", s)}
    \cup (IF Single(s, "return") THEN {Return(NoExpr)} ELSE {})
    \cup (IF Starts(s, "return") THEN {Return(e) : e \in trees("or_expr", Tail(s))} ELSE {})
    \cup (IF Starts(s, "ident") /\ Starts(Tail(s), "=")
          THEN {Assign(s[1].text, e) : e \in trees("or_expr", Rest(s, 2))} ELSE {})

(* NEWLINE INDENT statement+ DEDENT *)
block(s) ==
    IF Starts(s, "newline") /\ Starts(Tail(s), "indent") /\ Ends(s, "dedent")
    THEN trees("statements", Inner(Tail(s))) ELSE {}

(* Where a statement may end, in a sequence of them. *)
Breaks(s) == {k \in Where(s, {"newline", "dedent"}) : k < Len(s)}

statements(s) ==
    {<<t>> : t \in trees("statement", s)}
    \cup UNION {{<<t>> \o ts : t \in trees("statement", SubSeq(s, 1, k)), ts \in trees("statements", Rest(s, k))} :
                 k \in Breaks(s)}

(* word expr ":" block *)
arm(word, s) ==
    IF Starts(s, word)
    THEN Cut(Tail(s), {":"}, "or_expr", "block", LAMBDA kind, cond, body : Test(cond, body))
    ELSE {}

(* The block of an else, none at all included. *)
else_part(s) ==
    IF s = <<>> THEN {<<>>}
    ELSE IF Starts(s, "else") /\ Starts(Tail(s), ":") THEN trees("block", Rest(s, 2))
    ELSE {}

(* What may follow the first arm of an if. *)
elifs(s) ==
    {[tests |-> <<>>, else |-> b] : b \in else_part(s)}
    \cup UNION {{[tests |-> <<t>> \o rest.tests, else |-> rest.else] :
                    t \in arm("elif", SubSeq(s, 1, k)), rest \in trees("elifs", Rest(s, k))} :
                 k \in Where(s, {"dedent"})}

if_stmt(s) ==
    UNION {{If(<<t>> \o rest.tests, rest.else) :
                t \in arm("if", SubSeq(s, 1, k)), rest \in trees("elifs", Rest(s, k))} :
            k \in Where(s, {"dedent"})}

statement(s) ==
    if_stmt(s)
    \cup {While(t.cond, t.body) : t \in arm("while", s)}
    \cup (IF Ends(s, "newline") THEN simple_stmt(Fore(s, Len(s))) ELSE {})

trees(what, s) ==
    CASE what = "or_expr" -> or_expr(s)
      [] what = "and_expr" -> and_expr(s)
      [] what = "not_expr" -> not_expr(s)
      [] what = "additive" -> additive(s)
      [] what = "mult" -> mult(s)
      [] what = "unary" -> unary(s)
      [] what = "args" -> args(s)
      [] what = "block" -> block(s)
      [] what = "statements" -> statements(s)
      [] what = "statement" -> statement(s)
      [] what = "elifs" -> elifs(s)

-----------------------------------------------------------------------------
(* Programs *)

(* IDENT ("," IDENT)*, or nothing *)
params(s) ==
    IF /\ s = <<>> \/ Len(s) % 2 = 1
       /\ \A k \in DOMAIN s : s[k].kind = IF k % 2 = 1 THEN "ident" ELSE ","
    THEN {[k \in 1 .. (Len(s) + 1) \div 2 |-> s[2 * k - 1].text]} ELSE {}

funcdef(s) ==
    IF Starts(s, "def") /\ Starts(Tail(s), "ident") /\ Starts(Rest(s, 2), "(")
    THEN UNION {IF Starts(Rest(s, k), ":")
                THEN {FuncDef(s[2].text, ps, b) :
                        ps \in params(SubSeq(s, 4, k - 1)), b \in trees("block", Rest(s, k + 1))}
                ELSE {} : k \in Where(s, {")"})}
    ELSE {}

RECURSIVE items(_)

(* (NEWLINE | funcdef | statement)*, sorted into definitions and the rest. *)
items(s) ==
    IF s = <<>> THEN {[defs |-> <<>>, top |-> <<>>]}
    ELSE UNION {
        LET first == SubSeq(s, 1, k)
            rest == items(Rest(s, k))
        IN  (IF Single(first, "newline") THEN rest ELSE {})
            \cup {[r EXCEPT !.defs = <<f>> \o @] : f \in funcdef(first), r \in rest}
            \cup {[r EXCEPT !.top = <<t>> \o @] : t \in trees("statement", first), r \in rest} :
        k \in Where(s, {"newline", "dedent"})}

(* The programs a whole stream derives. *)
Programs(s) ==
    IF Ends(s, "eof") THEN {Program(p.defs, p.top) : p \in items(Fore(s, Len(s)))} ELSE {}
=============================================================================
