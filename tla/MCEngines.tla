----------------------------- MODULE MCEngines -----------------------------
(***************************************************************************)
(* Three families of programs: every operator on every pair of words; the  *)
(* statements, one nested in another; and whole programs of several        *)
(* functions, with the limits of sema among them.  Words have 4 bits.      *)
(***************************************************************************)
EXTENDS Engines

Hot(prog, entry, args) == [prog |-> prog, entry |-> entry, args |-> args, whole |-> FALSE]
Main(prog) == [prog |-> prog, entry |-> kMainFunc, args |-> <<>>, whole |-> TRUE]

a1 == Name("a")
b1 == Name("b")
t1 == Name("t")

(* f prints its first parameter, so that the order of calls shows. *)
Noisy(name) ==
    FuncDef(name, <<"a", "b">>,
            <<Do(Call(Builtin, <<a1>>)), Return(Binary("Sub", a1, b1))>>)

-----------------------------------------------------------------------------
(* Operators *)

Operator(op) == FuncDef("g", <<"a", "b">>, <<Return(Binary(op, a1, b1))>>)

Operators ==
    {Hot(Program(<<Operator(op)>>, <<>>), "g", <<v, w>>) :
        op \in Arithmetic \cup Comparisons \cup Logical, v \in Word, w \in Word}

(* Constants of every chunk pattern, and the two unary operators. *)
Constants ==
    {Main(Program(<<>>, <<Do(Call(Builtin, <<e>>))>>)) :
        e \in UNION {{IntLit(n), Unary("Neg", IntLit(n)), Unary("Not", IntLit(n))} :
                        n \in Word \cap Nat}}

(* An operator whose operands are calls, or themselves operators. *)
Operand(v) == {Call("f", <<v, IntLit(1)>>), Binary("Mul", v, IntLit(3)), Unary("Not", v)}
Nested ==
    {Hot(Program(<<Noisy("f"),
                   FuncDef("g", <<"a", "b">>, <<Return(Binary(op, l, r))>>)>>, <<>>),
         "g", <<v, w>>) :
        op \in {"Sub", "Mod", "Div", "Lt", "And", "Or"},
        l \in Operand(a1), r \in Operand(b1), v \in {0, 3}, w \in {0, -2}}

-----------------------------------------------------------------------------
(* Statements *)

Simple ==
    {Assign("t", Binary("Add", t1, b1)),
     Assign("a", Binary("Sub", a1, IntLit(1))),
     Do(Call(Builtin, <<t1>>)),
     Return(a1), Return(NoExpr)}

Countdown(body) == While(a1, <<Assign("a", Binary("Sub", a1, IntLit(1)))>> \o body)
Compound ==
    {If(<<Test(a1, <<s>>)>>, <<t>>) : s \in Simple, t \in Simple}
    \cup {If(<<Test(Binary("Gt", a1, b1), <<s>>), Test(b1, <<t>>)>>,
             <<Assign("u", a1)>>) : s \in Simple, t \in Simple}
    \cup {Countdown(<<s>>) : s \in Simple}
    \cup {Countdown(<<If(<<Test(Binary("Eq", a1, b1), <<s>>)>>, <<>>)>>) : s \in Simple}

Statements ==
    {Hot(Program(<<FuncDef("h", <<"a", "b">>,
                           <<s, t, Do(Call(Builtin, <<a1>>)), Assign("t", t1)>>)>>, <<>>),
         "h", args) :
        s \in Compound, t \in Simple, args \in {<<0, 1>>, <<2, 1>>}}

-----------------------------------------------------------------------------
(* Whole programs *)

(* Recursion, forward references, calls in the arguments of calls. *)
Down == FuncDef("down", <<"n">>,
    <<If(<<Test(Name("n"), <<Return(Call("up", <<Binary("Sub", Name("n"), IntLit(1))>>))>>)>>, <<>>),
      Return(IntLit(5))>>)
Up == FuncDef("up", <<"n">>,
    <<Do(Call(Builtin, <<Call("f", <<Name("n"), IntLit(2)>>)>>)),
      Return(Binary("Add", Call("down", <<Name("n")>>), Name("n")))>>)
Deep == Call("f", <<Call("f", <<IntLit(3), IntLit(1)>>), Call("down", <<IntLit(2)>>)>>)

Several ==
    LET prog == Program(<<Down, Noisy("f"), Up>>,
                        <<Assign("t", Deep), Do(Call(Builtin, <<t1>>)),
                          If(<<Test(Binary("Or", Binary("Lt", t1, IntLit(0)), Deep), <<>>)>>, <<>>)>>)
    IN  {Main(prog), Hot(prog, kMainFunc, <<>>), Hot(prog, "up", <<2>>), Hot(prog, "down", <<2>>)}

(* Calls only in the arguments of print, in a print of a print, and in the *)
(* arguments of a call to the function itself.                             *)
Hidden ==
    LET prog == Program(
            <<FuncDef("p", <<"n">>,
                <<Do(Call(Builtin, <<Call(Builtin, <<Call("q", <<Name("n")>>)>>)>>))>>),
              FuncDef("q", <<"n">>,
                <<Return(Binary("And", Name("n"), Call("q", <<Call("z", <<>>)>>)))>>),
              FuncDef("z", <<>>, <<>>)>>, <<Do(Call("p", <<IntLit(4)>>))>>)
    IN  {Main(prog), Hot(prog, "p", <<1>>), Hot(prog, "q", <<0>>)}

(* Divisions by zero inside a call, an argument and a condition. *)
Zeros ==
    LET bad == Binary("Mod", IntLit(1), a1)
        Prog(s) == Program(<<Noisy("f"), FuncDef("d", <<"a">>, <<Do(Call(Builtin, <<IntLit(7)>>)), s>>)>>,
                           <<Do(Call("f", <<IntLit(2), Call("d", <<IntLit(0)>>)>>))>>)
    IN  UNION {{Main(Prog(s)), Hot(Prog(s), "d", <<0>>), Hot(Prog(s), "d", <<2>>)} :
                  s \in {Return(bad), Return(Call("f", <<bad, IntLit(1)>>)),
                         If(<<Test(bad, <<>>)>>, <<Return(Binary("Div", IntLit(6), a1))>>)}}

(* Eight parameters and n slots, the others assigned in five blocks. *)
Letters == <<"a", "b", "c", "d", "e", "f", "g", "h">>
Wide(n) ==
    LET Local(i) == Assign(ToString(i), Name(Letters[(i % 8) + 1]))
        Part(j) == SelectSeq([i \in 1 .. n - 8 |-> Local(i)],
                             LAMBDA s : \E i \in 1 .. n - 8 : s = Local(i) /\ i % 5 = j)
    IN  FuncDef("w", Letters,
            [j \in 1 .. 5 |-> If(<<Test(a1, Part(j - 1))>>, <<>>)]
            \o <<Return(Binary("Sub", Name("h"), Name(ToString(n - 8))))>>)
Limits ==
    {Hot(Program(<<Wide(n)>>, <<>>), "w", <<1, 2, 3, 4, 5, 6, 7, 0>>) : n \in {29, 30, 31}}

(* A division early in a long program: its test reaches for a stub that is *)
(* placed after everything.  For a small Reach19.                          *)
FarCases ==
    {Main(Program(<<>>,
        <<Do(Binary("Div", IntLit(6), IntLit(2)))>>
        \o [i \in 1 .. n |-> Do(Call(Builtin, <<IntLit(1)>>))])) : n \in 1 .. 6}

AllCases ==
    Operators \cup Constants \cup Nested \cup Statements
        \cup Several \cup Hidden \cup Zeros \cup Limits
=============================================================================
