-------------------------- MODULE MCTieredEngines --------------------------
(***************************************************************************)
(* Programs that cross the boundary between the walk and machine code in   *)
(* the middle of expressions, arguments, loops and recursion.              *)
(***************************************************************************)
EXTENDS TieredEngines

a1 == Name("a")
b1 == Name("b")
n1 == Name("n")
t1 == Name("t")

(* f prints and subtracts, so that the order of calls and arguments shows. *)
F == FuncDef("f", <<"a", "b">>,
             <<Do(Call(Builtin, <<a1>>)), Return(Binary("Sub", a1, b1))>>)

(* A countdown by recursion, through another function that prints. *)
Down == FuncDef("g", <<"n">>,
    <<If(<<Test(n1, <<Return(Call("h", <<Binary("Sub", n1, IntLit(1))>>))>>)>>, <<>>),
      Return(IntLit(5))>>)
Up == FuncDef("h", <<"n">>,
    <<Do(Call(Builtin, <<Call("f", <<n1, IntLit(2)>>)>>)),
      Return(Binary("Add", Call("g", <<n1>>), n1))>>)

(* A loop that returns from inside, and one that falls off the end. *)
G == FuncDef("g", <<"a">>,
    <<While(IntLit(1),
        <<Assign("a", Binary("Add", a1, IntLit(1))),
          If(<<Test(Binary("Gt", a1, IntLit(3)), <<Return(Call("f", <<a1, t1>>))>>),
               Test(Binary("Eq", a1, IntLit(2)), <<Assign("t", Unary("Neg", a1))>>)>>,
             <<Do(Call("f", <<t1, a1>>))>>)>>)>>)
Search == FuncDef("g", <<"a">>,
    <<While(IntLit(1),
        <<Assign("a", Binary("Sub", a1, IntLit(1))), If(<<Test(Unary("Not", a1), <<Return(Unary("Neg", a1))>>)>>, <<>>)>>)>>)
Z == FuncDef("g", <<"a">>, <<Assign("t", Binary("Div", IntLit(6), a1)), Do(Call("f", <<t1, a1>>))>>)

Calls3(f, args) == <<Do(Call(f, args)), Do(Call(Builtin, <<Call(f, args)>>)), Do(Call(f, args))>>

Crossings ==
    {Program(<<Down, F, Up>>,
             <<Assign("t", Call("f", <<Call("f", <<IntLit(3), IntLit(1)>>),
                                       Call("g", <<IntLit(3)>>)>>)),
               Do(Call(Builtin, <<Call("g", <<IntLit(1)>>)>>)),
               Do(Call(Builtin, <<t1>>))>>),
     Program(<<F, G>>, Calls3("g", <<IntLit(0)>>)),
     Program(<<F>>,
             <<Assign("n", IntLit(3)),
               While(n1,
                   <<Assign("n", Binary("Sub", n1, IntLit(1))),
                     If(<<Test(Binary("And", Call("f", <<n1, IntLit(1)>>), n1),
                               <<Do(Call(Builtin, <<Call("f", <<IntLit(7), n1>>)>>))>>)>>,
                        <<Do(Unary("Not", Call("f", <<n1, n1>>)))>>)>>)>>),
     Program(<<F, Z>>,
             <<Do(Call("g", <<IntLit(2)>>)), Do(Call("g", <<IntLit(1)>>)),
               Do(Call("f", <<IntLit(4), Call("g", <<IntLit(0)>>)>>))>>),
     Program(<<Search>>, Calls3("g", <<IntLit(3)>>)),
     Program(<<>>, <<Do(Call(Builtin, <<Binary("Mod", IntLit(5), IntLit(0))>>))>>)}
=============================================================================
