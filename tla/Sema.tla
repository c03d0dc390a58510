-------------------------------- MODULE Sema --------------------------------
(***************************************************************************)
(* Semantic analysis: which programs are accepted, and the frame slot that *)
(* every name of an accepted one gets.  A rejection is a CompileError, on  *)
(* which the driver prints a line and exits; which line is left out.       *)
(***************************************************************************)
EXTENDS Ast, FiniteSets, SequencesExt

kMaxParams == 8
kMaxSlots == 30

-----------------------------------------------------------------------------
(* Pass 1: signatures *)

SignaturesOK(prog) ==
    \A i \in DOMAIN prog :
        /\ prog[i].name # Builtin
        /\ Len(prog[i].params) <= kMaxParams
        /\ \A j \in 1 .. i - 1 : prog[j].name # prog[i].name

-----------------------------------------------------------------------------
(* Pass 2a: the names a body assigns, in the order of the walk *)

RECURSIVE AssignedBy(_)

AssignedIn(block) ==
    FoldLeft(LAMBDA names, s : names \o AssignedBy(s), <<>>, block)

AssignedBy(s) ==
    CASE s.kind = "Assign" -> <<s.name>>
      [] s.kind = "If" ->
            FoldLeft(LAMBDA names, b : names \o AssignedIn(b.body), <<>>, s.branches)
                \o AssignedIn(s.else_body)
      [] s.kind = "While" -> AssignedIn(s.body)
      [] OTHER -> <<>>

(* slots_: the parameters, then each assigned name at its first assignment. *)
(* The name at position i has slot i - 1.                                   *)
Slots(fn) ==
    LET names == fn.params \o AssignedIn(fn.body)
        firsts == SelectSeq([i \in DOMAIN names |-> i],
                            LAMBDA i : \A j \in 1 .. i - 1 : names[j] # names[i])
    IN  [k \in DOMAIN firsts |-> names[firsts[k]]]

SlotOf(slots, x) == (CHOOSE i \in DOMAIN slots : slots[i] = x) - 1

-----------------------------------------------------------------------------
(* Pass 2b: reads and calls *)

RECURSIVE SubExprs(_), BlockExprs(_)

SubExprs(e) == {e} \cup UNION {SubExprs(a) : a \in Operands(e)}

StmtExprs(s) ==
    CASE s.kind \in {"Assign", "Return"} -> SubExprs(s.value)
      [] s.kind = "ExprStmt" -> SubExprs(s.expr)
      [] s.kind = "If" ->
            UNION {SubExprs(b.cond) \cup BlockExprs(b.body) : b \in ToSet(s.branches)}
                \cup BlockExprs(s.else_body)
      [] s.kind = "While" -> SubExprs(s.cond) \cup BlockExprs(s.body)

BlockExprs(block) == UNION {StmtExprs(s) : s \in ToSet(block)}

ExprOK(prog, names, e) ==
    CASE e.kind = "Name" -> e.name \in names
      [] e.kind = "Call" ->
            IF e.callee = Builtin THEN Len(e.args) = 1
            ELSE \E i \in DOMAIN prog : prog[i].name = e.callee
                                          /\ Len(prog[i].params) = Len(e.args)
      [] OTHER -> TRUE

FunctionOK(prog, fn) ==
    /\ Builtin \notin ToSet(fn.params) \cup ToSet(AssignedIn(fn.body))
    /\ IsInjective(fn.params)
    /\ Len(Slots(fn)) <= kMaxSlots
    /\ \A e \in BlockExprs(fn.body) : ExprOK(prog, ToSet(Slots(fn)), e)

(* Sema::run ends without a CompileError. *)
Accepts(prog) ==
    /\ SignaturesOK(prog)
    /\ \A i \in DOMAIN prog : FunctionOK(prog, prog[i])

-----------------------------------------------------------------------------
(* What check_expr and check_stmt write into the tree *)

RECURSIVE ResolvedExpr(_, _), ResolvedBlock(_, _)

ResolvedExpr(slots, e) ==
    CASE e.kind = "Name" -> [e EXCEPT !.slot = SlotOf(slots, e.name)]
      [] e.kind = "Call" ->
            [e EXCEPT !.args = [i \in DOMAIN @ |-> ResolvedExpr(slots, @[i])]]
      [] e.kind = "Unary" -> [e EXCEPT !.operand = ResolvedExpr(slots, @)]
      [] e.kind = "Binary" ->
            [e EXCEPT !.lhs = ResolvedExpr(slots, @), !.rhs = ResolvedExpr(slots, @)]
      [] OTHER -> e

ResolvedStmt(slots, s) ==
    CASE s.kind = "Assign" ->
            [s EXCEPT !.slot = SlotOf(slots, s.name), !.value = ResolvedExpr(slots, @)]
      [] s.kind = "Return" -> [s EXCEPT !.value = ResolvedExpr(slots, @)]
      [] s.kind = "ExprStmt" -> [s EXCEPT !.expr = ResolvedExpr(slots, @)]
      [] s.kind = "If" ->
            [s EXCEPT !.branches =
                         [i \in DOMAIN @ |-> Test(ResolvedExpr(slots, @[i].cond),
                                                  ResolvedBlock(slots, @[i].body))],
                      !.else_body = ResolvedBlock(slots, @)]
      [] s.kind = "While" ->
            [s EXCEPT !.cond = ResolvedExpr(slots, @), !.body = ResolvedBlock(slots, @)]

ResolvedBlock(slots, block) ==
    [i \in DOMAIN block |-> ResolvedStmt(slots, block[i])]

(* An accepted program as codegen gets it. *)
Resolved(prog) ==
    [i \in DOMAIN prog |->
        LET slots == Slots(prog[i])
        IN  [prog[i] EXCEPT !.body = ResolvedBlock(slots, @), !.nslots = Len(slots)]]
=============================================================================
