--------------------------- MODULE TieredEngines ---------------------------
(***************************************************************************)
(* The third engine: the tree walker, stopping at every call to ask the    *)
(* TierManager, and machine code for the calls that are hot.  Modules      *)
(* Engines and Tiering each have one side of it; here a program computes   *)
(* its values partly in one and partly in the other.                       *)
(*                                                                         *)
(* The walk is in small steps, so that it can wait for machine code in the *)
(* middle of an expression: ctl is what the walker is about to do, and     *)
(* rest the C++ activations it is in the middle of, innermost last.        *)
(***************************************************************************)
EXTENDS Machine, Codegen, Interp, Sema, Calls

CONSTANTS
    Programs,        \* what is run
    Thresholds       \* --hot=N

VARIABLES
    prog,            \* the resolved program
    threshold,       \* threshold_
    units,           \* what compile_hot compiles for each function, if asked
    ctl, rest,       \* the walk
    frame,           \* the Frame of the call being walked
    counts,          \* counts_
    compiled,        \* compiled_: region and entry, by name
    regions,         \* regions_: the code of each
    oracle           \* where the walk without a TierManager ended

tiers == <<counts, compiled, regions>>
walk == <<ctl, rest, frame>>
vars == <<machine, prog, threshold, units, walk, tiers, oracle>>

Names == {prog[i].name : i \in DOMAIN prog}

-----------------------------------------------------------------------------
(* What the walker is about to do *)

Evaluate(e) == [do |-> "eval", e |-> e]
Have(v) == [do |-> "value", v |-> v]
CallNow(f, vals) == [do |-> "call", f |-> f, vals |-> vals]
Run(block) == [do |-> "exec", block |-> block]
Done == [do |-> "done"]                    \* ExecResult Normal
Returning(v) == [do |-> "return", v |-> v]

(* ... and what it does with a value, or at the end of a block, after that. *)
OneOperand(op) == [of |-> "unary", op |-> op]
Left(op, rhs) == [of |-> "left", op |-> op, rhs |-> rhs]
Right(op, v) == [of |-> "right", op |-> op, v |-> v]
Arguments(e, vals) == [of |-> "args", e |-> e, vals |-> vals]
ActiveCall(saved) == [of |-> "call", frame |-> saved]
AssignTo(name) == [of |-> "assign", name |-> name]
Of(which) == [of |-> which]                \* "return", "drop"
Tests(tests, else) == [of |-> "tests", tests |-> tests, else |-> else]
Loop(part, w) == [of |-> part, w |-> w]    \* "cond", "body"
Block(stmts) == [of |-> "block", block |-> stmts]

Init ==
    /\ \E p \in Programs :
          /\ Accepts(p)
          /\ prog = Resolved(p)
          /\ \E over \in {CallFn(prog, FunctionNamed(prog, kMainFunc), <<>>, Fresh)} :
                /\ over.end # "fuel"
                /\ oracle = [out |-> over.out, end |-> over.end]
    /\ units = [f \in Names |-> compile(reachable_from(prog, f))]
    /\ threshold \in Thresholds
    /\ ctl = CallNow(kMainFunc, <<>>)
    /\ rest = <<>>
    /\ frame = <<>>
    /\ counts = [f \in Names |-> 0]
    /\ compiled = [f \in Names |-> [region |-> 0, entry |-> 0]]
    /\ regions = <<>>
    /\ code = <<>> /\ out = <<>> /\ end = "host"
    /\ pc = HostPc /\ x = <<>> /\ sp = HostSp /\ flags = Junk /\ mem = <<>>

Ready(what) == end = "host" /\ ctl.do = what

Goes(c) == ctl' = c /\ UNCHANGED <<rest, frame>>
Begins(c, then) == ctl' = c /\ rest' = Append(rest, then) /\ UNCHANGED frame

Top == Last(rest)
Resumes(c) == ctl' = c /\ rest' = Front(rest) /\ UNCHANGED frame
Instead(c, then) == ctl' = c /\ rest' = [rest EXCEPT ![Len(rest)] = then] /\ UNCHANGED frame

WalkOnly == UNCHANGED <<machine, prog, threshold, units, tiers, oracle>>

-----------------------------------------------------------------------------
(* Interpreter::eval and exec *)

EvalStep ==
    /\ Ready("eval")
    /\ LET e == ctl.e IN
          CASE e.kind = "Int" -> Goes(Have(e.value))
            [] e.kind = "Name" -> Goes(Have(IF e.name \in DOMAIN frame THEN frame[e.name] ELSE 0))
            [] e.kind = "Unary" -> Begins(Evaluate(e.operand), OneOperand(e.op))
            [] e.kind = "Binary" -> Begins(Evaluate(e.lhs), Left(e.op, e.rhs))
            [] e.kind = "Call" ->
                  IF e.args = <<>> THEN Goes(CallNow(e.callee, <<>>))
                  ELSE Begins(Evaluate(e.args[1]), Arguments(e, <<>>))
    /\ WalkOnly

(* A value, for the operation that waits for it. *)
Use ==
    /\ Ready("value") /\ rest # <<>>
    /\ LET v == ctl.v IN
          CASE Top.of = "unary" ->
                  Resumes(Have(Apply(Top.op, v)))
            [] Top.of = "left" ->
                  IF Top.op \notin Logical THEN Instead(Evaluate(Top.rhs), Right(Top.op, v))
                  ELSE Resumes(IF (Top.op = "Or") = (v # 0) THEN Have(v) ELSE Evaluate(Top.rhs))
            [] Top.of = "right" ->
                  /\ ~(Top.op \in Divisions /\ v = 0)
                  /\ Resumes(Have(Combine(Top.op, Top.v, v)))
            [] Top.of = "args" ->
                  LET vals == Append(Top.vals, v) IN
                  IF Len(vals) = Len(Top.e.args) THEN Resumes(CallNow(Top.e.callee, vals))
                  ELSE Instead(Evaluate(Top.e.args[Len(vals) + 1]), Arguments(Top.e, vals))
            [] Top.of = "assign" ->
                  /\ ctl' = Done /\ rest' = Front(rest)
                  /\ frame' = (Top.name :> v) @@ frame
            [] Top.of = "return" -> Resumes(Returning(v))
            [] Top.of = "drop" -> Resumes(Done)
            [] Top.of = "tests" ->
                  IF v # 0 THEN Resumes(Run(Top.tests[1].body))
                  ELSE IF Len(Top.tests) = 1 THEN Resumes(Run(Top.else))
                  ELSE Instead(Evaluate(Top.tests[2].cond), Tests(Tail(Top.tests), Top.else))
            [] Top.of = "cond" ->
                  IF v = 0 THEN Resumes(Done)
                  ELSE Instead(Run(Top.w.body), Loop("body", Top.w))
    /\ WalkOnly

(* trunc_div and trunc_mod: exit(1), wherever the walk is. *)
DivZero ==
    /\ Ready("value") /\ rest # <<>>
    /\ Top.of = "right" /\ Top.op \in Divisions /\ ctl.v = 0
    /\ end' = "exited"
    /\ UNCHANGED <<code, pc, x, sp, flags, mem, out, prog, threshold, units, walk, tiers, oracle>>

ExecStep ==
    /\ Ready("exec")
    /\ IF ctl.block = <<>> THEN Goes(Done)
       ELSE LET s == Head(ctl.block)
                under == Append(rest, Block(Tail(ctl.block)))
                First(e, then) == ctl' = Evaluate(e) /\ rest' = Append(under, then)
            IN  /\ CASE s.kind = "Assign" -> First(s.value, AssignTo(s.name))
                     [] s.kind = "Return" ->
                          IF s.value = NoExpr THEN ctl' = Returning(0) /\ rest' = under
                          ELSE First(s.value, Of("return"))
                     [] s.kind = "ExprStmt" -> First(s.expr, Of("drop"))
                     [] s.kind = "If" -> First(s.branches[1].cond, Tests(s.branches, s.else_body))
                     [] s.kind = "While" -> First(s.cond, Loop("cond", s))
                /\ UNCHANGED frame
    /\ WalkOnly

(* A body over: back in the caller's frame, with this value. *)
LeavesCall(v) == ctl' = Have(v) /\ rest' = Front(rest) /\ frame' = Top.frame

BlockDone ==
    /\ Ready("done")
    /\ CASE Top.of = "block" -> Resumes(Run(Top.block))
         [] Top.of = "body" -> Instead(Evaluate(Top.w.cond), Loop("cond", Top.w))
         [] Top.of = "call" -> LeavesCall(0)
    /\ WalkOnly

(* Slip: a loop does not look at how its body ended. *)
UnwindToLoop ==
    /\ Ready("return")
    /\ CASE Top.of = "call" -> LeavesCall(ctl.v)
         [] Top.of = "body" -> Instead(Evaluate(Top.w.cond), Loop("cond", Top.w))
         [] OTHER -> Resumes(ctl)
    /\ WalkOnly

(* A return leaves the loops and blocks it is in. *)
Unwind ==
    /\ Ready("return")
    /\ IF Top.of = "call" THEN LeavesCall(ctl.v) ELSE Resumes(ctl)
    /\ WalkOnly

-----------------------------------------------------------------------------
(* Calls *)

PrintCall ==
    /\ Ready("call") /\ ctl.f = Builtin
    /\ out' = Append(out, ctl.vals[1])
    /\ Goes(Have(0))
    /\ UNCHANGED <<code, pc, x, sp, flags, mem, end, prog, threshold, units, tiers, oracle>>

Calling(f) == Ready("call") /\ ctl.f = f /\ f # Builtin

IsCompiled(f) == compiled[f].region # 0
StaysCold(f) == counts[f] + 1 < threshold
Count(f) == counts' = [counts EXCEPT ![f] = @ + 1]

(* Slip: the arguments the other way round. *)
invoke_reversed(entry, vals) ==
    /\ code' = entry.code
    /\ pc' = entry.at
    /\ x' = [r \in Registers |->
                CASE r < Len(vals) -> vals[Len(vals) - r]
                  [] r = FP -> HostFp
                  [] r = LR -> HostPc
                  [] OTHER -> Junk]
    /\ mem' = [a \in Addresses |-> Junk]
    /\ flags' = Junk
    /\ end' = "running"

(* A call from C++ with as many arguments as there are. *)
invoke(entry, vals) ==
    /\ code' = entry.code
    /\ pc' = entry.at
    /\ x' = [r \in Registers |->
                CASE r < Len(vals) -> vals[r + 1]
                  [] r = FP -> HostFp
                  [] r = LR -> HostPc
                  [] OTHER -> Junk]
    /\ mem' = [a \in Addresses |-> Junk]
    /\ flags' = Junk
    /\ end' = "running"

CallCompiled ==
    \E f \in Names :
        /\ Calling(f) /\ IsCompiled(f)
        /\ invoke([code |-> regions[compiled[f].region], at |-> compiled[f].entry], ctl.vals)
        /\ UNCHANGED <<sp, out, prog, threshold, units, walk, tiers, oracle>>

(* A fresh frame of the parameters, and the body. *)
CallCold ==
    \E f \in Names :
        /\ Calling(f) /\ ~IsCompiled(f) /\ StaysCold(f)
        /\ Count(f)
        /\ LET fn == FunctionNamed(prog, f) IN
              /\ ctl' = Run(fn.body)
              /\ rest' = Append(rest, ActiveCall(frame))
              /\ frame' = [p \in ToSet(fn.params) |->
                              ctl.vals[CHOOSE i \in DOMAIN fn.params : fn.params[i] = p]]
        /\ UNCHANGED <<machine, prog, threshold, units, compiled, regions, oracle>>

(* Slip: only the function that tripped the counter is bound. *)
BindsOne(g, f) ==
    compiled' = [compiled EXCEPT ![f] = [region |-> Len(regions) + 1,
                                         entry |-> g.offsets[FuncLabel(g, f)]]]

Binds(g, f) ==
    compiled' = [h \in Names |->
                    IF Contains(g.funcs, h)
                    THEN [region |-> Len(regions) + 1, entry |-> g.offsets[FuncLabel(g, h)]]
                    ELSE compiled[h]]

(* compile_hot, and the call goes to what it made. *)
CallHot ==
    \E f \in Names :
        /\ Calling(f) /\ ~IsCompiled(f) /\ ~StaysCold(f)
        /\ Count(f)
        /\ LET g == units[f] IN
              /\ ~g.bug
              /\ regions' = Append(regions, g.code)
              /\ Binds(g, f)
              /\ invoke([code |-> g.code, at |-> g.offsets[FuncLabel(g, f)]], ctl.vals)
        /\ UNCHANGED <<sp, out, prog, threshold, units, walk, oracle>>

(* The call is over: its value is in x0, and the walk goes on. *)
Resume ==
    /\ end = "returned"
    /\ end' = "host"
    /\ Goes(Have(x[X0]))
    /\ UNCHANGED <<code, pc, x, sp, flags, mem, out, prog, threshold, units, tiers, oracle>>

InCode == Step /\ UNCHANGED <<prog, threshold, units, walk, tiers, oracle>>

(* __main__ has returned; run_tiered returns 0 whatever the value. *)
Finished ==
    /\ Ready("value") /\ rest = <<>>
    /\ end' = "finished"
    /\ UNCHANGED <<code, pc, x, sp, flags, mem, out, prog, threshold, units, walk, tiers, oracle>>

Next ==
    \/ EvalStep \/ Use \/ DivZero \/ ExecStep \/ BlockDone \/ Unwind
    \/ PrintCall \/ CallCompiled \/ CallCold \/ CallHot
    \/ InCode \/ Resume \/ Finished

Spec == Init /\ [][Next]_vars /\ WF_vars(Next)

-----------------------------------------------------------------------------
(***************************************************************************)
(* Tiering changes nothing a program computes or prints (tiering.h, README *)
(* "All three have to agree"): at any threshold, and wherever in a program *)
(* a call goes native, it prints what the walk alone prints, in the same   *)
(* order, and ends the same way after it.                                  *)
(***************************************************************************)
TiersAgree ==
    /\ IsPrefix(out, oracle.out)
    /\ end = "finished" => out = oracle.out /\ oracle.end = "running"
    /\ end = "exited" => out = oracle.out /\ oracle.end = "zero"

(***************************************************************************)
(* A run ends whenever the walk alone does: no call waits for a value that *)
(* never comes, and no promotion starts a computation over.                *)
(***************************************************************************)
Terminates == <>(end \in {"finished", "exited"})

EveryName == {p[i].name : <<p, i>> \in {<<p, i>> \in Programs \X (1 .. 9) : i \in DOMAIN p}}

(* The reference for who calls whom: the callees met anywhere in a tree,   *)
(* found by descending into whatever a node holds, and not by the cases of *)
(* collect_calls.  A number is no tree.                                    *)
TreesIn(node) ==
    {k \in DOMAIN node \cap {"operand", "lhs", "rhs", "value", "expr", "cond"} :
        k = "value" => node.kind # "Int"}
ListsIn(node) == DOMAIN node \cap {"args", "body", "branches", "else_body"}

RECURSIVE Mentioned(_)

Mentioned(node) ==
    {node[k] : k \in DOMAIN node \cap {"callee"}}
    \cup UNION {Mentioned(node[k]) : k \in TreesIn(node)}
    \cup UNION {UNION {Mentioned(node[k][n]) : n \in DOMAIN node[k]} : k \in ListsIn(node)}

Callees(f) == IF f \in Names THEN Mentioned(FunctionNamed(prog, f)) \ {Builtin} ELSE {}

Walked(f) ==
    IF f \notin Names THEN 0
    ELSE IF counts[f] = threshold THEN threshold - 1 ELSE counts[f]

Policy(n) == INSTANCE TierPolicy WITH
    Func <- EveryName,
    Threshold <- n,
    calls <- [f \in EveryName |-> Callees(f)],
    walked <- [f \in EveryName |-> Walked(f)],
    native <- {f \in Names : IsCompiled(f)}

(***************************************************************************)
(* Programs with their statements and expressions follow the policy that   *)
(* module Tiering follows over call graphs: what becomes native together   *)
(* is everything that the text of the bodies reaches, at whatever place of *)
(* a statement a call stands (tiering.cc:23-155).                         *)
(***************************************************************************)
FollowsPolicy ==
    [][\A n \in Thresholds : threshold = n => Policy(n)!Next]_<<counts, compiled>>
=============================================================================
