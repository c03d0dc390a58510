------------------------------- MODULE Driver -------------------------------
(***************************************************************************)
(* The process: main's options, the stages of the pipeline and the errors  *)
(* each may end it with, the three engines as far as they print, and the   *)
(* standard output buffer that they share.                                 *)
(*                                                                         *)
(* What a stage does with the source is left open: it fails or it does     *)
(* not, and a program prints what it likes, divides by zero or returns.    *)
(* Standard output is a buffer in front of a file: written out at every    *)
(* line to a terminal, at the library's leisure to a pipe, and on exit.    *)
(* Standard error is not buffered.                                         *)
(***************************************************************************)
EXTENDS Integers, SequencesExt

CONSTANTS
    Args,            \* the command line arguments considered: those that
                     \* are no flag below name a file, -x a flag of no kind
    MaxArgs,         \* bound on how many there are
    Values,          \* what a program may print
    MaxPrints        \* bound on how often

ASSUME MaxArgsAssumption == MaxArgs \in Nat

VARIABLES
    args, arg,       \* argv, and the position of main's loop in it
    opt,             \* the options so far
    stage,           \* where the process is
    native,          \* machine code runs the program, not the tree walker
    terminal,        \* standard output is a terminal, so line-buffered
    buffer,          \* the lines in the buffer of standard output
    screen,          \* the lines written to either output, in their order
    timed,           \* but those of --time, whose place nothing promises
    printed,         \* not in the code: the output asked for so far
    result           \* what main is about to return, then the exit status

options == <<args, arg, opt>>
output == <<buffer, screen, timed, printed>>
vars == <<args, arg, opt, stage, native, terminal, output, result>>

Out(line) == <<"stdout", line>>
Err(line) == <<"stderr", line>>

Engines == {"--jit", "--interp", "--tier"}
Errors == {"flag", "usage", "open", "compile", "runtime", "emitter", "mmap"}
Timings == {"compile_ms", "run_ms", "compiled_funcs"}
Dumps == {"tokens", "ast", "listing"}

Outs == {Out(line) : line \in Values \cup Dumps}
Errs == {Err(line) : line \in Errors}

Init ==
    /\ args \in SeqOf(Args, MaxArgs)
    /\ arg = 1
    /\ opt = [path |-> "", tokens |-> FALSE, ast |-> FALSE, disasm |-> FALSE,
              time |-> FALSE, engine |-> "--jit", hot |-> 100]
    /\ stage = "options"
    /\ native = FALSE
    /\ terminal \in BOOLEAN
    /\ buffer = <<>> /\ screen = <<>> /\ timed = <<>> /\ printed = <<>>
    /\ result = "none"

-----------------------------------------------------------------------------
(* The two outputs, and the ways out *)

(* printf, and << on cout: both write through the same buffer. *)
Write(line) ==
    /\ printed' = Append(printed, line)
    /\ IF terminal
       THEN screen' = Append(screen \o buffer, Out(line)) /\ buffer' = <<>>
       ELSE buffer' = Append(buffer, Out(line)) /\ screen' = screen
    /\ UNCHANGED timed

mp_print(v) == Write(v)

(* The buffer of a pipe is full, or the library thinks so. *)
Spill ==
    /\ stage # "exited"
    /\ ~terminal /\ buffer # <<>>
    /\ screen' = screen \o buffer
    /\ buffer' = <<>>
    /\ UNCHANGED <<options, stage, native, terminal, timed, printed, result>>

Goes(to) ==
    /\ stage' = to
    /\ UNCHANGED <<options, native, terminal, output, result>>

(* A message on standard error, and main returns 1 or exit(1) is called. *)
Fails(line) ==
    /\ screen' = Append(screen, Err(line))
    /\ stage' = "returning"
    /\ result' = "1"
    /\ UNCHANGED <<options, native, terminal, buffer, timed, printed>>

(* A message, and abort: what becomes of the buffer is the library's choice. *)
Aborts(line) ==
    /\ \E kept \in {<<>>, buffer} : screen' = Append(screen, Err(line)) \o kept
    /\ buffer' = <<>>
    /\ stage' = "exited"
    /\ result' = "aborted"
    /\ UNCHANGED <<options, native, terminal, timed, printed>>

(* main has returned, or exit was called. *)
Exit ==
    /\ stage = "returning"
    /\ screen' = screen \o buffer
    /\ buffer' = <<>>
    /\ stage' = "exited"
    /\ UNCHANGED <<options, native, terminal, timed, printed, result>>

-----------------------------------------------------------------------------
(* main, up to the source *)

(* What atoi makes of a number: out of range is undefined. *)
atoi(a) ==
    CASE a = "--hot=7" -> {7} [] a = "--hot=99999999999" -> {-1, 7} [] OTHER -> {0}

Thresholds == {"--hot=7", "--hot=0", "--hot=x", "--hot=99999999999"}

(* Slip: the first file named is the one read. *)
OptionsWithFirstPath(a) ==
    IF opt.path = "" THEN [opt EXCEPT !.path = a] ELSE opt

(* An argument that is no flag; the empty string is one. *)
OptionsWithPath(a) == [opt EXCEPT !.path = a]

OptionsWith(a) ==
    CASE a = "--dump-tokens" -> {[opt EXCEPT !.tokens = TRUE]}
      [] a = "--dump-ast" -> {[opt EXCEPT !.ast = TRUE]}
      [] a \in Engines -> {[opt EXCEPT !.engine = a]}
      [] a \in Thresholds -> {[opt EXCEPT !.hot = n] : n \in atoi(a)}
      [] a = "--disasm" -> {[opt EXCEPT !.disasm = TRUE]}
      [] a = "--time" -> {[opt EXCEPT !.time = TRUE]}
      [] OTHER -> {OptionsWithPath(a)}

Known(a) == a # "-x"

(* One turn of the loop over argv. *)
TakeArg ==
    /\ stage = "options"
    /\ arg <= Len(args)
    /\ Known(args[arg])
    /\ opt' \in OptionsWith(args[arg])
    /\ opt'.hot >= 1
    /\ arg' = arg + 1
    /\ UNCHANGED <<args, stage, native, terminal, output, result>>

(* An unknown flag, or a threshold below 1. *)
BadArg ==
    /\ stage = "options"
    /\ arg <= Len(args)
    /\ ~Known(args[arg]) \/ \E o \in OptionsWith(args[arg]) : o.hot < 1
    /\ Fails("flag")

Usage ==
    /\ stage = "options"
    /\ arg > Len(args)
    /\ IF opt.path = "" THEN Fails("usage") ELSE Goes("read")

read_file == stage = "read" /\ (Goes("lex") \/ Fails("open"))

-----------------------------------------------------------------------------
(* The pipeline: a stage throws a CompileError, or hands on its result *)

(* A dump, from a complete result; main returns 0. *)
Dump(line) ==
    /\ Write(line)
    /\ stage' = "returning"
    /\ result' = "0"
    /\ UNCHANGED <<options, native, terminal>>

(* Slip: the tokens are dumped as they are found. *)
LexDumping ==
    /\ stage = "lex"
    /\ \/ Fails("compile")
       \/ opt.tokens /\ Dump("tokens")
       \/ /\ opt.tokens /\ printed = <<>> /\ Write("tokens")
          /\ UNCHANGED <<options, stage, native, terminal, result>>
       \/ ~opt.tokens /\ Goes("parse")

Lex ==
    /\ stage = "lex"
    /\ \/ Fails("compile")
       \/ IF opt.tokens THEN Dump("tokens") ELSE Goes("parse")

Parse == stage = "parse" /\ (Fails("compile") \/ Goes("sema"))

Sema ==
    /\ stage = "sema"
    /\ \/ Fails("compile")
       \/ IF opt.ast THEN Dump("ast")
          ELSE Goes(IF opt.disasm \/ opt.engine = "--jit" THEN "compile" ELSE "running")

-----------------------------------------------------------------------------
(* Running *)

(* compile_program ends in an emitter_bug, or JitMemory gets no memory.    *)
CompileAborts == Aborts("emitter") \/ (~opt.disasm /\ Aborts("mmap"))

(* The whole program, before any of it runs. *)
Compile ==
    /\ stage = "compile"
    /\ \/ CompileAborts
       \/ /\ opt.disasm
          /\ Dump("listing")
       \/ /\ ~opt.disasm
          /\ stage' = "running" /\ native' = TRUE
          /\ UNCHANGED <<options, terminal, output, result>>

(* Tiered: a call goes native, perhaps after a compilation, and returns. *)
GoesNative ==
    /\ stage = "running" /\ opt.engine = "--tier" /\ ~native
    /\ \/ CompileAborts
       \/ native' = TRUE /\ UNCHANGED <<options, stage, terminal, output, result>>

ReturnsToWalk ==
    /\ stage = "running" /\ opt.engine = "--tier" /\ native
    /\ native' = FALSE
    /\ UNCHANGED <<options, stage, terminal, output, result>>

Prints ==
    /\ stage = "running"
    /\ Len(printed) < MaxPrints
    /\ \E v \in Values : IF native THEN mp_print(v) ELSE Write(v)
    /\ UNCHANGED <<options, stage, native, terminal, result>>

(* Slip: no fflush before the message. *)
DivZeroUnflushed ==
    /\ stage = "running"
    /\ Fails("runtime")

(* div_zero_abort and mp_div_zero_abort: flush, message, exit(1). *)
DivZero ==
    /\ stage = "running"
    /\ screen' = Append(screen \o buffer, Err("runtime"))
    /\ buffer' = <<>>
    /\ stage' = "returning"
    /\ result' = "1"
    /\ UNCHANGED <<options, native, terminal, timed, printed>>

(* The lines of --time: one, two or three of them. *)
TimeLines ==
    IF ~opt.time THEN <<>>
    ELSE CASE opt.engine = "--interp" -> <<"run_ms">>
           [] opt.engine = "--jit" -> <<"compile_ms", "run_ms">>
           [] opt.engine = "--tier" -> <<"compile_ms", "run_ms", "compiled_funcs">>

(* The program returns.  The timings come out at once, the buffer later.   *)
Return ==
    /\ stage = "running"
    /\ opt.engine = "--tier" => ~native
    /\ timed' = TimeLines
    /\ stage' = "returning"
    /\ result' = "0"
    /\ UNCHANGED <<options, native, terminal, buffer, screen, printed>>

Next ==
    \/ TakeArg \/ BadArg \/ Usage \/ read_file
    \/ Lex \/ Parse \/ Sema \/ Compile
    \/ GoesNative \/ ReturnsToWalk \/ Prints \/ DivZero \/ Return
    \/ Exit \/ Spill

Spec == Init /\ [][Next]_vars

-----------------------------------------------------------------------------
(* Type invariant.  Line by line, nothing waits in the buffer; the status   *)
(* is there from the moment the process is about to end.                    *)
TypeOK ==
    /\ args \in Seq(Args)
    /\ arg \in 1 .. Len(args) + 1
    /\ opt \in [path : Args \cup {""}, tokens : BOOLEAN, ast : BOOLEAN, disasm : BOOLEAN,
                time : BOOLEAN, engine : Engines, hot : Nat \ {0}]
    /\ stage \in {"options", "read", "lex", "parse", "sema", "compile", "running",
                  "returning", "exited"}
    /\ native \in BOOLEAN /\ terminal \in BOOLEAN
    /\ printed \in Seq(Values \cup Dumps)
    /\ buffer \in Seq(Outs)
    /\ screen \in Seq(Outs \cup Errs)
    /\ timed \in Seq(Timings)
    /\ terminal => buffer = <<>>
    /\ result \in {"none", "0", "1", "aborted"}
    /\ result = "none" <=> stage \notin {"returning", "exited"}

(***************************************************************************)
(* The order of the arguments matters only between two of the same kind:   *)
(* the last engine, the last threshold and the last file count, and a      *)
(* flag counts wherever it stands (main.cc:59-81).                         *)
(***************************************************************************)
LastOf(S, none) ==
    LET at == {k \in DOMAIN args : args[k] \in S}
    IN  IF at = {} THEN none ELSE args[Max(at)]

Given(a) == \E k \in DOMAIN args : args[k] = a

Paths == Args \ ({"--dump-tokens", "--dump-ast", "--disasm", "--time"} \cup Engines \cup Thresholds)

OptionsAsGiven ==
    stage \notin {"options", "returning", "exited"} =>
        /\ opt.engine = LastOf(Engines, "--jit")
        /\ opt.path = LastOf(Paths, "")
        /\ IF LastOf(Thresholds, "none") = "none" THEN opt.hot = 100
           ELSE opt.hot \in atoi(LastOf(Thresholds, "none"))
        /\ opt.time <=> Given("--time")
        /\ opt.tokens <=> Given("--dump-tokens")
        /\ opt.ast <=> Given("--dump-ast")
        /\ opt.disasm <=> Given("--disasm")
        /\ \A k \in DOMAIN args : Known(args[k]) /\ args[k] \notin {"--hot=0", "--hot=x"}

(***************************************************************************)
(* Nothing has been printed when an error other than a division by zero    *)
(* ends the process: a stage is over before the next one, or a dump, says  *)
(* anything, and --jit has compiled everything before it runs any of it.   *)
(* Only --tier, which compiles as the program runs, may abort in its       *)
(* middle (main.cc:90-105, codegen.cc:523-543, tiering.cc:133-156).        *)
(***************************************************************************)
FailsBeforeOutput ==
    \A k \in DOMAIN screen :
        screen[k][1] = "stderr" /\ screen[k][2] \in Errors \ {"runtime"} =>
            \/ printed = <<>>
            \/ result = "aborted" /\ opt.engine = "--tier"

(* What has been said: what is out, and, as long as the process can still  *)
(* write it, what is in the buffer.                                        *)
Said == IF stage = "exited" THEN screen ELSE screen \o buffer

T == INSTANCE Transcript WITH
        Output <- Outs,
        Error <- Errs,
        said <- Said,
        ended <- IF stage = "exited" THEN result ELSE "no"

(***************************************************************************)
(* With both outputs on one screen a run reads the same whichever engine   *)
(* ran it, or both of tiering's by turns, and whether standard output is   *)
(* buffered by lines or by blocks: every line comes out, once and in       *)
(* order, the error after all that was printed before it, and the status   *)
(* agrees with it (runtime.cc:24-29, interp.cc:30-36).  An abort may lose  *)
(* what is still in the buffer, or let it come out behind the message, but *)
(* leaves what came out, and the order, alone (jit_memory.cc:32-35).       *)
(***************************************************************************)
ImplementsTranscript == T!Spec
=============================================================================
