------------------------------ MODULE MCDriver ------------------------------
(***************************************************************************)
(* The driver with every command line of up to three arguments.            *)
(***************************************************************************)
EXTENDS Driver

EveryArg ==
    {"--dump-tokens", "--dump-ast", "--interp", "--jit", "--tier", "--disasm", "--time",
     "--hot=7", "--hot=0", "--hot=x", "--hot=99999999999", "-x", "f.mp", "g.mp", ""}
=============================================================================
