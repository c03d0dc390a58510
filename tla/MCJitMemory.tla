---------------------------- MODULE MCJitMemory ----------------------------
(***************************************************************************)
(* JitMemory with two cache lines, so that two objects are live at once or *)
(* one after the other on the same line.                                   *)
(***************************************************************************)
EXTENDS JitMemory, TLC

(* Lines, objects and the words other than Zero are interchangeable. *)
Renamings ==
    Permutations(Line) \cup Permutations(Obj) \cup Permutations(Word \ {Zero})
=============================================================================
