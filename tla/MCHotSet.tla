------------------------------ MODULE MCHotSet ------------------------------
(***************************************************************************)
(* HotSet over every program of a few functions, numbered in source order, *)
(* whose bodies make at most MaxCalls calls each, repeated calls included. *)
(***************************************************************************)
EXTENDS HotSet

CONSTANT MaxCalls    \* bound on the calls in one body

ShortBodies ==
    [Func -> UNION {[1 .. n -> Func] : n \in 0 .. MaxCalls}]
=============================================================================
