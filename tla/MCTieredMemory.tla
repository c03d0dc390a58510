--------------------------- MODULE MCTieredMemory ---------------------------
(***************************************************************************)
(* Tiered execution on two lines of memory.  Two functions go hot, in      *)
(* either order: one that the other calls, or two with a callee in common, *)
(* so that the second region rebinds some of what the first one holds.     *)
(***************************************************************************)
EXTENDS TieredMemory

CONSTANTS f, g, h

Programs ==
    {[x \in Func |-> CASE x = Main -> {f, g} [] x = f -> {h} [] x = g -> {h} [] OTHER -> {}],
     [x \in Func |-> CASE x = Main -> {f, g} [] x = g -> {f} [] x = f -> {f} [] OTHER -> {}]}
=============================================================================
