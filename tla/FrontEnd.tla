------------------------------ MODULE FrontEnd -----------------------------
(***************************************************************************)
(* The scanner and the parser together, as main.cc runs them: the whole    *)
(* source is scanned first, then its tokens are parsed.                    *)
(***************************************************************************)
EXTENDS Lexer

VARIABLE result      \* what parse returned or threw

P == INSTANCE Parser

Unparsed == P!Result(1, <<>>)

FrontEndInit == Init /\ result = Unparsed

Scan == Next /\ UNCHANGED result

Parse ==
    /\ phase = "done"
    /\ result = Unparsed
    /\ result' = P!parse_program
    /\ UNCHANGED vars

FrontEndNext == Scan \/ Parse

(* Straight-line execution: nothing pauses the scanner. *)
FrontEndSpec ==
    FrontEndInit /\ [][FrontEndNext]_<<vars, result>> /\ WF_vars(Next)

Parsed == result # Unparsed /\ result.at > 0
=============================================================================
