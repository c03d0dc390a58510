----------------------------- MODULE Transcript -----------------------------
(***************************************************************************)
(* What a run of minipy tells whoever watches both of its outputs at once: *)
(* lines of output in the order the program made them, at most one error   *)
(* after them and nothing after that, and a status that says whether there *)
(* was an error.  When the compiler aborts, its message may overtake the   *)
(* lines that had not come out yet, and these may be lost; no others are.  *)
(***************************************************************************)
EXTENDS Integers, Sequences

CONSTANTS Output, Error     \* the lines of either kind

VARIABLES
    said,                   \* the lines so far
    ended                   \* "no", or the exit status: "0", "1", "aborted"

vars == <<said, ended>>

Failed == \E k \in DOMAIN said : said[k] \in Error

Init == said = <<>> /\ ended = "no"

Says ==
    /\ ended = "no" /\ ~Failed
    /\ \E line \in Output : said' = Append(said, line)
    /\ UNCHANGED ended

Fail ==
    /\ ended = "no" /\ ~Failed
    /\ \E line \in Error : said' = Append(said, line)
    /\ UNCHANGED ended

End ==
    /\ ended = "no"
    /\ ended' = IF Failed THEN "1" ELSE "0"
    /\ UNCHANGED said

(* The first n lines had come out. *)
Crash ==
    /\ ended = "no" /\ ~Failed
    /\ ended' = "aborted"
    /\ \E line \in Error, n \in 0 .. Len(said) :
        \E rest \in {<<>>, SubSeq(said, n + 1, Len(said))} :
            said' = Append(SubSeq(said, 1, n), line) \o rest

Next == Says \/ Fail \/ End \/ Crash

Spec == Init /\ [][Next]_vars
=============================================================================
