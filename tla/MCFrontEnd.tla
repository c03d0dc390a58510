----------------------------- MODULE MCFrontEnd ----------------------------
(***************************************************************************)
(* FrontEnd on four families of sources: short texts over the characters   *)
(* that tokens are made of, files of lines that differ in their layout,    *)
(* files of headers and statements at every indentation, and expressions   *)
(* and definitions of every short shape.                                   *)
(*                                                                         *)
(* All keywords but one are spelled with one capital letter.               *)
(***************************************************************************)
EXTENDS FrontEnd, TLC

G == INSTANCE Grammar

Keywords ==
    [w \in {<<"i", "f">>, <<"I">>, <<"E">>, <<"L">>, <<"W">>, <<"D">>, <<"R">>,
            <<"A">>, <<"O">>, <<"N">>, <<"T">>, <<"F">>} |->
        CASE w \in {<<"i", "f">>, <<"I">>} -> "if" [] w = <<"E">> -> "elif"
          [] w = <<"L">> -> "else" [] w = <<"W">> -> "while" [] w = <<"D">> -> "def"
          [] w = <<"R">> -> "return" [] w = <<"A">> -> "and" [] w = <<"O">> -> "or"
          [] w = <<"N">> -> "not" [] w = <<"T">> -> "True" [] w = <<"F">> -> "False"]
Names == <<"a", "b", "c", "d", "e", "f">>
Letters == Range(Names) \cup {"x"} \cup UNION {Range(w) : w \in DOMAIN Keywords}
Digits == [d \in {"0", "7", "9"} |-> IF d = "0" THEN 0 ELSE IF d = "7" THEN 7 ELSE 9]

Short(n, S) == UNION {[1 .. m -> S] : m \in 0 .. n}
Spaces(n) == [k \in 1 .. n |-> " "]

-----------------------------------------------------------------------------
(* Characters, and layout *)

TokenChars == {"=", "!", "/", "<", "+", "i", "f", "7", "9", "#", " ", "\n", "?"}
ShortTexts ==
    Short(3, TokenChars) \cup [1 .. 4 -> {"=", "!", "/", "i", "7", "#", " ", "\n"}]

Lines ==
    {Spaces(n) \o <<"x">> : n \in 0 .. 3}
    \cup {<<>>, Spaces(1), Spaces(2) \o <<"#", "x">>, <<"x", "\t", "#">>, <<" ", "\t", "x">>}

(* n of these lines, the last one with or without its newline. *)
Files(n, ls) ==
    {FlattenSeq([k \in 1 .. n |-> IF k = n THEN f[k] \o end ELSE Append(f[k], "\n")]) :
        f \in [1 .. n -> ls], end \in {<<>>, <<"\n">>}}

LayoutTexts ==
    UNION {Files(n, Lines) : n \in 1 .. 3}
    \cup Files(4, Lines \ {Spaces(1), <<"x", "\t", "#">>, <<" ", "\t", "x">>})

-----------------------------------------------------------------------------
(* Blocks.  Each line has a name of its own, to be recognised in the tree. *)

Contents(c) ==
    {<<c>>, <<"L", ":">>, <<"D", " ", c, "(", ")", ":">>}
    \cup {<<w, " ", c, ":">> : w \in {"I", "E", "W"}}

LineAt(k, w, content) == Spaces(w) \o content \o <<"\n">>
LinesOf(k, widths) ==
    {LineAt(k, w, content) : w \in widths, content \in Contents(Names[k])}

Texts3 ==
    {a \o b \o c :
        a \in LinesOf(1, {0}), b \in LinesOf(2, 0 .. 2), c \in LinesOf(3, 0 .. 2)}
Texts4 ==
    {a \o b \o c \o d :
        a \in LinesOf(1, {0}), b \in LinesOf(2, {1}),
        c \in LinesOf(3, 0 .. 2), d \in LinesOf(4, 0 .. 1)}

(* A chain of arms, and what may follow or break it. *)
Texts6 ==
    {LineAt(1, 0, <<"I", " ", "a", ":">>) \o LineAt(2, 1, <<"b">>) \o c
        \o LineAt(4, 1, <<"d">>) \o e \o LineAt(6, w, <<"f">>) :
        c \in LinesOf(3, {0}), e \in LinesOf(5, 0 .. 1), w \in 0 .. 2}

BlockTexts == Texts3 \cup Texts4 \cup Texts6

-----------------------------------------------------------------------------
(* Expressions, simple statements and the headers of definitions *)

Spelled(words) == FlattenSeq(words)

ExprTexts ==
    {Spelled(e) :
        e \in Short(5, {<<"x">>, <<"-">>, <<"(">>, <<")">>})
              \cup Short(5, {<<"x">>, <<"-">>, <<"*">>, <<"<">>, <<" ", "A", " ">>})
              \cup Short(4, {<<"x">>, <<" ", "N", " ">>, <<" ", "O", " ">>, <<" ", "A", " ">>, <<">", "=">>})
              \cup Short(4, {<<"7">>, <<"+">>, <<"/", "/">>, <<"%">>, <<"=", "=">>})
              \cup Short(3, {<<"F">>, <<"!", "=">>, <<"<", "=">>, <<">">>, <<"-">>})
              \cup Short(6, {<<"x">>, <<"(">>, <<")">>, <<",">>})
              \cup [1 .. 7 -> {<<"T">>, <<"-">>}] \cup [1 .. 7 -> {<<"x">>, <<"+">>}]}

SimpleTexts ==
    {Spelled(s) : s \in Short(4, {<<"x">>, <<"=">>, <<" ", "R", " ">>, <<"\n">>})}

HeaderTexts ==
    {<<"D", " ", "f">> \o Spelled(h) \o <<":", "\n", " ", "x">> :
        h \in Short(5, {<<"(">>, <<")">>, <<"x">>, <<",">>})}

ShapeTexts == ExprTexts \cup SimpleTexts \cup HeaderTexts

AllTexts == ShortTexts \cup LayoutTexts \cup BlockTexts \cup ShapeTexts

-----------------------------------------------------------------------------
(***************************************************************************)
(* parse accepts exactly the streams that the grammar in its comments      *)
(* derives, and builds the only tree the grammar allows: one token of      *)
(* lookahead is enough for every choice (parser.cc:168), no function takes *)
(* a token that is another's, and precedence and associativity, of binary  *)
(* chains, repeated prefixes and nested calls, are those of the            *)
(* productions (parser.cc:215-345).                                        *)
(***************************************************************************)
ParsesTheGrammar ==
    result # Unparsed =>
        G!Programs(toks) = IF Parsed THEN {result.node} ELSE {}

(* Which line lies in which, in the tree.  An else is one of its own.      *)
ElseLine == <<"L">>
TopLine == <<>>

RECURSIVE InBlock(_, _)

InStatement(parent, s) ==
    CASE s.kind = "ExprStmt" -> {<<parent, s.expr.name>>}
      [] s.kind = "While" -> {<<parent, s.cond.name>>} \cup InBlock(s.cond.name, s.body)
      [] s.kind = "If" ->
            UNION {{<<parent, b.cond.name>>} \cup InBlock(b.cond.name, b.body) :
                    b \in Range(s.branches)}
            \cup InBlock(ElseLine, s.else_body)

InBlock(parent, block) == UNION {InStatement(parent, s) : s \in Range(block)}

InFunction(fn) ==
    IF fn.name = P!kMainFunc THEN InBlock(TopLine, fn.body)
    ELSE {<<TopLine, fn.name>>} \cup InBlock(fn.name, fn.body)

InTree == UNION {InFunction(result.node[k]) : k \in DOMAIN result.node}

(* And in the text. *)
LineOf(l) == SubSeq(src, l, NextNewline(l) - 1)
Label(l) ==
    IF l = 0 THEN TopLine
    ELSE LET named == SelectSeq(LineOf(l), LAMBDA c : c \in Range(Names))
         IN  IF named = <<>> THEN ElseLine ELSE named

InText ==
    {<<Label(Max(Enclosing(l) \cup {0})), Label(l)>> : l \in {m \in CodeLines : Label(m) # ElseLine}}

(***************************************************************************)
(* Every statement is in the tree once, in the body of the line that       *)
(* encloses it in the text: neither the lexer's dedents nor the parser's   *)
(* blocks, elifs and elses move it (lexer.cc:105, parser.cc:126, 181).     *)
(***************************************************************************)
TreeFollowsLayout == Parsed /\ src \in BlockTexts => InTree = InText
=============================================================================
