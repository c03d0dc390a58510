------------------------------- MODULE Lexer -------------------------------
(***************************************************************************)
(* lex of lexer.cc: the scanner with the off-side rule.  One action is one *)
(* turn of its loop over the source, the last one what follows the loop.   *)
(*                                                                         *)
(* Characters are one-letter strings.  The kind of a token is the name     *)
(* to_string gives it.                                                     *)
(***************************************************************************)
EXTENDS Integers, Sequences, FiniteSets, SequencesExt, FiniteSetsExt

CONSTANTS
    Sources,         \* the texts considered, sequences of characters
    Letter,          \* is_ident_start: letters and the underscore
    Digit,           \* the digits, as a function to their values
    Keyword,         \* kKeywords: the words that are not names, to their kinds
    Modulus          \* 2^64: literals are accumulated in a uint64_t and
                     \* then read as an int64_t

ASSUME SourcesAreTexts == \A s \in Sources : s \in Seq(STRING)
ASSUME KeywordsAreWords == \A w \in DOMAIN Keyword : w \in Seq(Letter)
ASSUME KeywordsAreNoLayout ==
    \A w \in DOMAIN Keyword :
        Keyword[w] \notin {"newline", "indent", "dedent", "eof", "ident", "integer"}
ASSUME DigitsHaveValues == \A d \in DOMAIN Digit : Digit[d] \in 0 .. 9
ASSUME NewlineIsInNoWord == "\n" \notin Letter \cup DOMAIN Digit
ASSUME ModulusPositive == Modulus \in Nat \ {0} /\ Modulus % 2 = 0

VARIABLES
    src,             \* the source
    i,               \* the position of the next character
    line,            \* the line it is on; the line of the error, if any
    indents,         \* the stack of indentation widths
    at_line_start,
    toks,            \* the tokens so far
    phase            \* "lexing", "done", or the CompileError thrown:
                     \* "tab", "dedent" or "char"

vars == <<src, i, line, indents, at_line_start, toks, phase>>

OneChar == {"=", "<", ">", "+", "-", "*", "%", "(", ")", ",", ":"}
TwoChar ==
    [pair \in {<<"=", "=">>, <<"!", "=">>, <<"<", "=">>, <<">", "=">>, <<"/", "/">>} |->
        CASE pair = <<"=", "=">> -> "==" [] pair = <<"!", "=">> -> "!="
          [] pair = <<"<", "=">> -> "<=" [] pair = <<">", "=">> -> ">="
          [] pair = <<"/", "/">> -> "//"]

ASSUME WordsAreNoOperators ==
    /\ Letter \cap DOMAIN Digit = {}
    /\ (Letter \cup DOMAIN Digit) \cap (OneChar \cup {"!", "/"}) = {}

IdentPart == Letter \cup DOMAIN Digit

AtEnd(j) == j > Len(src)
At(j, S) == ~AtEnd(j) /\ src[j] \in S

(* Where a loop that skips the characters in S, starting from j, stops. *)
After(S, j) ==
    CHOOSE k \in j .. Len(src) + 1 :
        ~At(k, S) /\ \A m \in j .. k - 1 : src[m] \in S

NextNewline(j) == After(Range(src) \ {"\n"}, j)

Int64 == -(Modulus \div 2) .. (Modulus \div 2) - 1

(* The int64_t with the bits of a uint64_t. *)
Signed(bits) == IF bits < Modulus \div 2 THEN bits ELSE bits - Modulus

Value(digits) ==
    LET val[n \in 0 .. Len(digits)] ==
            IF n = 0 THEN 0 ELSE (val[n - 1] * 10 + Digit[digits[n]]) % Modulus
    IN  Signed(val[Len(digits)])

Token(kind, text) ==
    [kind |-> kind, text |-> text, line |-> line,
     int_val |-> IF kind = "integer" THEN Value(text) ELSE 0]

Layout(kind) == Token(kind, <<>>)

Init ==
    /\ src \in Sources
    /\ i = 1
    /\ line = 1
    /\ indents = <<0>>
    /\ at_line_start = TRUE
    /\ toks = <<>>
    /\ phase = "lexing"

Fail(error) ==
    /\ phase' = error
    /\ UNCHANGED <<src, i, line, indents, at_line_start, toks>>

-----------------------------------------------------------------------------
(* The beginning of a line *)

LineStart == phase = "lexing" /\ ~AtEnd(i) /\ at_line_start

Margin == After({" "}, i)      \* past the leading spaces
Width == Margin - i

TabInIndent ==
    /\ LineStart
    /\ At(Margin, {"\t"})
    /\ Fail("tab")

Useless == AtEnd(Margin) \/ At(Margin, {"\n", "#"})

(* Slip: no test for the end of the file before stepping over the newline. *)
SkipLinePastEnd ==
    /\ LineStart
    /\ Useless
    /\ i' = NextNewline(Margin) + 1
    /\ line' = line + 1
    /\ UNCHANGED <<src, indents, at_line_start, toks, phase>>

(* Slip: i moves only when there is a newline to consume. *)
SkipLineStays ==
    /\ LineStart
    /\ Useless
    /\ ~AtEnd(NextNewline(Margin))
    /\ i' = NextNewline(Margin) + 1
    /\ line' = line + 1
    /\ UNCHANGED <<src, indents, at_line_start, toks, phase>>

(* A blank line or a comment: neither tokens nor indentation. *)
SkipLine ==
    /\ LineStart
    /\ Useless
    /\ LET end == NextNewline(Margin) IN
          IF AtEnd(end) THEN i' = end /\ UNCHANGED line
          ELSE i' = end + 1 /\ line' = line + 1
    /\ UNCHANGED <<src, indents, at_line_start, toks, phase>>

(* A line of code begins where i is after the spaces. *)
CodeStarts ==
    /\ LineStart
    /\ ~Useless
    /\ ~At(Margin, {"\t"})

Indent ==
    /\ CodeStarts
    /\ Width > Last(indents)
    /\ indents' = Append(indents, Width)
    /\ toks' = Append(toks, Layout("indent"))
    /\ i' = Margin
    /\ at_line_start' = FALSE
    /\ UNCHANGED <<src, line, phase>>

(* How much of the stack is left when the widths above w are popped. *)
Kept(w) == Max({k \in DOMAIN indents : indents[k] <= w})

Dedents(n) == [k \in 1 .. n |-> Layout("dedent")]

(* Slip: any smaller width ends the block, whatever block it falls in. *)
DedentAnywhere ==
    /\ CodeStarts
    /\ Width <= Last(indents)
    /\ indents' = SubSeq(indents, 1, Kept(Width))
    /\ toks' = toks \o Dedents(Len(indents) - Kept(Width))
    /\ i' = Margin
    /\ at_line_start' = FALSE
    /\ UNCHANGED <<src, line, phase>>

(* The blocks are popped before the width is compared with what is left. *)
Dedent ==
    /\ CodeStarts
    /\ Width <= Last(indents)
    /\ indents' = SubSeq(indents, 1, Kept(Width))
    /\ toks' = toks \o Dedents(Len(indents) - Kept(Width))
    /\ i' = Margin
    /\ IF indents[Kept(Width)] = Width
       THEN at_line_start' = FALSE /\ UNCHANGED phase
       ELSE phase' = "dedent" /\ UNCHANGED at_line_start
    /\ UNCHANGED <<src, line>>

-----------------------------------------------------------------------------
(* Inside a line *)

Inside == phase = "lexing" /\ ~AtEnd(i) /\ ~at_line_start

SkipSpace ==
    /\ Inside
    /\ At(i, {" ", "\t"})
    /\ i' = i + 1
    /\ UNCHANGED <<src, line, indents, at_line_start, toks, phase>>

(* Up to the newline, which still ends the line. *)
SkipComment ==
    /\ Inside
    /\ At(i, {"#"})
    /\ i' = NextNewline(i)
    /\ UNCHANGED <<src, line, indents, at_line_start, toks, phase>>

(* Slip: the line is counted before its newline token is stamped. *)
NewlineCountedFirst ==
    /\ Inside
    /\ At(i, {"\n"})
    /\ line' = line + 1
    /\ toks' = Append(toks, [Layout("newline") EXCEPT !.line = line'])
    /\ i' = i + 1
    /\ at_line_start' = TRUE
    /\ UNCHANGED <<src, indents, phase>>

Newline ==
    /\ Inside
    /\ At(i, {"\n"})
    /\ toks' = Append(toks, Layout("newline"))
    /\ line' = line + 1
    /\ i' = i + 1
    /\ at_line_start' = TRUE
    /\ UNCHANGED <<src, indents, phase>>

(* The characters up to end become one token. *)
Take(kind, text, end) ==
    /\ toks' = Append(toks, Token(kind, text))
    /\ i' = end
    /\ UNCHANGED <<src, line, indents, at_line_start, phase>>

Word ==
    /\ Inside
    /\ At(i, Letter)
    /\ LET end == After(IdentPart, i)
              word == SubSeq(src, i, end - 1)
          IN  Take(IF word \in DOMAIN Keyword THEN Keyword[word] ELSE "ident",
                   word, end)

Integer ==
    /\ Inside
    /\ At(i, DOMAIN Digit)
    /\ LET end == After(DOMAIN Digit, i) IN
          Take("integer", SubSeq(src, i, end - 1), end)

Ahead == SubSeq(src, i, i + 1)
TwoAhead == ~AtEnd(i + 1) /\ Ahead \in DOMAIN TwoChar

TakeTwo == TwoAhead /\ Take(TwoChar[Ahead], <<>>, i + 2)
TakeOne == At(i, OneChar) /\ Take(src[i], <<>>, i + 1)

(* Slip: the one-character forms are tried first. *)
OperatorShortest ==
    /\ Inside
    /\ TakeOne \/ (~At(i, OneChar) /\ TakeTwo)

Operator ==
    /\ Inside
    /\ TakeTwo \/ (~TwoAhead /\ TakeOne)

(* A `!` or `/` that is not doubled, or a character of no token. *)
BadChar ==
    /\ Inside
    /\ ~TwoAhead
    /\ ~At(i, IdentPart \cup OneChar \cup {" ", "\t", "#", "\n"})
    /\ Fail("char")

-----------------------------------------------------------------------------
(* The end of the source *)

(* A last line without a newline still ends, and every block with it. *)
Closing == IF at_line_start THEN <<>> ELSE <<Layout("newline")>>

(* Slip: the stack is not drained. *)
FinishOpen ==
    /\ phase = "lexing"
    /\ AtEnd(i)
    /\ toks' = toks \o Closing \o <<Layout("eof")>>
    /\ phase' = "done"
    /\ UNCHANGED <<src, i, line, indents, at_line_start>>

Finish ==
    /\ phase = "lexing"
    /\ AtEnd(i)
    /\ toks' = toks \o Closing \o Dedents(Len(indents) - Kept(0)) \o <<Layout("eof")>>
    /\ indents' = SubSeq(indents, 1, Kept(0))
    /\ phase' = "done"
    /\ UNCHANGED <<src, i, line, at_line_start>>

Next ==
    \/ TabInIndent \/ SkipLine \/ Indent \/ Dedent
    \/ SkipSpace \/ SkipComment \/ Newline
    \/ Word \/ Integer \/ Operator \/ BadChar
    \/ Finish

Spec == Init /\ [][Next]_vars

-----------------------------------------------------------------------------
(* Type invariant: in particular i never leaves the source but by one. *)
Kinds == {"ident", "integer", "newline", "indent", "dedent", "eof"}
             \cup OneChar \cup Range(TwoChar) \cup Range(Keyword)

TypeOK ==
    /\ src \in Seq(STRING)
    /\ i \in 1 .. Len(src) + 1
    /\ line \in 1 .. Len(src) + 1
    /\ indents \in Seq(Nat) /\ indents # <<>>
    /\ at_line_start \in BOOLEAN
    /\ toks \in Seq([kind : Kinds, text : Seq(STRING), line : Nat,
                     int_val : Int64])
    /\ phase \in {"lexing", "done", "tab", "dedent", "char"}

(***************************************************************************)
(* What the parser relies on (lexer.h:39-41, parser.cc:126-151).  Indents  *)
(* and dedents nest at every point and are even at the end, which is one   *)
(* eof.  The stream is made of whole lines: indentation changes only       *)
(* between lines, and every line ends in a newline token, the last one of  *)
(* a file that stops short of it included, and no line is empty.           *)
(***************************************************************************)
Count(kind, n) == Cardinality({k \in 1 .. n : toks[k].kind = kind})
DepthAt(n) == Count("indent", n) - Count("dedent", n)

Balanced ==
    /\ \A n \in DOMAIN toks : Count("dedent", n) <= Count("indent", n)
    /\ phase = "lexing" => DepthAt(Len(toks)) = Len(indents) - 1
    /\ phase = "done" =>
          /\ DepthAt(Len(toks)) = 0
          /\ \A n \in DOMAIN toks : toks[n].kind = "eof" <=> n = Len(toks)

WholeLines ==
    \A n \in DOMAIN toks :
        LET before == IF n = 1 THEN "newline" ELSE toks[n - 1].kind IN
        /\ toks[n].kind = "indent" => before = "newline"
        /\ toks[n].kind \in {"dedent", "eof"} => before \in {"newline", "dedent"}
        /\ toks[n].kind = "newline" =>
              n > 1 /\ before \notin {"newline", "indent", "dedent"}

StreamWellFormed == Balanced /\ WholeLines

(***************************************************************************)
(* The reference for layout, read off the text without a stack.  A line of *)
(* code lies in the blocks opened by the earlier lines, and the top level, *)
(* that are narrower than it and than every line of code in between.       *)
(***************************************************************************)
Starts == {1} \cup {k + 1 : k \in {m \in DOMAIN src : src[m] = "\n"}}
MarginOf(l) == After({" "}, l)
CodeLines == {l \in Starts : ~AtEnd(MarginOf(l)) /\ ~At(MarginOf(l), {"\n", "#"})}
WidthOf(l) == IF l = 0 THEN 0 ELSE MarginOf(l) - l    \* line 0: the top level

Between(k, l) == {m \in CodeLines : k < m /\ m < l}
Enclosing(l) ==
    {k \in CodeLines \cup {0} :
        k < l /\ \A m \in Between(k, l) \cup {l} : WidthOf(k) < WidthOf(m)}

Aligned(l) ==
    \/ \A k \in CodeLines : k < l /\ Between(k, l) = {} => WidthOf(k) < WidthOf(l)
    \/ \E k \in CodeLines \cup {0} :
          /\ k < l
          /\ WidthOf(k) = WidthOf(l)
          /\ \A m \in Between(k, l) : WidthOf(m) >= WidthOf(l)

NewlineOf(l) ==
    CHOOSE n \in DOMAIN toks :
        /\ toks[n].kind = "newline"
        /\ Count("newline", n) = Cardinality({m \in CodeLines : m <= l})

(***************************************************************************)
(* Every statement ends up in the block its layout puts it in, however     *)
(* blank lines, comments and the end of the file fall: the n-th newline    *)
(* token lies as deep as the n-th line of code (lexer.cc:74-113).  Only a  *)
(* line that falls between two levels is refused, and the first such line  *)
(* (lexer.cc:109).                                                         *)
(***************************************************************************)
BlocksFollowLayout ==
    /\ phase = "done" =>
          /\ Count("newline", Len(toks)) = Cardinality(CodeLines)
          /\ \A l \in CodeLines :
                Aligned(l) /\ DepthAt(NewlineOf(l)) = Cardinality(Enclosing(l))
    /\ phase = "dedent" =>
          \E l \in CodeLines :
              /\ i = MarginOf(l)
              /\ ~Aligned(l)
              /\ \A m \in CodeLines : m < l => Aligned(m)

(***************************************************************************)
(* What tokens and errors carry is true of the source.  An error bears the *)
(* line the scanner is on, through comments, blank lines and the end of    *)
(* the file.  A token bears the line of its text, counted in the source    *)
(* whatever the scanner has counted: every line of code ends in a newline  *)
(* token, so the tokens that follow n of these lie on line of code n + 1,  *)
(* and those past the last one, which close the file, on the line where    *)
(* the text ends (lexer.cc:103-107, 128, 145, 158, 246-252).  The value of *)
(* a literal is the only int64_t congruent with that of its digits, modulo *)
(* 2^64 (lexer.cc:149-158).                                                *)
(***************************************************************************)
LineNumber(p) == 1 + Cardinality({k \in 1 .. p - 1 : src[k] = "\n"})

LineIsTrue == line = LineNumber(i)

TokensOnTheirLines ==
    \A n \in DOMAIN toks :
        LET over == Count("newline", n - 1)    \* the lines of code already ended
        IN  /\ \A l \in CodeLines :
                  Cardinality({m \in CodeLines : m < l}) = over
                      => toks[n].line = LineNumber(l)
            /\ Cardinality(CodeLines) = over
                  => toks[n].line = LineNumber(Len(src) + 1)

(* What the digits stand for: each counts by its place. *)
Positional(text) ==
    LET m == Len(text)
        power[k \in 0 .. m] == IF k = 0 THEN 1 ELSE 10 * power[k - 1]
        sum[k \in 0 .. m] ==
            IF k = 0 THEN 0 ELSE sum[k - 1] + Digit[text[k]] * power[m - k]
    IN  sum[m]

LiteralsWrap ==
    \A n \in DOMAIN toks : toks[n].kind = "integer" =>
        toks[n].int_val % Modulus = Positional(toks[n].text) % Modulus

TokensAccurate == LineIsTrue /\ TokensOnTheirLines /\ LiteralsWrap

(***************************************************************************)
(* Nothing is dropped and nothing split (lexer.cc:164): what a turn of the *)
(* loop consumes is layout, or one token that no further character would   *)
(* have lengthened.                                                        *)
(***************************************************************************)
Spelling(t) ==
    IF t.text # <<>> THEN t.text
    ELSE IF t.kind \in OneChar THEN <<t.kind>>
    ELSE CHOOSE pair \in DOMAIN TwoChar : TwoChar[pair] = t.kind

IsToken(text) ==
    \/ text \in DOMAIN TwoChar
    \/ text \in Seq(OneChar) /\ Len(text) = 1
    \/ text[1] \in Letter /\ text \in Seq(IdentPart)
    \/ text \in Seq(DOMAIN Digit)

Consumed == SubSeq(src, i, i' - 1)
IsSkipped(text) ==
    /\ \A k \in 1 .. Len(text) - 1 : text[k] # "\n"    \* of one line
    /\ \/ Range(text) \subseteq {" ", "\t", "\n"}
       \/ \E k \in DOMAIN text :
             text[k] = "#" /\ Range(SubSeq(text, 1, k - 1)) \subseteq {" "}

MunchesWhole ==
    [][i' # i =>
          \/ /\ IsSkipped(Consumed)
             /\ \A n \in Len(toks) + 1 .. Len(toks') :
                   toks'[n].kind \in {"newline", "indent", "dedent"}
          \/ /\ toks' = Append(toks, Last(toks'))
             /\ Spelling(Last(toks')) = Consumed
             /\ IsToken(Consumed)
             /\ ~AtEnd(i') => ~IsToken(Append(Consumed, src[i']))]_vars

(* The scanner comes to an end on every source: each turn moves on. *)
Terminates == <>(phase # "lexing")
=============================================================================
