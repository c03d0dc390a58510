---------------------------- MODULE DriverProofs ----------------------------
(***************************************************************************)
(* For any command line and any program: the options are the ones given,   *)
(* what is printed comes out in order and before the error that ended it,  *)
(* errors of the compiler come alone but under --tier, and the status      *)
(* tells whether there was one.                                            *)
(***************************************************************************)
EXTENDS Driver, SequenceTheorems, TLAPS

-----------------------------------------------------------------------------
(* The inductive invariant *)

BeforeTheProgram == {"options", "read", "lex", "parse", "sema", "compile"}

(* Nobody says anything before the program runs or a dump is made. *)
SilentFirst ==
    stage \in BeforeTheProgram => printed = <<>> /\ buffer = <<>> /\ screen = <<>>

(* An error is what ends a run, and its status tells. *)
ErrorIsLast ==
    /\ stage = "running" \/ result = "0" => \A k \in DOMAIN screen : screen[k] \in Outs
    /\ result = "1" => \E k \in DOMAIN screen : screen[k] \in Errs
    /\ stage = "returning" => result \in {"0", "1"}

IInv ==
    /\ TypeOK
    /\ SilentFirst
    /\ ErrorIsLast
    /\ FailsBeforeOutput

-----------------------------------------------------------------------------
(* Lines *)

LEMMA OutsAreNotErrs == \A l \in Outs : l \notin Errs /\ l[1] = "stdout"
BY DEF Outs, Errs, Out, Err

LEMMA ErrsAreErrors == \A l \in Errs : l[1] = "stderr" /\ l[2] \in Errors
BY DEF Errs, Err

(* The lines of a sequence behind another are the lines of both. *)
LEMMA ConcatLines ==
    ASSUME NEW S, NEW s \in Seq(S), NEW t \in Seq(S)
    PROVE  /\ s \o t \in Seq(S)
           /\ \A k \in DOMAIN s : k \in DOMAIN (s \o t) /\ (s \o t)[k] = s[k]
           /\ \A k \in DOMAIN (s \o t) :
                 \/ k \in DOMAIN s /\ (s \o t)[k] = s[k]
                 \/ \E m \in DOMAIN t : (s \o t)[k] = t[m]
<1>1. /\ s \o t \in Seq(S)
      /\ Len(s \o t) = Len(s) + Len(t)
      /\ \A k \in 1 .. Len(s) + Len(t) :
            (s \o t)[k] = IF k <= Len(s) THEN s[k] ELSE t[k - Len(s)]
  BY ConcatProperties
<1>2. /\ DOMAIN s = 1 .. Len(s) /\ Len(s) \in Nat
      /\ DOMAIN t = 1 .. Len(t) /\ Len(t) \in Nat
      /\ DOMAIN (s \o t) = 1 .. Len(s) + Len(t)
  BY <1>1
<1>3. \A k \in DOMAIN s : k \in DOMAIN (s \o t) /\ (s \o t)[k] = s[k]
  BY <1>1, <1>2
<1>4. ASSUME NEW k \in DOMAIN (s \o t)
      PROVE  \/ k \in DOMAIN s /\ (s \o t)[k] = s[k]
             \/ \E m \in DOMAIN t : (s \o t)[k] = t[m]
  <2>1. CASE k <= Len(s)
    BY <1>1, <1>2, <2>1
  <2>2. CASE ~(k <= Len(s))
    <3>1. k - Len(s) \in DOMAIN t
      BY <1>2, <2>2
    <3>2. (s \o t)[k] = t[k - Len(s)]
      BY <1>1, <1>2, <2>2
    <3> QED  BY <3>1, <3>2
  <2> QED  BY <2>1, <2>2
<1> QED  BY <1>1, <1>3, <1>4

LEMMA AppendLines ==
    ASSUME NEW S, NEW s \in Seq(S), NEW l \in S
    PROVE  /\ Append(s, l) \in Seq(S)
           /\ \A k \in DOMAIN s : k \in DOMAIN Append(s, l) /\ Append(s, l)[k] = s[k]
           /\ \E k \in DOMAIN Append(s, l) : Append(s, l)[k] = l
           /\ \A k \in DOMAIN Append(s, l) :
                 \/ k \in DOMAIN s /\ Append(s, l)[k] = s[k]
                 \/ Append(s, l)[k] = l
<1>1. /\ Append(s, l) \in Seq(S)
      /\ Len(Append(s, l)) = Len(s) + 1
      /\ \A k \in 1 .. Len(s) : Append(s, l)[k] = s[k]
      /\ Append(s, l)[Len(s) + 1] = l
  BY AppendProperties
<1>2. /\ DOMAIN s = 1 .. Len(s) /\ Len(s) \in Nat
      /\ DOMAIN Append(s, l) = 1 .. Len(s) + 1
  BY <1>1
<1> QED  BY <1>1, <1>2

(* A sequence behind another is cut off where the first one ends. *)
LEMMA CutWhereJoined ==
    ASSUME NEW S, NEW s \in Seq(S), NEW t \in Seq(S)
    PROVE  /\ Len(s) \in 0 .. Len(s \o t)
           /\ SubSeq(s \o t, 1, Len(s)) = s
           /\ SubSeq(s \o t, Len(s) + 1, Len(s \o t)) = t
<1>1. /\ s \o t \in Seq(S)
      /\ Len(s \o t) = Len(s) + Len(t)
      /\ \A k \in 1 .. Len(s) + Len(t) :
            (s \o t)[k] = IF k <= Len(s) THEN s[k] ELSE t[k - Len(s)]
  BY ConcatProperties
<1>2. Len(s) \in Nat /\ Len(t) \in Nat
  OBVIOUS
<1> DEFINE n == Len(s)
           m == Len(t)
           joined == s \o t
           front == SubSeq(joined, 1, n)
           back == SubSeq(joined, n + 1, n + m)
<1>3. front = s
  <2>1. /\ front \in Seq(S)
        /\ Len(front) = n
        /\ \A k \in 1 .. n : front[k] = joined[k]
    BY <1>1, <1>2, SubSeqProperties
  <2>2. \A k \in 1 .. n : front[k] = s[k]
    BY <1>1, <1>2, <2>1
  <2> QED  BY <2>1, <2>2, SeqEqual
<1>4. back = t
  <2>1. /\ back \in Seq(S)
        /\ Len(back) = m
        /\ \A k \in 1 .. m : back[k] = joined[n + k]
    BY <1>1, <1>2, SubSeqProperties
  <2>2. \A k \in 1 .. m : back[k] = t[k]
    BY <1>1, <1>2, <2>1
  <2> QED  BY <2>1, <2>2, SeqEqual
<1> QED  BY <1>1, <1>2, <1>3, <1>4

(* An element behind the second of two sequences is behind both. *)
LEMMA AppendToConcat ==
    ASSUME NEW S, NEW s \in Seq(S), NEW t \in Seq(S), NEW l \in S
    PROVE  s \o Append(t, l) = Append(s \o t, l)
<1>1. s \o t \in Seq(S)
  BY ConcatProperties
<1>2. Append(t, l) = t \o <<l>> /\ Append(s \o t, l) = (s \o t) \o <<l>>
  BY <1>1, AppendIsConcat
<1>3. s \o (t \o <<l>>) = (s \o t) \o <<l>>
  BY ConcatAssociative, <<l>> \in Seq(S)
<1> QED  BY <1>2, <1>3

-----------------------------------------------------------------------------
(* What the ways of writing do *)

AllOuts(s) == \A k \in DOMAIN s : s[k] \in Outs

LEMMA LineTypes ==
    ASSUME TypeOK
    PROVE  /\ buffer \in Seq(Outs) /\ screen \in Seq(Outs \cup Errs)
           /\ buffer \in Seq(Outs \cup Errs) /\ AllOuts(buffer)
           /\ screen \o buffer \in Seq(Outs \cup Errs)
<1>1. buffer \in Seq(Outs) /\ screen \in Seq(Outs \cup Errs)
  BY DEF TypeOK
<1>2. AllOuts(buffer)
  BY <1>1, ElementOfSeq DEF AllOuts
<1>3. buffer \in Seq(Outs \cup Errs)
  BY <1>1
<1>4. screen \o buffer \in Seq(Outs \cup Errs)
  BY <1>1, <1>3, ConcatProperties
<1> QED  BY <1>1, <1>2, <1>3, <1>4

(* Before an error is the end, only output has come out. *)
LEMMA OutsUntilTheEnd ==
    ASSUME IInv, stage \in BeforeTheProgram \cup {"running"}
    PROVE  AllOuts(screen) /\ AllOuts(screen \o buffer)
<1>1. AllOuts(screen)
  BY DEF IInv, SilentFirst, ErrorIsLast, AllOuts, BeforeTheProgram
<1>2. AllOuts(screen \o buffer)
  BY <1>1, LineTypes, ConcatLines DEF AllOuts, IInv
<1> QED  BY <1>1, <1>2

LEMMA WriteSays ==
    ASSUME IInv, NEW line \in Values \cup Dumps, Write(line), terminal' = terminal,
           stage \in BeforeTheProgram \cup {"running"}
    PROVE  /\ printed' \in Seq(Values \cup Dumps)
           /\ buffer' \in Seq(Outs) /\ screen' \in Seq(Outs \cup Errs)
           /\ terminal' => buffer' = <<>>
           /\ AllOuts(screen')
           /\ screen' \o buffer' = Append(screen \o buffer, Out(line))
<1> DEFINE both == screen \o buffer
<1>1. Out(line) \in Outs /\ Out(line) \in Outs \cup Errs
  BY DEF Outs
<1>2. /\ buffer \in Seq(Outs) /\ screen \in Seq(Outs \cup Errs)
      /\ buffer \in Seq(Outs \cup Errs)
      /\ both \in Seq(Outs \cup Errs) /\ AllOuts(both) /\ AllOuts(screen)
  BY LineTypes, OutsUntilTheEnd DEF IInv
<1>3. printed' \in Seq(Values \cup Dumps)
  <2>1. printed \in Seq(Values \cup Dumps) /\ printed' = Append(printed, line)
    BY DEF IInv, TypeOK, Write
  <2> QED  BY <2>1, AppendProperties
<1>4. CASE terminal
  <2>1. screen' = Append(both, Out(line)) /\ buffer' = <<>>
    BY <1>4 DEF Write
  <2> HIDE DEF both
  <2>2. screen' \in Seq(Outs \cup Errs) /\ AllOuts(screen')
    BY <2>1, <1>1, <1>2, AppendLines DEF AllOuts
  <2>3. screen' \o buffer' = screen'
    BY <2>1, <2>2, ConcatEmptySeq
  <2>4. buffer' \in Seq(Outs)
    BY <2>1, EmptySeq
  <2> QED  BY <1>3, <2>1, <2>2, <2>3, <2>4 DEF both
<1>5. CASE ~terminal
  <2>1. screen' = screen /\ buffer' = Append(buffer, Out(line))
    BY <1>5 DEF Write
  <2>2. buffer' \in Seq(Outs)
    BY <2>1, <1>1, <1>2, AppendProperties
  <2>3. screen' \o buffer' = Append(both, Out(line))
    BY <2>1, <1>1, <1>2, AppendToConcat
  <2> QED  BY <1>2, <1>3, <1>5, <2>1, <2>2, <2>3
<1> QED  BY <1>4, <1>5

(* A message behind what is on the screen, with nothing in the buffer or   *)
(* after a flush. *)
LEMMA MessageEnds ==
    ASSUME IInv, NEW line \in Errors, NEW more, more \in {<<>>, buffer}
    PROVE  LET new == Append(screen \o more, Err(line))
           IN  /\ new \in Seq(Outs \cup Errs)
               /\ \E k \in DOMAIN new : new[k] \in Errs
               /\ AllOuts(screen) => \A k \in DOMAIN new : new[k] \in Outs \cup {Err(line)}
<1> DEFINE before == screen \o more
           new == Append(before, Err(line))
<1>1. Err(line) \in Errs /\ Err(line) \in Outs \cup Errs
  BY DEF Errs
<1>2. more \in Seq(Outs \cup Errs) /\ AllOuts(more) /\ screen \in Seq(Outs \cup Errs)
  <2>1. <<>> \in Seq(Outs \cup Errs) /\ AllOuts(<<>>)
    BY EmptySeq DEF AllOuts
  <2> QED  BY <2>1, LineTypes DEF IInv
<1>3. before \in Seq(Outs \cup Errs)
  BY <1>2, ConcatProperties
<1> HIDE DEF before
<1>4. new \in Seq(Outs \cup Errs) /\ \E k \in DOMAIN new : new[k] = Err(line)
  BY <1>1, <1>3, AppendLines
<1>5. ASSUME AllOuts(screen), NEW k \in DOMAIN new
      PROVE  new[k] \in Outs \cup {Err(line)}
  <2>1. AllOuts(before)
    BY <1>2, <1>5, ConcatLines DEF AllOuts, before
  <2>2. (k \in DOMAIN before /\ new[k] = before[k]) \/ new[k] = Err(line)
    BY <1>1, <1>3, AppendLines
  <2> QED  BY <2>1, <2>2 DEF AllOuts
<1> QED  BY <1>1, <1>4, <1>5 DEF before

-----------------------------------------------------------------------------
(* Each way on, as a step of this module's invariant and of Transcript's *)

Step == [T!Next]_(T!vars)

(* Going on without a word. *)
LEMMA GoesOn ==
    ASSUME IInv, UNCHANGED <<args, terminal, output, result>>, native' \in BOOLEAN,
           stage \in BeforeTheProgram \cup {"running"},
           stage' \in BeforeTheProgram \cup {"running"},
           stage' = "running" \/ stage # "running",
           arg' \in 1 .. Len(args) + 1,
           opt' \in [path : Args \cup {""}, tokens : BOOLEAN, ast : BOOLEAN,
                     disasm : BOOLEAN, time : BOOLEAN, engine : Engines, hot : Nat \ {0}]
    PROVE  IInv' /\ Step
<1>1. UNCHANGED <<args, terminal, buffer, screen, timed, printed, result>>
  BY DEF output
<1>2. TypeOK'
  <2>1. args' \in Seq(Args) /\ arg' \in 1 .. Len(args') + 1
    BY <1>1 DEF IInv, TypeOK
  <2>2. /\ stage' \notin {"returning", "exited"} /\ result' = "none"
        /\ stage' \in {"options", "read", "lex", "parse", "sema", "compile", "running"}
    BY <1>1 DEF IInv, TypeOK, BeforeTheProgram
  <2>3. /\ printed' \in Seq(Values \cup Dumps)
        /\ buffer' \in Seq(Outs) /\ screen' \in Seq(Outs \cup Errs)
        /\ timed' \in Seq(Timings)
    BY <1>1 DEF IInv, TypeOK
  <2>4. terminal' \in BOOLEAN /\ (terminal' => buffer' = <<>>)
    <3>1. terminal \in BOOLEAN /\ (terminal => buffer = <<>>)
      BY DEF IInv, TypeOK
    <3>2. terminal' = terminal /\ buffer' = buffer
      BY <1>1
    <3>3. terminal' \in BOOLEAN
      BY <3>1, <3>2, Zenon
    <3>4. CASE terminal
      <4>1. buffer' = <<>>
        BY <3>1, <3>2, <3>4
      <4> QED  BY <4>1, <3>3
    <3>5. CASE ~terminal
      <4>1. terminal = FALSE
        BY <3>1, <3>5
      <4>2. terminal' = FALSE
        BY <3>2, <4>1
      <4> QED  BY <4>2
    <3> QED  BY <3>3, <3>4, <3>5
  <2> QED  BY <2>1, <2>2, <2>3, <2>4, Zenon DEF TypeOK
<1>3. SilentFirst'
  BY <1>1 DEF IInv, SilentFirst, BeforeTheProgram
<1>4. AllOuts(screen)
  BY OutsUntilTheEnd
<1>5. result = "none"
  BY DEF IInv, TypeOK, BeforeTheProgram
<1>6. ErrorIsLast'
  BY <1>1, <1>4, <1>5 DEF ErrorIsLast, AllOuts, BeforeTheProgram
<1>7. FailsBeforeOutput'
  BY <1>1, <1>4, OutsAreNotErrs DEF FailsBeforeOutput, AllOuts
<1>8. UNCHANGED T!vars
  BY <1>1 DEF T!vars, Said, BeforeTheProgram
<1> QED  BY <1>2, <1>3, <1>6, <1>7, <1>8 DEF IInv, Step

(* A line of output, whether the program goes on or this was a dump. *)
LEMMA SaysALine ==
    ASSUME IInv, NEW line \in Values \cup Dumps, Write(line),
           UNCHANGED <<options, native, terminal>>,
           \/ stage = "running" /\ UNCHANGED <<stage, result>>
           \/ /\ stage \in BeforeTheProgram
              /\ stage' = "returning" /\ result' = "0"
    PROVE  IInv' /\ Step
<1>1. UNCHANGED <<args, arg, opt, native, terminal, timed>>
  BY DEF options, Write
<1>2. /\ printed' \in Seq(Values \cup Dumps)
      /\ buffer' \in Seq(Outs) /\ screen' \in Seq(Outs \cup Errs)
      /\ terminal' => buffer' = <<>>
      /\ AllOuts(screen')
      /\ screen' \o buffer' = Append(screen \o buffer, Out(line))
  BY WriteSays
<1>3. TypeOK'
  BY <1>1, <1>2 DEF IInv, TypeOK, BeforeTheProgram
<1>4. SilentFirst'
  BY DEF SilentFirst, BeforeTheProgram
<1>5. ErrorIsLast'
  <2>1. result' \in {"none", "0"}
    BY DEF IInv, TypeOK
  <2> QED  BY <1>2, <2>1 DEF ErrorIsLast, AllOuts
<1>6. FailsBeforeOutput'
  BY <1>2, OutsAreNotErrs DEF FailsBeforeOutput, AllOuts
<1>7. T!Says
  <2>1. AllOuts(Said) /\ Said = screen \o buffer
    BY OutsUntilTheEnd DEF Said, BeforeTheProgram
  <2>2. ~T!Failed
    BY <2>1, OutsAreNotErrs DEF T!Failed, AllOuts, Errs
  <2>3. Said' = Append(Said, Out(line))
    BY <2>1, <1>2 DEF Said, BeforeTheProgram
  <2> QED  BY <2>2, <2>3 DEF T!Says, BeforeTheProgram, Outs
<1> QED  BY <1>3, <1>4, <1>5, <1>6, <1>7 DEF IInv, Step, T!Next

(* A stage fails: nothing has been said. *)
LEMMA StageFails ==
    ASSUME IInv, NEW line \in Errors \ {"runtime"}, Fails(line), stage \in BeforeTheProgram
    PROVE  IInv' /\ Step
<1>1. /\ UNCHANGED <<args, arg, opt, native, terminal, buffer, timed, printed>>
      /\ stage' = "returning" /\ result' = "1"
      /\ screen' = Append(screen, Err(line))
  BY DEF options, Fails
<1>2. printed = <<>> /\ buffer = <<>> /\ screen = <<>>
  BY DEF IInv, SilentFirst
<1>3. screen \o <<>> = screen
  BY <1>2, LineTypes, ConcatEmptySeq DEF IInv
<1>4. screen' \in Seq(Outs \cup Errs) /\ \E k \in DOMAIN screen' : screen'[k] \in Errs
  BY <1>1, <1>3, MessageEnds
<1>5. TypeOK'
  BY <1>1, <1>4 DEF IInv, TypeOK
<1>6. SilentFirst' /\ ErrorIsLast' /\ FailsBeforeOutput'
  BY <1>1, <1>2, <1>4 DEF SilentFirst, ErrorIsLast, FailsBeforeOutput, BeforeTheProgram
<1>7. T!Fail
  <2>1. AllOuts(Said) /\ Said = screen
    BY <1>2, <1>3, OutsUntilTheEnd DEF Said, BeforeTheProgram
  <2>2. ~T!Failed
    BY <2>1, OutsAreNotErrs DEF T!Failed, AllOuts, Errs
  <2>3. screen' \o <<>> = screen'
    BY <1>4, ConcatEmptySeq
  <2>4. Said' = Append(Said, Err(line))
    BY <1>1, <1>2, <2>1, <2>3 DEF Said
  <2> QED  BY <1>1, <2>2, <2>4 DEF T!Fail, BeforeTheProgram, Errs
<1> QED  BY <1>5, <1>6, <1>7 DEF IInv, Step, T!Next

(* The compiler aborts: only under --tier in the middle of the program. *)
LEMMA CompilerAborts ==
    ASSUME IInv, NEW line \in Errors, Aborts(line),
           stage = "compile" \/ (stage = "running" /\ opt.engine = "--tier")
    PROVE  IInv' /\ Step
<1>1. /\ UNCHANGED <<args, arg, opt, native, terminal, timed, printed>>
      /\ buffer' = <<>> /\ stage' = "exited" /\ result' = "aborted"
      /\ \E kept \in {<<>>, buffer} : screen' = Append(screen, Err(line)) \o kept
  BY DEF options, Aborts
<1>2. screen' \in Seq(Outs \cup Errs)
  <2>1. Err(line) \in Outs \cup Errs
    BY DEF Errs
  <2>2. Append(screen, Err(line)) \in Seq(Outs \cup Errs)
    BY <2>1, LineTypes, AppendProperties DEF IInv
  <2>3. \A kept \in {<<>>, buffer} : kept \in Seq(Outs \cup Errs)
    BY LineTypes, EmptySeq DEF IInv
  <2> QED  BY <1>1, <2>2, <2>3, ConcatProperties
<1>3. TypeOK'
  BY <1>1, <1>2, EmptySeq DEF IInv, TypeOK
<1>4. SilentFirst' /\ ErrorIsLast'
  BY <1>1 DEF SilentFirst, ErrorIsLast, BeforeTheProgram
<1>5. FailsBeforeOutput'
  BY <1>1 DEF IInv, SilentFirst, FailsBeforeOutput, BeforeTheProgram
<1>6. T!Crash
  <2>1. AllOuts(Said) /\ Said = screen \o buffer
    BY OutsUntilTheEnd DEF Said, BeforeTheProgram
  <2>2. ~T!Failed
    BY <2>1, OutsAreNotErrs DEF T!Failed, AllOuts, Errs
  <2>3. /\ Len(screen) \in 0 .. Len(Said)
        /\ SubSeq(Said, 1, Len(screen)) = screen
        /\ SubSeq(Said, Len(screen) + 1, Len(Said)) = buffer
    BY <2>1, LineTypes, CutWhereJoined DEF IInv
  <2>4. Said' = screen' /\ Err(line) \in Errs
    BY <1>1 DEF Said, Errs
  <2> QED  BY <1>1, <2>2, <2>3, <2>4 DEF T!Crash
<1> QED  BY <1>3, <1>4, <1>5, <1>6 DEF IInv, Step, T!Next

(* A division by zero: what was printed comes out, then the message. *)
LEMMA DivZeroEnds ==
    ASSUME IInv, DivZero
    PROVE  IInv' /\ Step
<1> DEFINE new == Append(screen \o buffer, Err("runtime"))
<1>1. /\ UNCHANGED <<args, arg, opt, native, terminal, timed, printed>>
      /\ stage = "running" /\ stage' = "returning" /\ result' = "1"
      /\ screen' = new /\ buffer' = <<>>
  BY DEF options, DivZero
<1>2. AllOuts(screen) /\ AllOuts(screen \o buffer)
  BY <1>1, OutsUntilTheEnd
<1>3. "runtime" \in Errors
  BY DEF Errors
<1>4. /\ new \in Seq(Outs \cup Errs)
      /\ \E k \in DOMAIN new : new[k] \in Errs
      /\ \A k \in DOMAIN new : new[k] \in Outs \cup {Err("runtime")}
  BY <1>2, <1>3, MessageEnds
<1> HIDE DEF new
<1>5. TypeOK'
  BY <1>1, <1>4, EmptySeq DEF IInv, TypeOK
<1>6. SilentFirst' /\ ErrorIsLast'
  BY <1>1, <1>4 DEF SilentFirst, ErrorIsLast, BeforeTheProgram
<1>7. FailsBeforeOutput'
  <2>1. Err("runtime")[2] = "runtime"
    BY DEF Err
  <2> QED  BY <1>1, <1>4, <2>1, OutsAreNotErrs DEF FailsBeforeOutput
<1>8. T!Fail
  <2>1. AllOuts(Said) /\ Said = screen \o buffer
    BY <1>1, <1>2 DEF Said
  <2>2. ~T!Failed
    BY <2>1, OutsAreNotErrs DEF T!Failed, AllOuts, Errs
  <2>3. screen' \o <<>> = screen'
    BY <1>1, <1>4, ConcatEmptySeq
  <2>4. Said' = Append(Said, Err("runtime"))
    BY <1>1, <2>1, <2>3 DEF Said, new
  <2> QED  BY <1>1, <1>3, <2>2, <2>4 DEF T!Fail, Errs
<1> QED  BY <1>5, <1>6, <1>7, <1>8 DEF IInv, Step, T!Next

LEMMA ReturnEnds ==
    ASSUME IInv, Return
    PROVE  IInv' /\ Step
<1>1. /\ UNCHANGED <<args, arg, opt, native, terminal, buffer, screen, printed>>
      /\ stage = "running" /\ stage' = "returning" /\ result' = "0"
      /\ timed' = TimeLines
  BY DEF options, Return
<1>2. AllOuts(screen)
  BY <1>1, OutsUntilTheEnd
<1>3. TimeLines \in Seq(Timings)
  <2>1. opt.engine \in Engines
    BY DEF IInv, TypeOK
  <2>2. /\ <<>> \in Seq(Timings) /\ <<"run_ms">> \in Seq(Timings)
        /\ <<"compile_ms", "run_ms">> \in Seq(Timings)
        /\ <<"compile_ms", "run_ms", "compiled_funcs">> \in Seq(Timings)
    BY DEF Timings
  <2> QED  BY <2>1, <2>2 DEF TimeLines, Engines
<1>4. TypeOK'
  BY <1>1, <1>3 DEF IInv, TypeOK
<1>5. SilentFirst' /\ ErrorIsLast' /\ FailsBeforeOutput'
  BY <1>1, <1>2, OutsAreNotErrs
  DEF SilentFirst, ErrorIsLast, FailsBeforeOutput, AllOuts, BeforeTheProgram
<1>6. UNCHANGED T!vars
  BY <1>1 DEF T!vars, Said
<1> QED  BY <1>4, <1>5, <1>6 DEF IInv, Step

(* The buffer goes out: in the middle, or at the end. *)
LEMMA FlushKeeps ==
    ASSUME IInv, UNCHANGED <<args, arg, opt, native, terminal, timed, printed, result>>,
           screen' = screen \o buffer, buffer' = <<>>,
           \/ stage # "exited" /\ stage' = stage /\ ~terminal
           \/ stage = "returning" /\ stage' = "exited"
    PROVE  IInv' /\ screen' \in Seq(Outs \cup Errs)
<1>1. /\ screen' \in Seq(Outs \cup Errs)
      /\ \A k \in DOMAIN screen : k \in DOMAIN screen' /\ screen'[k] = screen[k]
      /\ \A k \in DOMAIN screen' :
            \/ k \in DOMAIN screen /\ screen'[k] = screen[k]
            \/ screen'[k] \in Outs
  BY LineTypes, ConcatLines DEF IInv, AllOuts
<1>2. TypeOK'
  <2>1. buffer' \in Seq(Outs)
    BY EmptySeq
  <2>2. /\ stage' \in {"options", "read", "lex", "parse", "sema", "compile", "running",
                       "returning", "exited"}
        /\ result' = "none" <=> stage' \notin {"returning", "exited"}
    BY DEF IInv, TypeOK
  <2> QED  BY <1>1, <2>1, <2>2 DEF IInv, TypeOK
<1>3. SilentFirst'
  <2>1. CASE stage \in BeforeTheProgram
    <3>1. screen = <<>> /\ buffer = <<>> /\ printed = <<>>
      BY <2>1 DEF IInv, SilentFirst
    <3>2. screen' = <<>>
      BY <3>1, EmptySeq, ConcatEmptySeq
    <3> QED  BY <3>1, <3>2 DEF SilentFirst
  <2> QED  BY <2>1 DEF SilentFirst, BeforeTheProgram
<1>4. ErrorIsLast'
  BY <1>1 DEF IInv, ErrorIsLast
<1>5. FailsBeforeOutput'
  BY <1>1, OutsAreNotErrs DEF IInv, FailsBeforeOutput
<1> QED  BY <1>1, <1>2, <1>3, <1>4, <1>5 DEF IInv

LEMMA SpillFlushes ==
    ASSUME IInv, Spill
    PROVE  IInv' /\ Step
<1>1. /\ UNCHANGED <<args, arg, opt, stage, native, terminal, timed, printed, result>>
      /\ stage # "exited" /\ ~terminal
      /\ screen' = screen \o buffer /\ buffer' = <<>>
  BY DEF options, Spill
<1>2. IInv' /\ screen' \in Seq(Outs \cup Errs)
  BY <1>1, FlushKeeps
<1>3. screen' \o <<>> = screen'
  BY <1>2, ConcatEmptySeq
<1>4. UNCHANGED T!vars
  BY <1>1, <1>3 DEF T!vars, Said
<1> QED  BY <1>2, <1>4 DEF Step

LEMMA ExitFlushes ==
    ASSUME IInv, Exit
    PROVE  IInv' /\ Step
<1>1. /\ UNCHANGED <<args, arg, opt, native, terminal, timed, printed, result>>
      /\ stage = "returning" /\ stage' = "exited"
      /\ screen' = screen \o buffer /\ buffer' = <<>>
  BY DEF options, Exit
<1>2. IInv' /\ screen' \in Seq(Outs \cup Errs)
  BY <1>1, FlushKeeps
<1>3. Said = screen \o buffer /\ Said' = Said
  BY <1>1 DEF Said
<1>4. result = IF T!Failed THEN "1" ELSE "0"
  <2>1. result \in {"0", "1"}
    BY <1>1 DEF IInv, ErrorIsLast
  <2>2. CASE result = "1"
    <3>1. \E k \in DOMAIN screen' : screen'[k] \in Errs
      BY <1>1, <1>2, <2>2 DEF IInv, ErrorIsLast
    <3>2. T!Failed
      BY <3>1, <1>1, <1>3 DEF T!Failed, Errs
    <3> QED  BY <2>2, <3>2
  <2>3. CASE result = "0"
    <3>1. \A k \in DOMAIN screen' : screen'[k] \in Outs
      BY <1>1, <1>2, <2>3 DEF IInv, ErrorIsLast
    <3>2. ~T!Failed
      BY <3>1, <1>1, <1>3, OutsAreNotErrs DEF T!Failed, Errs
    <3> QED  BY <2>3, <3>2
  <2> QED  BY <2>1, <2>2, <2>3
<1>5. T!End
  BY <1>1, <1>3, <1>4 DEF T!End
<1> QED  BY <1>2, <1>5 DEF Step, T!Next

-----------------------------------------------------------------------------
(* The actions *)

OptTypes ==
    [path : Args \cup {""}, tokens : BOOLEAN, ast : BOOLEAN, disasm : BOOLEAN,
     time : BOOLEAN, engine : Engines, hot : Nat \ {0}]

LEMMA ArgIsTaken ==
    ASSUME IInv, TakeArg
    PROVE  IInv' /\ Step
<1> DEFINE a == args[arg]
<1>1. opt \in OptTypes
  BY DEF IInv, TypeOK, OptTypes
<1>2. /\ a \in Args
      /\ arg' \in 1 .. Len(args) + 1
  <2>1. args \in Seq(Args) /\ arg \in 1 .. Len(args) + 1 /\ arg <= Len(args) /\ arg' = arg + 1
    BY DEF IInv, TypeOK, TakeArg
  <2>2. Len(args) \in Nat
    BY <2>1, LenProperties
  <2>3. arg \in 1 .. Len(args)
    BY <2>1, <2>2
  <2> QED  BY <2>1, <2>2, <2>3, ElementOfSeq
<1> HIDE DEF a
<1>3. opt' \in OptionsWith(a) /\ opt'.hot >= 1
  BY DEF TakeArg, a
<1>4. opt' \in OptTypes
  <2>1. CASE a = "--dump-tokens"
    BY <1>1, <1>3, <2>1 DEF OptionsWith, OptTypes, Engines, Thresholds
  <2>2. CASE a = "--dump-ast"
    BY <1>1, <1>3, <2>2 DEF OptionsWith, OptTypes, Engines, Thresholds
  <2>3. CASE a \in Engines
    BY <1>1, <1>3, <2>3 DEF OptionsWith, OptTypes, Engines, Thresholds
  <2>4. CASE a \in Thresholds
    <3>1. PICK n \in atoi(a) : opt' = [opt EXCEPT !.hot = n]
      BY <1>3, <2>4 DEF OptionsWith, Thresholds, Engines
    <3>2. n \in Int
      BY <2>4 DEF atoi, Thresholds
    <3>3. opt'.hot = n
      BY <1>1, <3>1 DEF OptTypes
    <3>4. n \in Nat \ {0}
      BY <1>3, <3>2, <3>3
    <3> QED  BY <1>1, <3>1, <3>4 DEF OptTypes
  <2>5. CASE a = "--disasm"
    BY <1>1, <1>3, <2>5 DEF OptionsWith, OptTypes, Engines, Thresholds
  <2>6. CASE a = "--time"
    BY <1>1, <1>3, <2>6 DEF OptionsWith, OptTypes, Engines, Thresholds
  <2>7. CASE a \notin {"--dump-tokens", "--dump-ast", "--disasm", "--time"} \cup Engines
             /\ a \notin Thresholds
    <3>1. opt' = [opt EXCEPT !.path = a]
      BY <1>3, <2>7 DEF OptionsWith, OptionsWithPath
    <3> QED  BY <1>1, <1>2, <3>1 DEF OptTypes
  <2> QED  BY <2>1, <2>2, <2>3, <2>4, <2>5, <2>6, <2>7
<1>5. /\ UNCHANGED <<args, terminal, output, result, native>>
      /\ stage = "options" /\ stage' = "options"
  BY DEF TakeArg
<1>6. native' \in BOOLEAN
  BY <1>5 DEF IInv, TypeOK
<1> QED  BY <1>2, <1>4, <1>5, <1>6, GoesOn DEF OptTypes, BeforeTheProgram

(* Going on to another stage, or to the other engine, with the options as they are. *)
LEMMA StageIsOver ==
    ASSUME IInv, UNCHANGED <<options, terminal, output, result>>, native' \in BOOLEAN,
           stage \in BeforeTheProgram \cup {"running"},
           stage' \in BeforeTheProgram \cup {"running"},
           stage' = "running" \/ stage # "running"
    PROVE  IInv' /\ Step
<1>1. UNCHANGED <<args, arg, opt, terminal, output, result>>
  BY DEF options
<1>2. /\ arg' \in 1 .. Len(args) + 1
      /\ opt' \in OptTypes
  BY <1>1 DEF IInv, TypeOK, OptTypes
<1> QED  BY <1>1, <1>2, GoesOn DEF OptTypes

LEMMA GoesKeeps ==
    ASSUME IInv, NEW to \in BeforeTheProgram \cup {"running"}, Goes(to),
           stage \in BeforeTheProgram
    PROVE  IInv' /\ Step
<1>1. /\ UNCHANGED <<options, terminal, output, result>>
      /\ native' = native /\ stage' = to
  BY DEF Goes
<1>2. native' \in BOOLEAN
  BY <1>1 DEF IInv, TypeOK
<1> QED  BY <1>1, <1>2, StageIsOver DEF BeforeTheProgram

LEMMA DumpKeeps ==
    ASSUME IInv, NEW line \in Dumps, Dump(line), stage \in BeforeTheProgram
    PROVE  IInv' /\ Step
BY SaysALine DEF Dump

LEMMA StagesKeep ==
    ASSUME IInv, BadArg \/ Usage \/ read_file \/ Lex \/ Parse \/ Sema
    PROVE  IInv' /\ Step
<1>1. /\ {"flag", "usage", "open", "compile"} \subseteq Errors \ {"runtime"}
      /\ {"tokens", "ast"} \subseteq Dumps
      /\ {"read", "lex", "parse", "sema", "compile", "running"}
            \subseteq BeforeTheProgram \cup {"running"}
  BY DEF Errors, Dumps, BeforeTheProgram
<1>2. stage \in BeforeTheProgram
  BY DEF BadArg, Usage, read_file, Lex, Parse, Sema, BeforeTheProgram
<1>3. CASE BadArg
  BY <1>1, <1>2, <1>3, StageFails DEF BadArg
<1>4. CASE Usage
  BY <1>1, <1>2, <1>4, StageFails, GoesKeeps DEF Usage
<1>5. CASE read_file
  BY <1>1, <1>2, <1>5, StageFails, GoesKeeps DEF read_file
<1>6. CASE Lex
  BY <1>1, <1>2, <1>6, StageFails, GoesKeeps, DumpKeeps DEF Lex
<1>7. CASE Parse
  BY <1>1, <1>2, <1>7, StageFails, GoesKeeps DEF Parse
<1>8. CASE Sema
  BY <1>1, <1>2, <1>8, StageFails, GoesKeeps, DumpKeeps DEF Sema
<1> QED  BY <1>3, <1>4, <1>5, <1>6, <1>7, <1>8

LEMMA EnginesKeep ==
    ASSUME IInv, Compile \/ GoesNative \/ ReturnsToWalk \/ Prints
    PROVE  IInv' /\ Step
<1>1. /\ {"emitter", "mmap"} \subseteq Errors /\ "listing" \in Dumps
      /\ {"compile", "running"} \subseteq BeforeTheProgram \cup {"running"}
      /\ "compile" \in BeforeTheProgram
  BY DEF Errors, Dumps, BeforeTheProgram
<1>2. CASE CompileAborts /\ (stage = "compile" \/ (stage = "running" /\ opt.engine = "--tier"))
  BY <1>1, <1>2, CompilerAborts DEF CompileAborts
<1>3. CASE Compile /\ ~CompileAborts
  <2>1. CASE opt.disasm /\ Dump("listing")
    BY <1>1, <1>3, <2>1, DumpKeeps DEF Compile
  <2>2. CASE /\ stage' = "running" /\ native' = TRUE
             /\ UNCHANGED <<options, terminal, output, result>>
    <3>1. native' \in BOOLEAN /\ stage = "compile"
      BY <1>3, <2>2 DEF Compile
    <3> QED  BY <1>1, <2>2, <3>1, StageIsOver
  <2> QED  BY <1>3, <2>1, <2>2 DEF Compile
<1>4. CASE GoesNative /\ ~CompileAborts
  <2>1. /\ stage = "running" /\ native' = TRUE
        /\ UNCHANGED <<options, stage, terminal, output, result>>
    BY <1>4 DEF GoesNative
  <2>2. native' \in BOOLEAN
    BY <2>1
  <2> QED  BY <1>1, <2>1, <2>2, StageIsOver
<1>5. CASE ReturnsToWalk
  <2>1. /\ stage = "running" /\ native' = FALSE
        /\ UNCHANGED <<options, stage, terminal, output, result>>
    BY <1>5 DEF ReturnsToWalk
  <2>2. native' \in BOOLEAN
    BY <2>1
  <2> QED  BY <1>1, <2>1, <2>2, StageIsOver
<1>6. CASE Prints
  <2>1. PICK v \in Values : Write(v)
    BY <1>6 DEF Prints, mp_print
  <2> QED  BY <1>6, <2>1, SaysALine DEF Prints
<1> QED  BY <1>2, <1>3, <1>4, <1>5, <1>6 DEF Compile, GoesNative

LEMMA Stutter ==
    ASSUME IInv, UNCHANGED vars
    PROVE  IInv' /\ Step
<1>1. UNCHANGED <<args, arg, opt, stage, native, terminal, buffer, screen, timed,
                  printed, result>>
  BY DEF vars, options, output
<1>2. IInv'
  <2>1. TypeOK'
    BY <1>1 DEF IInv, TypeOK
  <2>2. SilentFirst' /\ ErrorIsLast' /\ FailsBeforeOutput'
    BY <1>1 DEF IInv, SilentFirst, ErrorIsLast, FailsBeforeOutput
  <2> QED  BY <2>1, <2>2 DEF IInv
<1>3. UNCHANGED T!vars
  BY <1>1 DEF T!vars, Said
<1> QED  BY <1>2, <1>3 DEF Step

LEMMA EveryStep == IInv /\ [Next]_vars => IInv' /\ Step
<1> SUFFICES ASSUME IInv, [Next]_vars PROVE IInv' /\ Step
  OBVIOUS
<1>1. CASE BadArg \/ Usage \/ read_file \/ Lex \/ Parse \/ Sema
  BY <1>1, StagesKeep
<1>2. CASE Compile \/ GoesNative \/ ReturnsToWalk \/ Prints
  BY <1>2, EnginesKeep
<1>3. CASE TakeArg
  BY <1>3, ArgIsTaken
<1>4. CASE DivZero
  BY <1>4, DivZeroEnds
<1>5. CASE Return
  BY <1>5, ReturnEnds
<1>6. CASE Exit
  BY <1>6, ExitFlushes
<1>7. CASE Spill
  BY <1>7, SpillFlushes
<1>8. CASE UNCHANGED vars
  BY <1>8, Stutter
<1> QED  BY <1>1, <1>2, <1>3, <1>4, <1>5, <1>6, <1>7, <1>8 DEF Next

LEMMA AtFirst == Init => IInv /\ T!Init
<1> SUFFICES ASSUME Init PROVE IInv /\ T!Init
  OBVIOUS
<1>1. /\ arg = 1 /\ stage = "options" /\ native = FALSE /\ terminal \in BOOLEAN
      /\ buffer = <<>> /\ screen = <<>> /\ timed = <<>> /\ printed = <<>>
      /\ result = "none"
  BY DEF Init
<1>2. args \in Seq(Args)
  <2>1. PICK m \in 0 .. MaxArgs : args \in [1 .. m -> Args]
    BY DEF Init, SeqOf
  <2>2. m \in Nat
    BY MaxArgsAssumption
  <2> QED  BY <2>1, <2>2, SeqDef
<1>3. arg \in 1 .. Len(args) + 1
  <2>1. Len(args) \in Nat
    BY <1>2, LenProperties
  <2> QED  BY <1>1, <2>1
<1>4. opt \in OptTypes
  <2>1. "" \in Args \cup {""} /\ "--jit" \in Engines /\ 100 \in Nat \ {0} /\ FALSE \in BOOLEAN
    BY DEF Engines
  <2> QED  BY <2>1, Zenon DEF Init, OptTypes
<1>5. TypeOK
  <2>1. /\ printed \in Seq(Values \cup Dumps) /\ timed \in Seq(Timings)
        /\ buffer \in Seq(Outs) /\ screen \in Seq(Outs \cup Errs)
    BY <1>1, EmptySeq
  <2> QED  BY <1>1, <1>2, <1>3, <1>4, <2>1 DEF TypeOK, OptTypes
<1>6. SilentFirst /\ ErrorIsLast /\ FailsBeforeOutput
  BY <1>1 DEF SilentFirst, ErrorIsLast, FailsBeforeOutput
<1>7. T!Init
  <2>1. Said = <<>> \o <<>>
    BY <1>1 DEF Said
  <2>2. Said = <<>>
    BY <2>1, EmptySeq, ConcatEmptySeq
  <2> QED  BY <1>1, <2>2 DEF T!Init
<1> QED  BY <1>5, <1>6, <1>7 DEF IInv

LEMMA Invariance == Spec => []IInv
BY AtFirst, EveryStep, PTL DEF Spec

-----------------------------------------------------------------------------
(***************************************************************************)
(* The variables keep their types for any command line and any program:    *)
(* a threshold below 1 never becomes an option, nothing waits in the       *)
(* buffer of a terminal, and there is a result exactly from the moment     *)
(* main is about to return (main.cc:59-89, 155-160).                       *)
(***************************************************************************)
THEOREM TypeCorrect == Spec => []TypeOK
BY Invariance, PTL DEF IInv

(***************************************************************************)
(* Whatever the program prints and wherever a stage fails, an error other  *)
(* than a division by zero finds nothing printed, but for an abort of      *)
(* --tier's compiler (main.cc:90-105).                                     *)
(***************************************************************************)
THEOREM ErrorsBeforeOutput == Spec => []FailsBeforeOutput
BY Invariance, PTL DEF IInv

(***************************************************************************)
(* Every run of the process, with any engine and any output, is a run of   *)
(* Transcript: the lines in order, one error after them, and the status    *)
(* that agrees (runtime.cc:24-29, interp.cc:30-36).                        *)
(***************************************************************************)
THEOREM DriverImplementsTranscript == Spec => ImplementsTranscript
<1>1. IInv /\ [Next]_vars => [T!Next]_(T!vars)
  BY EveryStep DEF Step
<1> QED  BY <1>1, AtFirst, Invariance, PTL DEF Spec, ImplementsTranscript, T!Spec

-----------------------------------------------------------------------------
(* The options, after so many of the arguments *)

LastUpto(n, S, none) ==
    LET at == {k \in 1 .. n : args[k] \in S}
    IN  IF at = {} THEN none ELSE args[Max(at)]

GivenUpto(n, a) == \E k \in 1 .. n : args[k] = a

OptionsUpto(n) ==
    /\ opt.engine = LastUpto(n, Engines, "--jit")
    /\ opt.path = LastUpto(n, Paths, "")
    /\ IF LastUpto(n, Thresholds, "none") = "none" THEN opt.hot = 100
       ELSE opt.hot \in atoi(LastUpto(n, Thresholds, "none"))
    /\ opt.time <=> GivenUpto(n, "--time")
    /\ opt.tokens <=> GivenUpto(n, "--dump-tokens")
    /\ opt.ast <=> GivenUpto(n, "--dump-ast")
    /\ opt.disasm <=> GivenUpto(n, "--disasm")
    /\ \A k \in 1 .. n : Known(args[k]) /\ args[k] \notin {"--hot=0", "--hot=x"}

OptionsSoFar ==
    /\ stage = "options" => OptionsUpto(arg - 1)
    /\ stage \notin {"options", "returning", "exited"} => OptionsUpto(Len(args))

(* Another argument is the last of its kind. *)
LEMMA LastGrows ==
    ASSUME NEW n \in Nat, NEW S, NEW none
    PROVE  LastUpto(n + 1, S, none) =
               IF args[n + 1] \in S THEN args[n + 1] ELSE LastUpto(n, S, none)
<1> DEFINE at == {k \in 1 .. n + 1 : args[k] \in S}
           before == {k \in 1 .. n : args[k] \in S}
<1>1. n + 1 \in 1 .. n + 1 /\ 1 .. n + 1 = (1 .. n) \cup {n + 1}
  OBVIOUS
<1>2. CASE args[n + 1] \in S
  <2>1. n + 1 \in at /\ \A k \in at : k \in Int /\ n + 1 >= k
    BY <1>1, <1>2
  <2> HIDE DEF at
  <2>2. Max(at) = n + 1
    BY <2>1 DEF Max
  <2> QED  BY <1>2, <2>1, <2>2 DEF LastUpto, at
<1>3. CASE args[n + 1] \notin S
  <2>1. at = before
    BY <1>1, <1>3
  <2> QED  BY <1>3, <2>1 DEF LastUpto
<1> QED  BY <1>2, <1>3

LEMMA GivenGrows ==
    ASSUME NEW n \in Nat, NEW a
    PROVE  GivenUpto(n + 1, a) <=> args[n + 1] = a \/ GivenUpto(n, a)
<1>1. 1 .. n + 1 = (1 .. n) \cup {n + 1}
  OBVIOUS
<1> QED  BY <1>1 DEF GivenUpto

(* What one argument makes of the options. *)
LEMMA OneArgument ==
    ASSUME opt \in OptTypes, NEW a \in Args, NEW o \in OptionsWith(a)
    PROVE  /\ o.engine = IF a \in Engines THEN a ELSE opt.engine
           /\ o.path = IF a \in Paths THEN a ELSE opt.path
           /\ IF a \in Thresholds THEN o.hot \in atoi(a) ELSE o.hot = opt.hot
           /\ (o.time <=> a = "--time" \/ opt.time)
           /\ (o.tokens <=> a = "--dump-tokens" \/ opt.tokens)
           /\ (o.ast <=> a = "--dump-ast" \/ opt.ast)
           /\ (o.disasm <=> a = "--disasm" \/ opt.disasm)
<1>1. CASE a = "--dump-tokens"
  BY <1>1 DEF OptionsWith, OptTypes, Engines, Thresholds, Paths
<1>2. CASE a = "--dump-ast"
  BY <1>2 DEF OptionsWith, OptTypes, Engines, Thresholds, Paths
<1>3. CASE a \in Engines
  BY <1>3 DEF OptionsWith, OptTypes, Engines, Thresholds, Paths
<1>4. CASE a \in Thresholds
  <2>1. PICK n \in atoi(a) : o = [opt EXCEPT !.hot = n]
    BY <1>4 DEF OptionsWith, Thresholds, Engines
  <2>2. a \notin Paths \cup Engines \cup {"--dump-tokens", "--dump-ast", "--disasm", "--time"}
    BY <1>4 DEF Paths, Thresholds, Engines
  <2> QED  BY <1>4, <2>1, <2>2 DEF OptTypes
<1>5. CASE a = "--disasm"
  BY <1>5 DEF OptionsWith, OptTypes, Engines, Thresholds, Paths
<1>6. CASE a = "--time"
  BY <1>6 DEF OptionsWith, OptTypes, Engines, Thresholds, Paths
<1>7. CASE a \in Paths
  <2>1. /\ a \notin Engines /\ a \notin Thresholds
        /\ a \notin {"--dump-tokens", "--dump-ast", "--disasm", "--time"}
    BY <1>7 DEF Paths
  <2>2. o = [opt EXCEPT !.path = a]
    BY <2>1 DEF OptionsWith, OptionsWithPath
  <2> QED  BY <1>7, <2>1, <2>2 DEF OptTypes
<1> QED  BY <1>1, <1>2, <1>3, <1>4, <1>5, <1>6, <1>7 DEF Paths

LEMMA ArgCounts ==
    ASSUME IInv, OptionsSoFar, TakeArg
    PROVE  OptionsSoFar'
<1>1. PICK n \in Nat, a \in Args : /\ arg = n + 1 /\ arg - 1 = n /\ arg' - 1 = n + 1
                                   /\ a = args[n + 1]
  <2>1. args \in Seq(Args) /\ arg \in 1 .. Len(args) + 1 /\ arg <= Len(args) /\ arg' = arg + 1
    BY DEF IInv, TypeOK, TakeArg
  <2>2. Len(args) \in Nat
    BY <2>1, LenProperties
  <2>3. arg \in 1 .. Len(args) /\ arg - 1 \in Nat
        /\ arg = (arg - 1) + 1 /\ arg' - 1 = (arg - 1) + 1
    BY <2>1, <2>2
  <2>4. args[arg] \in Args
    BY <2>1, <2>3, ElementOfSeq
  <2> QED  BY <2>3, <2>4
<1>2. opt \in OptTypes /\ opt' \in OptionsWith(a) /\ opt'.hot >= 1 /\ Known(a)
  BY <1>1 DEF IInv, TypeOK, OptTypes, TakeArg
<1>3. OptionsUpto(n) /\ stage' = "options" /\ args' = args
  BY <1>1 DEF OptionsSoFar, TakeArg
<1>4. /\ \A S, none : LastUpto(n + 1, S, none) = IF a \in S THEN a ELSE LastUpto(n, S, none)
      /\ \A g : GivenUpto(n + 1, g) <=> a = g \/ GivenUpto(n, g)
  BY <1>1, LastGrows, GivenGrows
<1>5. a \notin {"--hot=0", "--hot=x"}
  <2>1. ASSUME a \in {"--hot=0", "--hot=x"}
        PROVE  FALSE
    <3>1. atoi(a) = {0} /\ a \in Thresholds
      BY <2>1 DEF atoi, Thresholds
    <3>2. opt'.hot \in atoi(a)
      BY <1>1, <1>2, <3>1, OneArgument
    <3> QED  BY <1>2, <3>1, <3>2
  <2> QED  BY <2>1
<1>6. a # "none" \/ a \notin Thresholds
  BY DEF Thresholds
<1>7. /\ opt'.engine = IF a \in Engines THEN a ELSE opt.engine
      /\ opt'.path = IF a \in Paths THEN a ELSE opt.path
      /\ IF a \in Thresholds THEN opt'.hot \in atoi(a) ELSE opt'.hot = opt.hot
      /\ (opt'.time <=> a = "--time" \/ opt.time)
      /\ (opt'.tokens <=> a = "--dump-tokens" \/ opt.tokens)
      /\ (opt'.ast <=> a = "--dump-ast" \/ opt.ast)
      /\ (opt'.disasm <=> a = "--disasm" \/ opt.disasm)
  BY <1>2, OneArgument
<1>8. /\ opt'.engine = LastUpto(n + 1, Engines, "--jit")
      /\ opt'.path = LastUpto(n + 1, Paths, "")
  BY <1>3, <1>4, <1>7 DEF OptionsUpto
<1>9. IF LastUpto(n + 1, Thresholds, "none") = "none" THEN opt'.hot = 100
      ELSE opt'.hot \in atoi(LastUpto(n + 1, Thresholds, "none"))
  <2>1. LastUpto(n + 1, Thresholds, "none")
            = IF a \in Thresholds THEN a ELSE LastUpto(n, Thresholds, "none")
    BY <1>4
  <2> QED  BY <1>3, <1>6, <1>7, <2>1 DEF OptionsUpto
<1>10. /\ opt'.time <=> GivenUpto(n + 1, "--time")
       /\ opt'.tokens <=> GivenUpto(n + 1, "--dump-tokens")
       /\ opt'.ast <=> GivenUpto(n + 1, "--dump-ast")
       /\ opt'.disasm <=> GivenUpto(n + 1, "--disasm")
  BY <1>3, <1>4, <1>7 DEF OptionsUpto
<1>11. \A k \in 1 .. n + 1 : Known(args[k]) /\ args[k] \notin {"--hot=0", "--hot=x"}
  <2>1. 1 .. n + 1 = (1 .. n) \cup {n + 1}
    BY <1>1
  <2> QED  BY <1>1, <1>2, <1>3, <1>5, <2>1 DEF OptionsUpto
<1>12. OptionsUpto(n + 1)'
  BY <1>3, <1>8, <1>9, <1>10, <1>11 DEF OptionsUpto, LastUpto, GivenUpto
<1> QED  BY <1>1, <1>3, <1>12 DEF OptionsSoFar

(* Reading starts behind the last argument, and after that nothing reads an *)
(* option from the command line, or changes one.                           *)
LEMMA OptionsStay ==
    ASSUME IInv, OptionsSoFar, [Next]_vars, ~TakeArg
    PROVE  OptionsSoFar'
<1>1. UNCHANGED options
  <2>1. CASE BadArg
    BY <2>1 DEF BadArg, Fails, options
  <2>2. CASE Usage
    BY <2>2 DEF Usage, Fails, Goes, options
  <2>3. CASE read_file
    BY <2>3 DEF read_file, Fails, Goes, options
  <2>4. CASE Lex \/ Parse \/ Sema
    BY <2>4 DEF Lex, Parse, Sema, Fails, Dump, Goes, options
  <2>5. CASE Compile \/ GoesNative
    BY <2>5 DEF Compile, GoesNative, CompileAborts, Aborts, Dump, options
  <2>6. CASE ReturnsToWalk \/ Prints
    BY <2>6 DEF ReturnsToWalk, Prints, options
  <2>7. CASE DivZero \/ Return
    BY <2>7 DEF DivZero, Return, options
  <2>8. CASE Exit \/ Spill
    BY <2>8 DEF Exit, Spill, options
  <2>9. CASE UNCHANGED vars
    BY <2>9 DEF vars, options
  <2> QED  BY <2>1, <2>2, <2>3, <2>4, <2>5, <2>6, <2>7, <2>8, <2>9 DEF Next
<1>2. \/ stage' = stage
      \/ stage' \in {"returning", "exited"}
      \/ stage = "options" /\ arg > Len(args)
      \/ stage \notin {"options", "returning", "exited"} /\ stage' # "options"
  BY DEF Next, BadArg, Usage, read_file, Lex, Parse, Sema, Compile, GoesNative,
         ReturnsToWalk, Prints, DivZero, Return, Exit, Spill, CompileAborts, Goes, Fails,
         Dump, Aborts, vars
<1>3. UNCHANGED <<args, arg, opt>>
  BY <1>1 DEF options
<1>4. \A n : OptionsUpto(n)' <=> OptionsUpto(n)
  BY <1>3 DEF OptionsUpto, LastUpto, GivenUpto
<1>5. stage = "options" /\ arg > Len(args) => OptionsUpto(Len(args))
  <2>1. arg \in 1 .. Len(args) + 1 /\ Len(args) \in Nat
    BY LenProperties DEF IInv, TypeOK
  <2>2. arg > Len(args) => arg - 1 = Len(args)
    BY <2>1
  <2> QED  BY <2>2 DEF OptionsSoFar
<1>6. CASE stage' = "options"
  <2>1. stage = "options"
    BY <1>2, <1>6
  <2> QED  BY <1>3, <1>4, <1>6, <2>1 DEF OptionsSoFar
<1>7. CASE stage' \notin {"options", "returning", "exited"}
  BY <1>2, <1>3, <1>4, <1>5, <1>7 DEF OptionsSoFar
<1>8. CASE stage' \in {"returning", "exited"}
  BY <1>8 DEF OptionsSoFar
<1> QED  BY <1>6, <1>7, <1>8

LEMMA OptionsAtFirst == Init => OptionsSoFar
<1> SUFFICES ASSUME Init PROVE OptionsSoFar
  OBVIOUS
<1>1. arg = 1 /\ stage = "options"
      /\ opt = [path |-> "", tokens |-> FALSE, ast |-> FALSE, disasm |-> FALSE,
                time |-> FALSE, engine |-> "--jit", hot |-> 100]
  BY DEF Init
<1>2. arg - 1 = 0 /\ 1 .. 0 = {}
  <2>1. 1 - 1 = 0 /\ 1 .. 0 = {}
    OBVIOUS
  <2>2. arg = 1
    BY <1>1
  <2> QED  BY <2>1, <2>2
<1>3. \A S, none : LastUpto(0, S, none) = none
  BY <1>2 DEF LastUpto
<1>4. \A a : ~GivenUpto(0, a)
  BY <1>2 DEF GivenUpto
<1>5. OptionsUpto(0)
  BY <1>1, <1>2, <1>3, <1>4 DEF OptionsUpto
<1> QED  BY <1>1, <1>2, <1>5 DEF OptionsSoFar

(***************************************************************************)
(* However long the command line and whatever its order, no stage runs     *)
(* before every argument counted: the last engine, threshold and file are  *)
(* the options, a flag is set exactly if it was given, and nothing unknown *)
(* and no threshold that is not positive was among them (main.cc:59-86).   *)
(***************************************************************************)
THEOREM OptionsFollowArguments == Spec => []OptionsAsGiven
<1>1. IInv /\ OptionsSoFar /\ [Next]_vars => OptionsSoFar'
  BY ArgCounts, OptionsStay
<1>2. IInv /\ OptionsSoFar => OptionsAsGiven
  <2> SUFFICES ASSUME IInv, OptionsSoFar PROVE OptionsAsGiven
    OBVIOUS
  <2>1. DOMAIN args = 1 .. Len(args)
    BY LenProperties DEF IInv, TypeOK
  <2> QED  BY <2>1 DEF OptionsSoFar, OptionsUpto, LastUpto, GivenUpto,
                       OptionsAsGiven, LastOf, Given
<1> QED  BY <1>1, <1>2, OptionsAtFirst, Invariance, PTL DEF Spec
=============================================================================
