---------------------------- MODULE LexerProofs ----------------------------
(***************************************************************************)
(* The scanner on every source: the stream it produces is well formed, its *)
(* lines and literals are those of the text, no character is dropped and   *)
(* no token split, the blocks are those of the layout, and no turn of its  *)
(* loop is without progress.                                               *)
(***************************************************************************)
EXTENDS Lexer, FiniteSetTheorems, SequenceTheorems, TLAPS

-----------------------------------------------------------------------------
(* Least and greatest elements *)

LEMMA Least ==
    ASSUME NEW S \in SUBSET Nat, S # {}
    PROVE  \E x \in S : \A y \in S : x <= y
<1> DEFINE Below == {0 .. x : x \in S}
<1> DEFINE R == StrictSubsetOrdering(Nat)
<1>1. Below \subseteq FiniteSubsetsOf(Nat) /\ Below # {}
  <2>1. \A x \in S : IsFiniteSet(0 .. x) /\ 0 .. x \subseteq Nat
    BY FS_Interval
  <2> QED  BY <2>1 DEF FiniteSubsetsOf
<1>2. PICK s \in Below : \A t \in Below : <<t, s>> \notin R
  <2> HIDE DEF Below
  <2> QED  BY <1>1, FS_StrictSubsetOrderingWellFounded, WFMin
<1>3. PICK x \in S : s = 0 .. x
  BY DEF Below
<1>4. ASSUME NEW y \in S PROVE x <= y
  <2> SUFFICES ASSUME y < x PROVE FALSE
    OBVIOUS
  <2>1. 0 .. y \subseteq 0 .. x /\ 0 .. y # 0 .. x
    <3>1. x \in 0 .. x /\ x \notin 0 .. y
      OBVIOUS
    <3> QED  BY <3>1
  <2>2. <<0 .. y, 0 .. x>> \in R
    BY <2>1 DEF StrictSubsetOrdering
  <2> QED  BY <1>2, <1>3, <2>2
<1> QED  BY <1>4

(* The greatest element of a bounded set. *)
LEMMA Greatest ==
    ASSUME NEW n \in Nat, NEW S \in SUBSET (0 .. n), S # {}
    PROVE  Max(S) \in S /\ \A y \in S : y <= Max(S)
<1> DEFINE T == {n - x : x \in S}
<1>1. T \in SUBSET Nat /\ T # {}
  <2>1. \A x \in S : n - x \in Nat
    OBVIOUS
  <2>2. PICK x \in S : TRUE
    OBVIOUS
  <2>3. n - x \in T
    OBVIOUS
  <2> QED  BY <2>1, <2>3
<1>2. PICK t \in T : \A u \in T : t <= u
  <2> HIDE DEF T
  <2> QED  BY <1>1, Least
<1>3. PICK x \in S : t = n - x
  OBVIOUS
<1>4. \A y \in S : x >= y
  BY <1>2, <1>3
<1> QED  BY <1>4 DEF Max

-----------------------------------------------------------------------------
(* Loops that skip characters *)

LEMMA AfterStops ==
    ASSUME src \in Seq(STRING), NEW S, NEW j \in 1 .. Len(src) + 1
    PROVE  /\ After(S, j) \in j .. Len(src) + 1
           /\ ~At(After(S, j), S)
           /\ \A m \in j .. After(S, j) - 1 : m \in 1 .. Len(src) /\ src[m] \in S
<1> DEFINE T == {k \in j .. Len(src) + 1 : ~At(k, S)}
<1>1. Len(src) \in Nat
  OBVIOUS
<1>2. T \in SUBSET Nat /\ T # {}
  <2>1. Len(src) + 1 \in T
    BY <1>1 DEF At, AtEnd
  <2> QED  BY <1>1, <2>1
<1>3. PICK k \in T : \A m \in T : k <= m
  <2> HIDE DEF T
  <2> QED  BY <1>2, Least
<1>4. k \in j .. Len(src) + 1 /\ ~At(k, S) /\ \A m \in j .. k - 1 : src[m] \in S
  <2>1. ASSUME NEW m \in j .. k - 1 PROVE At(m, S)
    BY <1>1, <1>3
  <2> QED  BY <1>3, <2>1 DEF At
<1>5. /\ After(S, j) \in j .. Len(src) + 1
      /\ ~At(After(S, j), S)
      /\ \A m \in j .. After(S, j) - 1 : src[m] \in S
  BY <1>4 DEF After
<1> QED  BY <1>1, <1>5
-----------------------------------------------------------------------------
(* How many of 1 .. n are in P *)

HowMany(P, n) == Cardinality({k \in 1 .. n : k \in P})

LEMMA HowManyIsNat ==
    ASSUME NEW P, NEW n \in Nat
    PROVE  /\ HowMany(P, n) \in Nat
           /\ IsFiniteSet({k \in 1 .. n : k \in P})
<1>1. IsFiniteSet(1 .. n)
  BY FS_Interval
<1>2. {k \in 1 .. n : k \in P} \in SUBSET (1 .. n)
  OBVIOUS
<1>3. IsFiniteSet({k \in 1 .. n : k \in P})
  BY <1>1, <1>2, FS_Subset
<1> QED  BY <1>3, FS_CardinalityType DEF HowMany

LEMMA HowManyOfNone ==
    ASSUME NEW P
    PROVE  HowMany(P, 0) = 0
<1>1. {k \in 1 .. 0 : k \in P} = {}
  OBVIOUS
<1> QED  BY <1>1, FS_EmptySet DEF HowMany

(* Numbers up to n are all that matters. *)
LEMMA HowManySame ==
    ASSUME NEW P, NEW Q, NEW n \in Nat, \A k \in 1 .. n : k \in P <=> k \in Q
    PROVE  HowMany(P, n) = HowMany(Q, n)
<1>1. {k \in 1 .. n : k \in P} = {k \in 1 .. n : k \in Q}
  OBVIOUS
<1> QED  BY <1>1 DEF HowMany

(* A run of numbers that are in P. *)
LEMMA HowManyInRun ==
    ASSUME NEW P, NEW n \in Nat, NEW to \in Nat, n <= to,
           \A k \in n + 1 .. to : k \in P
    PROVE  HowMany(P, to) = HowMany(P, n) + (to - n)
<1> DEFINE Of(k) == {x \in 1 .. k : x \in P}
           first == n + 1
<1>1. Of(to) = Of(n) \cup (first .. to) /\ Of(n) \cap (first .. to) = {}
  OBVIOUS
<1>2. first \in Int /\ to \in Int /\ (IF first > to THEN 0 ELSE to - first + 1) = to - n
  OBVIOUS
<1>3. /\ IsFiniteSet(first .. to)
      /\ Cardinality(first .. to) = to - n
  <2> HIDE DEF first
  <2> QED  BY <1>2, FS_Interval
<1>4. IsFiniteSet(Of(n)) /\ Cardinality(Of(n)) \in Nat
  BY HowManyIsNat DEF HowMany
<1>5. Cardinality(Of(to)) = Cardinality(Of(n)) + (to - n)
  <2> HIDE DEF Of, first
  <2>1. Cardinality(Of(to)) = Cardinality(Of(n)) + (to - n) - Cardinality({})
    BY <1>1, <1>3, <1>4, FS_Union
  <2> QED  BY <1>4, <2>1, FS_EmptySet
<1> QED  BY <1>5 DEF HowMany

(* A run of numbers that are not. *)
LEMMA HowManyPastRun ==
    ASSUME NEW P, NEW n \in Nat, NEW to \in Nat, n <= to,
           \A k \in n + 1 .. to : k \notin P
    PROVE  HowMany(P, to) = HowMany(P, n)
<1>1. {x \in 1 .. to : x \in P} = {x \in 1 .. n : x \in P}
  OBVIOUS
<1> QED  BY <1>1 DEF HowMany

-----------------------------------------------------------------------------
(* Sequences of anything *)

IsSeq(s) == s \in Seq(Range(s))

LEMMA OwnSeq ==
    ASSUME NEW S, NEW s \in Seq(S)
    PROVE  IsSeq(s)
<1>1. Len(s) \in Nat /\ DOMAIN s = 1 .. Len(s) /\ s = [k \in 1 .. Len(s) |-> s[k]]
  BY LenProperties
<1>2. \A k \in 1 .. Len(s) : s[k] \in Range(s)
  BY <1>1 DEF Range
<1>3. s \in [1 .. Len(s) -> Range(s)]
  BY <1>1, <1>2
<1> QED  BY <1>1, <1>3 DEF IsSeq

LEMMA SeqShape ==
    ASSUME NEW s, IsSeq(s)
    PROVE  Len(s) \in Nat /\ DOMAIN s = 1 .. Len(s)
BY LenProperties DEF IsSeq

LEMMA AppendSeq ==
    ASSUME NEW s, IsSeq(s), NEW e
    PROVE  /\ IsSeq(Append(s, e)) /\ Append(s, e) # <<>>
           /\ Len(Append(s, e)) = Len(s) + 1
           /\ \A k \in 1 .. Len(s) : Append(s, e)[k] = s[k]
           /\ Append(s, e)[Len(s) + 1] = e
<1> DEFINE S == Range(s) \cup {e}
<1>1. s \in Seq(S) /\ e \in S
  <2>1. Range(s) \subseteq S
    OBVIOUS
  <2> QED  BY <2>1, SeqMonotonic DEF IsSeq
<1>2. /\ Append(s, e) \in Seq(S)
      /\ Len(Append(s, e)) = Len(s) + 1
      /\ \A k \in 1 .. Len(s) : Append(s, e)[k] = s[k]
      /\ Append(s, e)[Len(s) + 1] = e
  <2> HIDE DEF S
  <2> QED  BY <1>1, AppendProperties
<1>3. IsSeq(Append(s, e))
  BY <1>2, OwnSeq
<1>4. Append(s, e) # <<>>
  BY <1>2, SeqShape
<1> QED  BY <1>2, <1>3, <1>4

LEMMA ConcatSeq ==
    ASSUME NEW s, IsSeq(s), NEW t, IsSeq(t)
    PROVE  /\ IsSeq(s \o t)
           /\ Len(s \o t) = Len(s) + Len(t)
           /\ \A k \in 1 .. Len(s) : (s \o t)[k] = s[k]
           /\ \A k \in Len(s) + 1 .. Len(s) + Len(t) : (s \o t)[k] = t[k - Len(s)]
<1> DEFINE S == Range(s) \cup Range(t)
<1>1. s \in Seq(S) /\ t \in Seq(S)
  <2>1. Range(s) \subseteq S /\ Range(t) \subseteq S
    OBVIOUS
  <2> QED  BY <2>1, SeqMonotonic DEF IsSeq
<1>2. /\ s \o t \in Seq(S)
      /\ Len(s \o t) = Len(s) + Len(t)
      /\ \A k \in 1 .. Len(s) + Len(t) :
            (s \o t)[k] = IF k <= Len(s) THEN s[k] ELSE t[k - Len(s)]
  <2> HIDE DEF S
  <2> QED  BY <1>1, ConcatProperties
<1>3. IsSeq(s \o t)
  BY <1>2, OwnSeq
<1>4. Len(s) \in Nat /\ Len(t) \in Nat
  BY SeqShape
<1> QED  BY <1>2, <1>3, <1>4
LEMMA AppendIsOneMore ==
    ASSUME NEW s, IsSeq(s), NEW e
    PROVE  s \o <<e>> = Append(s, e)
<1> DEFINE S == Range(s) \cup {e}
<1>1. s \in Seq(S) /\ e \in S
  <2>1. Range(s) \subseteq S
    OBVIOUS
  <2> QED  BY <2>1, SeqMonotonic DEF IsSeq
<1> HIDE DEF S
<1> QED  BY <1>1, AppendIsConcat

-----------------------------------------------------------------------------
(* Streams that nest and are made of lines *)

OfKind(s, kind) == {k \in DOMAIN s : s[k].kind = kind}
Number(s, kind, n) == HowMany(OfKind(s, kind), n)
Depth(s) == Number(s, "indent", Len(s)) - Number(s, "dedent", Len(s))

Nests(s) == \A n \in DOMAIN s : Number(s, "dedent", n) <= Number(s, "indent", n)

Before(s, n) == IF n = 1 THEN "newline" ELSE s[n - 1].kind
LastKind(s) == IF s = <<>> THEN "newline" ELSE s[Len(s)].kind
Layouts == {"newline", "indent", "dedent"}

FormsLines(s) ==
    \A n \in DOMAIN s :
        /\ s[n].kind = "indent" => Before(s, n) = "newline"
        /\ s[n].kind \in {"dedent", "eof"} => Before(s, n) \in {"newline", "dedent"}
        /\ s[n].kind = "newline" => n > 1 /\ Before(s, n) \notin Layouts

Sound(s) == IsSeq(s) /\ Nests(s) /\ FormsLines(s)

LEMMA NumbersAreNat ==
    ASSUME NEW s, IsSeq(s), NEW kind, NEW n \in 0 .. Len(s)
    PROVE  Number(s, kind, n) \in Nat
<1>1. n \in Nat
  BY SeqShape
<1> QED  BY <1>1, HowManyIsNat DEF Number

LEMMA DepthIsNat ==
    ASSUME NEW s, Sound(s)
    PROVE  Depth(s) \in Nat /\ Number(s, "dedent", Len(s)) <= Number(s, "indent", Len(s))
<1>1. Len(s) \in Nat /\ DOMAIN s = 1 .. Len(s)
  BY SeqShape DEF Sound
<1>2. Number(s, "indent", Len(s)) \in Nat /\ Number(s, "dedent", Len(s)) \in Nat
  BY <1>1, NumbersAreNat DEF Sound
<1>3. Number(s, "dedent", Len(s)) <= Number(s, "indent", Len(s))
  <2>1. CASE Len(s) = 0
    BY <1>2, <2>1, HowManyOfNone DEF Number
  <2>2. CASE Len(s) \in DOMAIN s
    BY <2>2 DEF Sound, Nests
  <2> QED  BY <1>1, <2>1, <2>2
<1> QED  BY <1>2, <1>3 DEF Depth

(* What one more token does to the numbers. *)
LEMMA NumbersAppend ==
    ASSUME NEW s, IsSeq(s), NEW e, NEW kind
    PROVE  /\ \A n \in 0 .. Len(s) : Number(Append(s, e), kind, n) = Number(s, kind, n)
           /\ e.kind = kind =>
                Number(Append(s, e), kind, Len(s) + 1) = Number(s, kind, Len(s)) + 1
           /\ e.kind # kind =>
                Number(Append(s, e), kind, Len(s) + 1) = Number(s, kind, Len(s))
<1> DEFINE new == Append(s, e)
           to == Len(s) + 1
<1>1. /\ Len(s) \in Nat /\ DOMAIN s = 1 .. Len(s)
      /\ DOMAIN new = 1 .. to /\ new[to] = e
      /\ \A k \in 1 .. Len(s) : new[k] = s[k]
  BY SeqShape, AppendSeq
<1>2. ASSUME NEW n \in 0 .. Len(s)
      PROVE  Number(new, kind, n) = Number(s, kind, n)
  <2> HIDE DEF new, to
  <2>1. \A k \in 1 .. n : k \in OfKind(new, kind) <=> k \in OfKind(s, kind)
    BY <1>1 DEF OfKind, to
  <2> QED  BY <1>1, <2>1, HowManySame DEF Number
<1>3. to \in Nat /\ Len(s) <= to /\ to - Len(s) = 1 /\ \A k \in Len(s) + 1 .. to : k = to
  BY <1>1
<1>4. to \in OfKind(new, kind) <=> e.kind = kind
  BY <1>1 DEF OfKind
<1>5. CASE e.kind = kind
  <2>1. \A k \in Len(s) + 1 .. to : k \in OfKind(new, kind)
    BY <1>3, <1>4, <1>5
  <2>2. HowMany(OfKind(new, kind), to) = HowMany(OfKind(new, kind), Len(s)) + (to - Len(s))
    <3> HIDE DEF to, new
    <3> QED  BY <1>1, <1>3, <2>1, HowManyInRun
  <2> QED  BY <1>1, <1>2, <1>3, <1>5, <2>2 DEF Number
<1>6. CASE e.kind # kind
  <2>1. \A k \in Len(s) + 1 .. to : k \notin OfKind(new, kind)
    BY <1>3, <1>4, <1>6
  <2>2. HowMany(OfKind(new, kind), to) = HowMany(OfKind(new, kind), Len(s))
    <3> HIDE DEF to, new
    <3> QED  BY <1>1, <1>3, <2>1, HowManyPastRun
  <2> QED  BY <1>1, <1>2, <1>6, <2>2 DEF Number
<1> QED  BY <1>2, <1>5, <1>6

(* A token that fits after the last one. *)
Fits(s, e) ==
    /\ e.kind = "indent" => LastKind(s) = "newline"
    /\ e.kind = "dedent" => LastKind(s) \in {"newline", "dedent"} /\ Depth(s) > 0
    /\ e.kind = "eof" => LastKind(s) \in {"newline", "dedent"}
    /\ e.kind = "newline" => LastKind(s) \notin Layouts

LEMMA OneMore ==
    ASSUME NEW s, Sound(s), NEW e, Fits(s, e)
    PROVE  /\ Sound(Append(s, e))
           /\ LastKind(Append(s, e)) = e.kind
           /\ e.kind = "indent" => Depth(Append(s, e)) = Depth(s) + 1
           /\ e.kind = "dedent" => Depth(Append(s, e)) = Depth(s) - 1
           /\ e.kind \notin {"indent", "dedent"} => Depth(Append(s, e)) = Depth(s)
<1> DEFINE new == Append(s, e)
<1>1. /\ Len(s) \in Nat /\ DOMAIN s = 1 .. Len(s) /\ Len(new) = Len(s) + 1
      /\ DOMAIN new = 1 .. Len(s) + 1 /\ new[Len(s) + 1] = e
      /\ \A k \in 1 .. Len(s) : new[k] = s[k]
      /\ IsSeq(new) /\ new # <<>>
  BY SeqShape, AppendSeq DEF Sound
<1>2. Number(s, "indent", Len(s)) \in Nat /\ Number(s, "dedent", Len(s)) \in Nat
  BY <1>1, NumbersAreNat DEF Sound
<1>3. Number(s, "dedent", Len(s)) <= Number(s, "indent", Len(s))
  BY DepthIsNat
<1> DEFINE ins == Number(new, "indent", Len(s) + 1)
           outs == Number(new, "dedent", Len(s) + 1)
<1>4. /\ e.kind = "indent" => ins = Number(s, "indent", Len(s)) + 1
      /\ e.kind # "indent" => ins = Number(s, "indent", Len(s))
      /\ e.kind = "dedent" => outs = Number(s, "dedent", Len(s)) + 1
      /\ e.kind # "dedent" => outs = Number(s, "dedent", Len(s))
  BY NumbersAppend DEF Sound
<1>5. Depth(new) = ins - outs
  BY <1>1 DEF Depth
<1>6. /\ e.kind = "indent" => Depth(new) = Depth(s) + 1
      /\ e.kind = "dedent" => Depth(new) = Depth(s) - 1
      /\ e.kind \notin {"indent", "dedent"} => Depth(new) = Depth(s)
  <2> HIDE DEF new, ins, outs
  <2> QED  BY <1>2, <1>4, <1>5 DEF Depth
<1>7. Nests(new)
  <2> SUFFICES ASSUME NEW n \in 1 .. Len(s) + 1
               PROVE  Number(new, "dedent", n) <= Number(new, "indent", n)
    BY <1>1 DEF Nests
  <2>1. CASE n \in 1 .. Len(s)
    <3>1. /\ Number(new, "dedent", n) = Number(s, "dedent", n)
          /\ Number(new, "indent", n) = Number(s, "indent", n)
      <4>1. IsSeq(s) /\ n \in 0 .. Len(s)
        BY <1>1, <2>1 DEF Sound
      <4> QED  BY <4>1, NumbersAppend
    <3> QED  BY <1>1, <2>1, <3>1 DEF Sound, Nests
  <2>2. CASE n = Len(s) + 1
    <3>1. outs <= ins
      <4> HIDE DEF new, ins, outs
      <4> QED  BY <1>2, <1>3, <1>4 DEF Fits, Depth
    <3> QED  BY <2>2, <3>1
  <2> QED  BY <1>1, <2>1, <2>2
<1>8. Before(new, Len(s) + 1) = LastKind(s)
  <2>1. CASE s = <<>>
    BY <1>1, <2>1 DEF Before, LastKind
  <2>2. CASE s # <<>>
    <3>1. Len(s) \in 1 .. Len(s)
      BY <1>1, <2>2, EmptySeq DEF Sound, IsSeq
    <3> HIDE DEF new
    <3> QED  BY <1>1, <2>2, <3>1 DEF Before, LastKind
  <2> QED  BY <2>1, <2>2
<1>9. FormsLines(new)
  <2> SUFFICES ASSUME NEW n \in 1 .. Len(s) + 1
               PROVE  /\ new[n].kind = "indent" => Before(new, n) = "newline"
                      /\ new[n].kind \in {"dedent", "eof"} =>
                            Before(new, n) \in {"newline", "dedent"}
                      /\ new[n].kind = "newline" => n > 1 /\ Before(new, n) \notin Layouts
    BY <1>1 DEF FormsLines
  <2> HIDE DEF new
  <2>1. CASE n \in 1 .. Len(s)
    <3>1. new[n] = s[n] /\ Before(new, n) = Before(s, n)
      BY <1>1, <2>1 DEF Before
    <3> QED  BY <1>1, <2>1, <3>1 DEF Sound, FormsLines
  <2>2. CASE n = Len(s) + 1
    <3>1. e.kind = "newline" => n > 1
      <4>1. e.kind = "newline" => s # <<>>
        BY DEF Fits, LastKind, Layouts
      <4>2. s # <<>> => Len(s) # 0
        BY EmptySeq DEF Sound, IsSeq
      <4> QED  BY <1>1, <2>2, <4>1, <4>2
    <3> QED  BY <1>1, <1>8, <2>2, <3>1 DEF Fits
  <2> QED  BY <1>1, <2>1, <2>2
<1>10. LastKind(new) = e.kind
  BY <1>1 DEF LastKind
<1> QED  BY <1>1, <1>6, <1>7, <1>9, <1>10 DEF Sound
(* As many dedents as there are blocks to close. *)
LEMMA ManyDedents ==
    ASSUME NEW s, Sound(s), LastKind(s) \in {"newline", "dedent"},
           NEW t, IsSeq(t), Len(t) <= Depth(s), \A k \in 1 .. Len(t) : t[k].kind = "dedent"
    PROVE  /\ Sound(s \o t)
           /\ Depth(s \o t) = Depth(s) - Len(t)
           /\ LastKind(s \o t) \in {"newline", "dedent"}
<1> DEFINE new == s \o t
           L == Len(s)
           to == L + Len(t)
<1>1. /\ L \in Nat /\ Len(t) \in Nat /\ DOMAIN s = 1 .. L
      /\ IsSeq(new) /\ Len(new) = to /\ DOMAIN new = 1 .. to
      /\ \A k \in 1 .. L : new[k] = s[k]
      /\ \A k \in L + 1 .. to : new[k] = t[k - L]
  BY SeqShape, ConcatSeq DEF Sound
<1>2. \A k \in L + 1 .. to : new[k].kind = "dedent"
  <2> HIDE DEF new
  <2> QED  BY <1>1
<1> HIDE DEF new
<1>3. ASSUME NEW kind, NEW n \in 0 .. L
      PROVE  Number(new, kind, n) = Number(s, kind, n)
  <2>1. \A k \in 1 .. n : k \in OfKind(new, kind) <=> k \in OfKind(s, kind)
    BY <1>1 DEF OfKind
  <2> QED  BY <1>1, <2>1, HowManySame DEF Number
<1>4. ASSUME NEW n \in L .. to
      PROVE  /\ Number(new, "dedent", n) = Number(s, "dedent", L) + (n - L)
             /\ Number(new, "indent", n) = Number(s, "indent", L)
  <2>1. \A k \in L + 1 .. n : k \in OfKind(new, "dedent") /\ k \notin OfKind(new, "indent")
    BY <1>1, <1>2 DEF OfKind
  <2>2. n \in Nat /\ L <= n /\ L \in 0 .. L
    BY <1>1
  <2>3. /\ HowMany(OfKind(new, "dedent"), n) = HowMany(OfKind(new, "dedent"), L) + (n - L)
        /\ HowMany(OfKind(new, "indent"), n) = HowMany(OfKind(new, "indent"), L)
    <3> HIDE DEF L
    <3> QED  BY <1>1, <2>1, <2>2, HowManyInRun, HowManyPastRun
  <2> QED  BY <1>3, <2>2, <2>3 DEF Number
<1>5. Number(s, "indent", L) \in Nat /\ Number(s, "dedent", L) \in Nat
  BY <1>1, NumbersAreNat DEF Sound
<1>6. Len(t) <= Number(s, "indent", L) - Number(s, "dedent", L)
  BY DEF Depth
<1>7. Nests(new)
  <2> SUFFICES ASSUME NEW n \in 1 .. to
               PROVE  Number(new, "dedent", n) <= Number(new, "indent", n)
    BY <1>1 DEF Nests
  <2>1. CASE n \in 1 .. L
    <3>1. n \in 0 .. L
      BY <2>1
    <3>2. /\ Number(new, "dedent", n) = Number(s, "dedent", n)
          /\ Number(new, "indent", n) = Number(s, "indent", n)
      BY <1>3, <3>1
    <3> QED  BY <1>1, <2>1, <3>2 DEF Sound, Nests
  <2>2. CASE n \in L .. to
    <3>1. n - L <= Len(t)
      BY <1>1, <2>2
    <3> HIDE DEF L, to
    <3> QED  BY <1>1, <1>4, <1>5, <1>6, <2>2, <3>1
  <2> QED  BY <1>1, <2>1, <2>2
<1>8. FormsLines(new)
  <2> SUFFICES ASSUME NEW n \in 1 .. to
               PROVE  /\ new[n].kind = "indent" => Before(new, n) = "newline"
                      /\ new[n].kind \in {"dedent", "eof"} =>
                            Before(new, n) \in {"newline", "dedent"}
                      /\ new[n].kind = "newline" => n > 1 /\ Before(new, n) \notin Layouts
    BY <1>1 DEF FormsLines
  <2>1. CASE n \in 1 .. L
    <3>1. new[n] = s[n] /\ Before(new, n) = Before(s, n)
      BY <1>1, <2>1 DEF Before
    <3> QED  BY <1>1, <2>1, <3>1 DEF Sound, FormsLines
  <2>2. CASE n = L + 1
    <3>1. Before(new, n) = LastKind(s)
      <4>1. s = <<>> <=> L = 0
        BY EmptySeq DEF Sound, IsSeq
      <4> QED  BY <1>1, <2>2, <4>1 DEF Before, LastKind
    <3> QED  BY <1>2, <2>2, <3>1
  <2>3. CASE n \in L + 2 .. to
    <3>1. n # 1 /\ n - 1 \in L + 1 .. to /\ n \in L + 1 .. to
      BY <1>1, <2>3
    <3>2. Before(new, n) = "dedent" /\ new[n].kind = "dedent"
      BY <1>2, <3>1 DEF Before
    <3> QED  BY <3>2
  <2> QED  BY <1>1, <2>1, <2>2, <2>3
<1>9. Depth(new) = Depth(s) - Len(t)
  <2>1. to \in L .. to
    BY <1>1
  <2>2. /\ Number(new, "dedent", to) = Number(s, "dedent", L) + (to - L)
        /\ Number(new, "indent", to) = Number(s, "indent", L)
    BY <1>4, <2>1
  <2> QED  BY <1>1, <1>5, <2>2 DEF Depth
<1>10. LastKind(new) \in {"newline", "dedent"}
  <2>1. CASE Len(t) = 0
    <3>1. new = s
      <4>1. t = <<>>
        BY <2>1, EmptySeq DEF IsSeq
      <4> QED  BY <4>1, ConcatEmptySeq DEF new, Sound, IsSeq
    <3> QED  BY <3>1
  <2>2. CASE Len(t) # 0
    <3>1. to \in L + 1 .. to /\ to # 0
      BY <1>1, <2>2
    <3>2. new # <<>>
      BY <1>1, <3>1
    <3> QED  BY <1>1, <1>2, <3>1, <3>2 DEF LastKind
  <2> QED  BY <2>1, <2>2
<1> QED  BY <1>1, <1>7, <1>8, <1>9, <1>10 DEF new, Sound

-----------------------------------------------------------------------------
(* The stack of widths *)

IsStack(st) ==
    /\ st \in Seq(Nat) /\ st # <<>>
    /\ st[1] = 0
    /\ \A k, l \in DOMAIN st : k < l => st[k] < st[l]

LEMMA StackGrows ==
    ASSUME NEW st, IsStack(st), NEW w \in Nat, w > Last(st)
    PROVE  IsStack(Append(st, w)) /\ Len(Append(st, w)) = Len(st) + 1
<1> DEFINE new == Append(st, w)
<1>1. /\ Len(st) \in Nat \ {0} /\ DOMAIN st = 1 .. Len(st)
      /\ new \in Seq(Nat) /\ Len(new) = Len(st) + 1 /\ DOMAIN new = 1 .. Len(st) + 1
      /\ \A k \in 1 .. Len(st) : st[k] \in Nat /\ new[k] = st[k]
      /\ new[Len(st) + 1] = w
  BY AppendProperties, EmptySeq DEF IsStack
<1>2. \A k \in 1 .. Len(st) : st[k] <= Last(st)
  BY <1>1 DEF IsStack, Last
<1>3. ASSUME NEW k \in 1 .. Len(st) + 1, NEW l \in 1 .. Len(st) + 1, k < l
      PROVE  new[k] < new[l]
  <2> HIDE DEF new
  <2>0. Last(st) \in Nat
    BY <1>1 DEF Last
  <2>1. CASE l \in 1 .. Len(st)
    <3>1. k \in DOMAIN st /\ l \in DOMAIN st /\ new[k] = st[k] /\ new[l] = st[l]
      BY <1>1, <1>3, <2>1
    <3> QED  BY <1>3, <3>1 DEF IsStack
  <2>2. CASE l = Len(st) + 1
    BY <1>1, <1>2, <1>3, <2>0, <2>2
  <2> QED  BY <1>1, <2>1, <2>2
<1> QED  BY <1>1, <1>3 DEF IsStack

LEMMA StackShrinks ==
    ASSUME IsStack(indents), NEW w \in Nat
    PROVE  /\ Kept(w) \in 1 .. Len(indents)
           /\ w = 0 => Kept(w) = 1
           /\ IsStack(SubSeq(indents, 1, Kept(w)))
           /\ Len(SubSeq(indents, 1, Kept(w))) = Kept(w)
<1> DEFINE K == {k \in DOMAIN indents : indents[k] <= w}
           n == Len(indents)
<1>1. /\ n \in Nat \ {0} /\ DOMAIN indents = 1 .. n
      /\ \A k \in 1 .. n : indents[k] \in Nat
  BY EmptySeq DEF IsStack
<1>2. K \in SUBSET (0 .. n) /\ 1 \in K
  BY <1>1 DEF IsStack
<1>3. Kept(w) \in K
  <2>1. Max(K) \in K
    <3> HIDE DEF K
    <3> QED  BY <1>1, <1>2, Greatest
  <2> QED  BY <2>1 DEF Kept
<1>4. Kept(w) \in 1 .. n
  BY <1>1, <1>3
<1>5. w = 0 => Kept(w) = 1
  <2> SUFFICES ASSUME w = 0, Kept(w) # 1 PROVE FALSE
    OBVIOUS
  <2>1. indents[1] < indents[Kept(w)]
    BY <1>1, <1>4 DEF IsStack
  <2> QED  BY <1>1, <1>3, <1>4, <2>1 DEF IsStack
<1> DEFINE k == Kept(w)
           new == SubSeq(indents, 1, k)
<1> HIDE DEF k, K
<1>6. k \in 1 .. n
  BY <1>4 DEF k
<1>7. /\ new \in Seq(Nat) /\ Len(new) = k /\ DOMAIN new = 1 .. k
      /\ \A m \in 1 .. k : new[m] = indents[m]
  <2>1. \A m \in 1 .. k : indents[m] \in Nat
    BY <1>1, <1>6
  <2>2. /\ new \in Seq(Nat)
        /\ Len(new) = IF 1 <= k THEN k - 1 + 1 ELSE 0
        /\ \A m \in 1 .. k - 1 + 1 : new[m] = indents[1 + m - 1]
    BY <1>6, <2>1, SubSeqProperties
  <2> QED  BY <1>6, <2>2
<1>8. IsStack(new)
  <2> HIDE DEF new
  <2>1. new # <<>>
    BY <1>6, <1>7
  <2> QED  BY <1>1, <1>6, <1>7, <2>1 DEF IsStack
<1> QED  BY <1>4, <1>5, <1>7, <1>8 DEF k
-----------------------------------------------------------------------------
(* The inductive invariant *)

Phases == {"lexing", "done", "tab", "dedent", "char"}
HasEof(s) == \E n \in DOMAIN s : s[n].kind = "eof"

(* A line of code that has begun has something on it. *)
LineBegun ==
    IF at_line_start THEN LastKind(toks) = "newline"
    ELSE LastKind(toks) \in Layouts => ~AtEnd(i) /\ ~At(i, {" ", "\t", "\n", "#"})

IInv ==
    /\ src \in Seq(STRING)
    /\ i \in 1 .. Len(src) + 1
    /\ at_line_start \in BOOLEAN
    /\ phase \in Phases
    /\ Sound(toks)
    /\ phase # "done" => ~HasEof(toks)
    /\ phase = "lexing" =>
          /\ IsStack(indents)
          /\ Depth(toks) = Len(indents) - 1
          /\ LineBegun
    /\ phase = "done" =>
          /\ Depth(toks) = 0
          /\ \A n \in DOMAIN toks : toks[n].kind = "eof" <=> n = Len(toks)

THEOREM InitEstablishes == Init => IInv
<1> SUFFICES ASSUME Init PROVE IInv
  OBVIOUS
<1>1. src \in Seq(STRING) /\ Len(src) \in Nat
  BY SourcesAreTexts DEF Init
<1>2. IsSeq(toks) /\ DOMAIN toks = {} /\ Len(toks) = 0
  BY EmptySeq DEF Init, IsSeq
<1>3. Sound(toks) /\ ~HasEof(toks)
  BY <1>2 DEF Sound, Nests, FormsLines, HasEof
<1>4. Depth(toks) = 0
  BY <1>2, HowManyOfNone DEF Depth, Number
<1>5. IsStack(indents) /\ Len(indents) = 1
  BY DEF Init, IsStack
<1> QED  BY <1>1, <1>3, <1>4, <1>5 DEF Init, IInv, LineBegun, LastKind, Phases

(* Of what follows, a token at a time. *)
LEMMA TokenFollows ==
    ASSUME IInv, phase = "lexing", NEW e, Fits(toks, e), e.kind # "eof",
           toks' = Append(toks, e)
    PROVE  /\ Sound(toks') /\ ~HasEof(toks') /\ LastKind(toks') = e.kind
           /\ e.kind = "indent" => Depth(toks') = Len(indents)
           /\ e.kind # "indent" /\ e.kind # "dedent" => Depth(toks') = Len(indents) - 1
<1>1. /\ Sound(toks') /\ LastKind(toks') = e.kind
      /\ e.kind = "indent" => Depth(toks') = Depth(toks) + 1
      /\ e.kind # "indent" /\ e.kind # "dedent" => Depth(toks') = Depth(toks)
  BY OneMore DEF IInv
<1>2. ~HasEof(toks')
  BY AppendSeq, SeqShape DEF IInv, Sound, HasEof
<1>3. Depth(toks) = Len(indents) - 1 /\ Len(indents) \in Nat
  BY DEF IInv, IsStack
<1> QED  BY <1>1, <1>2, <1>3

LEMMA FailPreserves ==
    ASSUME IInv, phase = "lexing", NEW error \in {"tab", "dedent", "char"}, Fail(error)
    PROVE  IInv'
BY DEF IInv, Fail, Phases
LEMMA DedentsAre ==
    ASSUME NEW n \in Nat
    PROVE  /\ IsSeq(Dedents(n)) /\ Len(Dedents(n)) = n
           /\ \A m \in 1 .. n : Dedents(n)[m].kind = "dedent"
<1> DEFINE e == Layout("dedent")
<1>1. Dedents(n) = [k \in 1 .. n |-> e]
  BY DEF Dedents
<1>2. e.kind = "dedent"
  BY DEF Layout, Token
<1> HIDE DEF e
<1>3. Dedents(n) \in Seq({e}) /\ Len(Dedents(n)) = n
  BY <1>1
<1> QED  BY <1>1, <1>2, <1>3, OwnSeq

LEMMA TokenLines == \A kind, text : Token(kind, text).line = line
BY DEF Token

LEMMA DedentsAreStamped ==
    ASSUME NEW n \in Nat
    PROVE  \A m \in 1 .. n : Dedents(n)[m].line = line
<1>1. Layout("dedent").line = line
  BY TokenLines DEF Layout
<1> QED  BY <1>1 DEF Dedents

LEMMA DedentsAreNoEof ==
    ASSUME NEW s, IsSeq(s), ~HasEof(s),
           NEW t, IsSeq(t), \A m \in 1 .. Len(t) : t[m].kind = "dedent"
    PROVE  ~HasEof(s \o t)
<1>1. /\ Len(s) \in Nat /\ Len(t) \in Nat
      /\ DOMAIN s = 1 .. Len(s) /\ DOMAIN (s \o t) = 1 .. Len(s) + Len(t)
      /\ \A k \in 1 .. Len(s) : (s \o t)[k] = s[k]
      /\ \A k \in Len(s) + 1 .. Len(s) + Len(t) : (s \o t)[k] = t[k - Len(s)]
  BY SeqShape, ConcatSeq
<1> DEFINE new == s \o t
<1> SUFFICES ASSUME NEW n \in 1 .. Len(s) + Len(t) PROVE new[n].kind # "eof"
  BY <1>1 DEF HasEof
<1> HIDE DEF new
<1>2. CASE n \in 1 .. Len(s)
  BY <1>1, <1>2 DEF HasEof, new
<1>3. CASE n \in Len(s) + 1 .. Len(s) + Len(t)
  <2>1. n - Len(s) \in 1 .. Len(t)
    BY <1>1, <1>3
  <2>2. new[n] = t[n - Len(s)]
    BY <1>1, <1>3 DEF new
  <2> QED  BY <2>1, <2>2
<1> QED  BY <1>1, <1>2, <1>3

LEMMA SkipPreserves ==
    ASSUME IInv, phase = "lexing",
           UNCHANGED <<src, indents, at_line_start, toks, phase>>,
           i' \in 1 .. Len(src) + 1, at_line_start \/ LastKind(toks) \notin Layouts
    PROVE  IInv'
BY DEF IInv, LineBegun

LEMMA TokenKinds == \A kind, text : Token(kind, text).kind = kind
BY DEF Token

LEMMA InRange ==
    ASSUME NEW n \in Nat, NEW j \in 1 .. n, NEW k \in j .. n
    PROVE  k \in 1 .. n /\ j <= k /\ k - j \in Nat
OBVIOUS

(* Where the spaces of a line end. *)
LEMMA MarginIs ==
    ASSUME IInv, LineStart
    PROVE  /\ Margin \in 1 .. Len(src) + 1 /\ i <= Margin /\ Width \in Nat
           /\ ~At(Margin, {" "})
           /\ \A m \in i .. Margin - 1 : m \in 1 .. Len(src) /\ src[m] = " "
<1>1. Len(src) + 1 \in Nat /\ i \in 1 .. Len(src) + 1
  BY DEF IInv
<1>2. After({" "}, i) \in i .. Len(src) + 1
  BY AfterStops DEF IInv
<1>3. /\ ~At(After({" "}, i), {" "})
      /\ \A m \in i .. After({" "}, i) - 1 : m \in 1 .. Len(src) /\ src[m] \in {" "}
  BY AfterStops DEF IInv
<1>4. /\ After({" "}, i) \in 1 .. Len(src) + 1 /\ i <= After({" "}, i)
      /\ After({" "}, i) - i \in Nat
  BY <1>1, <1>2, InRange
<1> QED  BY <1>3, <1>4 DEF Margin, Width

LEMMA NextNewlineIs ==
    ASSUME IInv, NEW j \in 1 .. Len(src) + 1
    PROVE  /\ NextNewline(j) \in 1 .. Len(src) + 1 /\ j <= NextNewline(j)
           /\ ~AtEnd(NextNewline(j)) => src[NextNewline(j)] = "\n"
           /\ \A m \in j .. NextNewline(j) - 1 : m \in 1 .. Len(src) /\ src[m] # "\n"
<1> DEFINE S == Range(src) \ {"\n"}
           k == NextNewline(j)
<1>1. Len(src) \in Nat /\ DOMAIN src = 1 .. Len(src)
  BY DEF IInv
<1>2. /\ k \in j .. Len(src) + 1
      /\ ~At(k, S)
      /\ \A m \in j .. k - 1 : m \in 1 .. Len(src) /\ src[m] \in S
  BY AfterStops DEF IInv, NextNewline
<1> HIDE DEF k
<1>3. ~AtEnd(k) => src[k] \in Range(src)
  BY <1>1, <1>2 DEF AtEnd, Range
<1>4. ~AtEnd(k) => src[k] = "\n"
  BY <1>2, <1>3 DEF At
<1> QED  BY <1>1, <1>2, <1>4 DEF k

LEMMA LineStartPreserves ==
    ASSUME IInv, SkipLine \/ TabInIndent
    PROVE  IInv'
<1>1. CASE TabInIndent
  BY <1>1, FailPreserves DEF TabInIndent, LineStart
<1>2. CASE SkipLine
  <2> DEFINE end == NextNewline(Margin)
  <2>1. LineStart
    BY <1>2 DEF SkipLine
  <2>2. end \in 1 .. Len(src) + 1
    BY <2>1, MarginIs, NextNewlineIs
  <2>3. i' \in 1 .. Len(src) + 1
    BY <1>2, <2>2 DEF SkipLine, AtEnd, IInv
  <2> QED  BY <1>2, <2>1, <2>3, SkipPreserves DEF SkipLine, LineStart
<1> QED  BY <1>1, <1>2

(* What a line of code begins with. *)
LEMMA CodeIsThere ==
    ASSUME IInv, CodeStarts
    PROVE  ~AtEnd(Margin) /\ ~At(Margin, {" ", "\t", "\n", "#"})
BY MarginIs DEF CodeStarts, Useless, At

LEMMA IndentPreserves ==
    ASSUME IInv, Indent
    PROVE  IInv'
<1>1. LineStart /\ phase = "lexing" /\ at_line_start
  BY DEF Indent, CodeStarts, LineStart
<1>2. LastKind(toks) = "newline" /\ IsStack(indents)
  BY <1>1 DEF IInv, LineBegun
<1> DEFINE e == Layout("indent")
<1>3. e.kind = "indent"
  BY TokenKinds DEF Layout
<1>4. toks' = Append(toks, e) /\ Fits(toks, e)
  BY <1>2, <1>3 DEF Indent, Fits
<1> HIDE DEF e
<1>5. Sound(toks') /\ ~HasEof(toks') /\ Depth(toks') = Len(indents)
  BY <1>1, <1>3, <1>4, TokenFollows
<1>6. IsStack(indents') /\ Len(indents') = Len(indents) + 1 /\ Len(indents) \in Nat
  <2>1. Width \in Nat /\ Width > Last(indents) /\ indents' = Append(indents, Width)
    BY <1>1, MarginIs DEF Indent
  <2>2. Len(indents) \in Nat
    BY <1>2 DEF IsStack
  <2> QED  BY <1>2, <2>1, <2>2, StackGrows
<1>7. i' = Margin /\ src' = src /\ ~at_line_start' /\ at_line_start' \in BOOLEAN /\ phase' = phase
  BY DEF Indent
<1>8. LineBegun'
  <2>1. ~AtEnd(Margin) /\ ~At(Margin, {" ", "\t", "\n", "#"})
    BY CodeIsThere DEF Indent
  <2> QED  BY <1>7, <2>1 DEF LineBegun, AtEnd, At
<1>9. i' \in 1 .. Len(src') + 1
  BY <1>1, <1>7, MarginIs
<1> QED  BY <1>1, <1>5, <1>6, <1>7, <1>8, <1>9 DEF IInv

LEMMA DedentPreserves ==
    ASSUME IInv, Dedent
    PROVE  IInv'
<1>1. LineStart /\ phase = "lexing" /\ at_line_start
  BY DEF Dedent, CodeStarts, LineStart
<1>2. LastKind(toks) = "newline" /\ IsStack(indents) /\ Depth(toks) = Len(indents) - 1
  BY <1>1 DEF IInv, LineBegun
<1> DEFINE k == Kept(Width)
           t == Dedents(Len(indents) - k)
<1>3. /\ k \in 1 .. Len(indents) /\ Len(indents) \in Nat
      /\ IsStack(SubSeq(indents, 1, k)) /\ Len(SubSeq(indents, 1, k)) = k
  <2>1. Width \in Nat
    BY <1>1, MarginIs
  <2>2. Len(indents) \in Nat
    BY <1>2 DEF IsStack
  <2> QED  BY <1>2, <2>1, <2>2, StackShrinks
<1>4. /\ toks' = toks \o t /\ indents' = SubSeq(indents, 1, k)
      /\ i' = Margin /\ src' = src
  BY DEF Dedent
<1>5. \/ phase' = "lexing" /\ at_line_start' \in BOOLEAN /\ ~at_line_start'
      \/ phase' = "dedent" /\ at_line_start' \in BOOLEAN
  BY <1>1 DEF Dedent, IInv
<1> HIDE DEF k
<1>6. IsSeq(t) /\ Len(t) = Len(indents) - k /\ \A m \in 1 .. Len(t) : t[m].kind = "dedent"
  BY <1>3, DedentsAre
<1>7. Sound(toks) /\ ~HasEof(toks)
  BY <1>1 DEF IInv
<1> HIDE DEF t
<1>8. Sound(toks') /\ Depth(toks') = k - 1
  BY <1>2, <1>3, <1>4, <1>6, <1>7, ManyDedents
<1>9. ~HasEof(toks')
  BY <1>4, <1>6, <1>7, DedentsAreNoEof DEF Sound
<1>10. ~at_line_start' => LineBegun'
  <2>1. ~AtEnd(Margin) /\ ~At(Margin, {" ", "\t", "\n", "#"})
    BY CodeIsThere DEF Dedent
  <2> QED  BY <1>4, <2>1 DEF LineBegun, AtEnd, At
<1>11. i' \in 1 .. Len(src') + 1
  BY <1>1, <1>4, MarginIs
<1>12. src' \in Seq(STRING)
  BY <1>4 DEF IInv
<1>13. CASE phase' = "lexing" /\ ~at_line_start'
  BY <1>3, <1>4, <1>5, <1>8, <1>9, <1>10, <1>11, <1>12, <1>13 DEF IInv, Phases
<1>14. CASE phase' = "dedent"
  BY <1>5, <1>8, <1>9, <1>11, <1>12, <1>14 DEF IInv, Phases
<1> QED  BY <1>5, <1>13, <1>14

LEMMA InsidePreserves ==
    ASSUME IInv, SkipSpace \/ SkipComment \/ BadChar
    PROVE  IInv'
<1>1. Inside
  BY DEF SkipSpace, SkipComment, BadChar
<1>2. phase = "lexing" /\ ~at_line_start /\ Len(src) \in Nat /\ i \in 1 .. Len(src)
  BY <1>1 DEF Inside, AtEnd, IInv
<1>3. CASE SkipSpace
  <2>1. LastKind(toks) \notin Layouts
    BY <1>2, <1>3 DEF SkipSpace, IInv, LineBegun, At
  <2>2. i' \in 1 .. Len(src) + 1
    <3>1. i' = i + 1
      BY <1>3 DEF SkipSpace
    <3> QED  BY <1>2, <3>1
  <2> QED  BY <1>2, <1>3, <2>1, <2>2, SkipPreserves DEF SkipSpace
<1>4. CASE SkipComment
  <2>1. LastKind(toks) \notin Layouts
    BY <1>2, <1>4 DEF SkipComment, IInv, LineBegun, At
  <2>2. i \in 1 .. Len(src) + 1
    BY <1>2
  <2>3. i' \in 1 .. Len(src) + 1
    BY <1>4, <2>2, NextNewlineIs DEF SkipComment
  <2> QED  BY <1>2, <1>4, <2>1, <2>3, SkipPreserves DEF SkipComment
<1>5. CASE BadChar
  BY <1>2, <1>5, FailPreserves DEF BadChar
<1> QED  BY <1>3, <1>4, <1>5

LEMMA NewlinePreserves ==
    ASSUME IInv, Newline
    PROVE  IInv'
<1>1. /\ phase = "lexing" /\ ~at_line_start /\ Len(src) \in Nat /\ i \in 1 .. Len(src)
      /\ At(i, {"\n"})
  BY DEF Newline, Inside, AtEnd, IInv
<1>2. LastKind(toks) \notin Layouts
  BY <1>1 DEF IInv, LineBegun, At
<1> DEFINE e == Layout("newline")
<1>3. e.kind = "newline"
  BY TokenKinds DEF Layout
<1>4. toks' = Append(toks, e) /\ Fits(toks, e)
  BY <1>2, <1>3 DEF Newline, Fits
<1> HIDE DEF e
<1>5. /\ Sound(toks') /\ ~HasEof(toks') /\ Depth(toks') = Len(indents) - 1
      /\ LastKind(toks') = "newline"
  BY <1>1, <1>3, <1>4, TokenFollows
<1>6. UNCHANGED <<src, indents, phase>> /\ at_line_start' = TRUE /\ i' \in 1 .. Len(src) + 1
  BY <1>1 DEF Newline
<1>7. LineBegun'
  BY <1>5, <1>6 DEF LineBegun
<1> QED  BY <1>1, <1>5, <1>6, <1>7 DEF IInv

LEMMA TakePreserves ==
    ASSUME IInv, Inside, NEW kind, kind \notin Layouts \cup {"eof"}, NEW text,
           NEW end \in 1 .. Len(src) + 1, Take(kind, text, end)
    PROVE  IInv'
<1>1. phase = "lexing" /\ ~at_line_start
  BY DEF Inside
<1> DEFINE e == Token(kind, text)
<1>2. e.kind = kind
  BY TokenKinds
<1>3. toks' = Append(toks, e) /\ Fits(toks, e)
  BY <1>2 DEF Take, Fits, Layouts
<1> HIDE DEF e
<1>4. /\ Sound(toks') /\ ~HasEof(toks') /\ Depth(toks') = Len(indents) - 1
      /\ LastKind(toks') = kind
  BY <1>1, <1>2, <1>3, TokenFollows DEF Layouts
<1>5. UNCHANGED <<src, indents, at_line_start, phase>> /\ i' = end
  BY DEF Take
<1>6. LineBegun'
  BY <1>1, <1>4, <1>5 DEF LineBegun
<1> QED  BY <1>1, <1>4, <1>5, <1>6 DEF IInv

(* A loop that starts on a character it skips moves. *)
LEMMA AfterMoves ==
    ASSUME IInv, NEW S, At(i, S)
    PROVE  After(S, i) \in 1 .. Len(src) + 1 /\ i < After(S, i)
<1>1. Len(src) + 1 \in Nat /\ i \in 1 .. Len(src) + 1
  BY DEF IInv
<1>2. After(S, i) \in i .. Len(src) + 1 /\ ~At(After(S, i), S)
  BY AfterStops DEF IInv
<1>3. After(S, i) # i
  BY <1>2
<1> QED  BY <1>1, <1>2, <1>3, InRange

LEMMA WordsPreserve ==
    ASSUME IInv, Word \/ Integer \/ Operator
    PROVE  IInv' /\ i < i'
<1>1. Inside
  BY DEF Word, Integer, Operator
<1>2. Len(src) \in Nat /\ i \in 1 .. Len(src)
  BY <1>1 DEF Inside, AtEnd, IInv
<1>3. CASE Word
  <2> DEFINE end == After(IdentPart, i)
             word == SubSeq(src, i, end - 1)
             kind == IF word \in DOMAIN Keyword THEN Keyword[word] ELSE "ident"
  <2>1. At(i, IdentPart)
    BY <1>3 DEF Word, At, IdentPart
  <2>2. end \in 1 .. Len(src) + 1 /\ i < end
    BY <2>1, AfterMoves
  <2>3. kind \notin Layouts \cup {"eof"}
    BY KeywordsAreNoLayout DEF Layouts
  <2>4. Take(kind, word, end)
    BY <1>3 DEF Word
  <2>5. i' = end
    BY <2>4 DEF Take
  <2> HIDE DEF kind, end, word
  <2> QED  BY <1>1, <2>2, <2>3, <2>4, <2>5, TakePreserves
<1>4. CASE Integer
  <2> DEFINE end == After(DOMAIN Digit, i)
             text == SubSeq(src, i, end - 1)
  <2>1. end \in 1 .. Len(src) + 1 /\ i < end
    BY <1>4, AfterMoves DEF Integer
  <2>2. Take("integer", text, end)
    BY <1>4 DEF Integer
  <2>3. i' = end
    BY <2>2 DEF Take
  <2> HIDE DEF end, text
  <2>4. "integer" \notin Layouts \cup {"eof"}
    BY DEF Layouts
  <2> QED  BY <1>1, <2>1, <2>2, <2>3, <2>4, TakePreserves
<1>5. CASE Operator /\ TakeTwo
  <2> DEFINE kind == TwoChar[Ahead]
  <2>1. TwoAhead /\ Take(kind, <<>>, i + 2)
    BY <1>5 DEF TakeTwo
  <2>2. kind \notin Layouts \cup {"eof"}
    BY <2>1 DEF TwoAhead, TwoChar, Layouts
  <2>3. i + 2 \in 1 .. Len(src) + 1 /\ i < i + 2
    BY <1>2, <2>1 DEF TwoAhead, AtEnd
  <2>4. i' = i + 2
    BY <2>1 DEF Take
  <2> HIDE DEF kind
  <2> QED  BY <1>1, <2>1, <2>2, <2>3, <2>4, TakePreserves
<1>6. CASE Operator /\ TakeOne
  <2>1. At(i, OneChar) /\ Take(src[i], <<>>, i + 1)
    BY <1>6 DEF TakeOne
  <2>2. src[i] \notin Layouts \cup {"eof"}
    BY <2>1 DEF At, OneChar, Layouts
  <2>3. i + 1 \in 1 .. Len(src) + 1 /\ i < i + 1
    BY <1>2
  <2>4. i' = i + 1
    BY <2>1 DEF Take
  <2> QED  BY <1>1, <2>1, <2>2, <2>3, <2>4, TakePreserves
<1> QED  BY <1>3, <1>4, <1>5, <1>6 DEF Operator

LEMMA FinishPreserves ==
    ASSUME IInv, Finish
    PROVE  IInv'
<1>1. phase = "lexing" /\ AtEnd(i)
  BY DEF Finish
<1>2. Sound(toks) /\ ~HasEof(toks) /\ IsStack(indents) /\ Depth(toks) = Len(indents) - 1
  BY <1>1 DEF IInv
<1> DEFINE ended == toks \o Closing
           d == Len(indents) - Kept(0)
           closed == ended \o Dedents(d)
           eof == Layout("eof")
<1>3. /\ Sound(ended) /\ ~HasEof(ended) /\ Depth(ended) = Len(indents) - 1
      /\ LastKind(ended) = "newline"
  <2>1. CASE at_line_start
    <3>1. ended = toks
      BY <1>2, <2>1, ConcatEmptySeq DEF Closing, Sound, IsSeq
    <3> QED  BY <1>1, <1>2, <2>1, <3>1 DEF IInv, LineBegun
  <2>2. CASE ~at_line_start
    <3> DEFINE e == Layout("newline")
    <3>1. e.kind = "newline"
      BY TokenKinds DEF Layout
    <3>2. LastKind(toks) \notin Layouts
      BY <1>1, <2>2 DEF IInv, LineBegun
    <3>3. Fits(toks, e)
      BY <3>1, <3>2 DEF Fits
    <3>4. ended = Append(toks, e)
      BY <1>2, <2>2, AppendIsOneMore DEF Closing, Sound
    <3> HIDE DEF e, ended
    <3>5. /\ Sound(ended) /\ LastKind(ended) = "newline" /\ Depth(ended) = Depth(toks)
      BY <1>2, <3>1, <3>3, <3>4, OneMore
    <3>6. ~HasEof(ended)
      BY <1>2, <3>1, <3>4, AppendSeq, SeqShape DEF Sound, HasEof
    <3> QED  BY <1>2, <3>5, <3>6
  <2> QED  BY <2>1, <2>2
<1>4. Len(indents) \in Nat /\ Kept(0) = 1 /\ d \in Nat /\ d = Len(indents) - 1
  <2>1. Len(indents) \in Nat \ {0}
    BY <1>2, EmptySeq DEF IsStack
  <2>2. Kept(0) = 1
    BY <1>2, StackShrinks, 0 \in Nat
  <2> QED  BY <2>1, <2>2
<1>5. IsSeq(Dedents(d)) /\ Len(Dedents(d)) = d /\ \A m \in 1 .. d : Dedents(d)[m].kind = "dedent"
  BY <1>4, DedentsAre
<1>6. Sound(closed) /\ Depth(closed) = 0 /\ LastKind(closed) \in {"newline", "dedent"}
  <2> HIDE DEF ended, d
  <2> QED  BY <1>3, <1>4, <1>5, ManyDedents
<1>7. ~HasEof(closed)
  <2> HIDE DEF ended, d
  <2> QED  BY <1>3, <1>5, DedentsAreNoEof DEF Sound
<1>8. eof.kind = "eof"
  BY TokenKinds DEF Layout
<1>9. toks' = Append(closed, eof)
  <2>1. toks' = closed \o <<eof>>
    BY DEF Finish
  <2> HIDE DEF closed, eof
  <2> QED  BY <1>6, <2>1, AppendIsOneMore DEF Sound
<1> HIDE DEF closed, eof
<1>10. Sound(toks') /\ Depth(toks') = 0
  <2>1. Fits(closed, eof)
    BY <1>6, <1>8 DEF Fits
  <2> QED  BY <1>6, <1>8, <1>9, <2>1, OneMore
<1>11. \A n \in DOMAIN toks' : toks'[n].kind = "eof" <=> n = Len(toks')
  <2>1. /\ DOMAIN toks' = 1 .. Len(closed) + 1 /\ Len(toks') = Len(closed) + 1
        /\ Len(closed) \in Nat /\ DOMAIN closed = 1 .. Len(closed)
        /\ \A n \in 1 .. Len(closed) : toks'[n] = closed[n]
        /\ toks'[Len(closed) + 1] = eof
    BY <1>6, <1>9, AppendSeq, SeqShape DEF Sound
  <2> QED  BY <1>7, <1>8, <2>1 DEF HasEof
<1>12. phase' = "done" /\ UNCHANGED <<src, i, at_line_start>>
  BY DEF Finish
<1> QED  BY <1>10, <1>11, <1>12 DEF IInv, Phases

THEOREM NextPreserves == IInv /\ [Next]_vars => IInv'
<1> SUFFICES ASSUME IInv, [Next]_vars PROVE IInv'
  OBVIOUS
<1>1. CASE TabInIndent \/ SkipLine
  BY <1>1, LineStartPreserves
<1>2. CASE Indent
  BY <1>2, IndentPreserves
<1>3. CASE Dedent
  BY <1>3, DedentPreserves
<1>4. CASE SkipSpace \/ SkipComment \/ BadChar
  BY <1>4, InsidePreserves
<1>5. CASE Newline
  BY <1>5, NewlinePreserves
<1>6. CASE Word \/ Integer \/ Operator
  BY <1>6, WordsPreserve
<1>7. CASE Finish
  BY <1>7, FinishPreserves
<1>8. CASE UNCHANGED vars
  BY <1>8 DEF vars, IInv, LineBegun, AtEnd, At
<1> QED  BY <1>1, <1>2, <1>3, <1>4, <1>5, <1>6, <1>7, <1>8 DEF Next

-----------------------------------------------------------------------------
(* The theorems *)

LEMMA CountIsNumber ==
    ASSUME IsSeq(toks), NEW kind, NEW n \in 0 .. Len(toks)
    PROVE  Count(kind, n) = Number(toks, kind, n)
<1>1. DOMAIN toks = 1 .. Len(toks) /\ Len(toks) \in Nat
  BY SeqShape
<1>2. {k \in 1 .. n : toks[k].kind = kind} = {k \in 1 .. n : k \in OfKind(toks, kind)}
  BY <1>1 DEF OfKind
<1> QED  BY <1>2 DEF Count, Number, HowMany

LEMMA InvariantImplies == IInv => StreamWellFormed
<1> SUFFICES ASSUME IInv PROVE StreamWellFormed
  OBVIOUS
<1>1. IsSeq(toks) /\ DOMAIN toks = 1 .. Len(toks) /\ Len(toks) \in Nat
  BY SeqShape DEF IInv, Sound
<1>2. \A n \in DOMAIN toks : Count("dedent", n) <= Count("indent", n)
  <2>1. \A n \in DOMAIN toks : n \in 0 .. Len(toks)
    BY <1>1
  <2> QED  BY <1>1, <2>1, CountIsNumber DEF IInv, Sound, Nests
<1>3. DepthAt(Len(toks)) = Depth(toks)
  <2>1. Len(toks) \in 0 .. Len(toks)
    BY <1>1
  <2> QED  BY <1>1, <2>1, CountIsNumber DEF DepthAt, Depth
<1>4. Balanced
  BY <1>2, <1>3 DEF Balanced, IInv
<1>5. WholeLines
  BY DEF WholeLines, IInv, Sound, FormsLines, Before, Layouts
<1> QED  BY <1>4, <1>5 DEF StreamWellFormed

(* Whatever the source, the stream that the parser gets nests, is made of  *)
(* whole lines and ends once: the two stacks of lexer and parser cannot    *)
(* disagree (lexer.cc:74-113, 246-254).                                    *)
THEOREM StreamsAreWellFormed == Spec => []StreamWellFormed
<1>1. Spec => []IInv
  BY InitEstablishes, NextPreserves, PTL DEF Spec
<1> QED  BY <1>1, InvariantImplies, PTL
-----------------------------------------------------------------------------
(* The line counter *)

Newlines == {k \in DOMAIN src : src[k] = "\n"}
LineInv == IInv /\ line = 1 + HowMany(Newlines, i - 1)

LEMMA LineInvIsTrue == IInv => (LineIsTrue <=> line = 1 + HowMany(Newlines, i - 1))
<1> SUFFICES ASSUME IInv
             PROVE  {k \in 1 .. i - 1 : src[k] = "\n"} = {k \in 1 .. i - 1 : k \in Newlines}
  BY DEF LineIsTrue, LineNumber, HowMany
<1>1. DOMAIN src = 1 .. Len(src) /\ Len(src) \in Nat /\ i \in 1 .. Len(src) + 1
  BY DEF IInv
<1> QED  BY <1>1 DEF Newlines

(* Over characters that are no newlines the counter stays as it is. *)
LEMMA NoNewlines ==
    ASSUME IInv, NEW to \in 1 .. Len(src) + 1, i <= to,
           \A k \in i .. to - 1 : src[k] # "\n"
    PROVE  HowMany(Newlines, to - 1) = HowMany(Newlines, i - 1)
<1>1. Len(src) \in Nat /\ i \in 1 .. Len(src) + 1
  BY DEF IInv
<1> DEFINE n == i - 1
           m == to - 1
<1>2. n \in Nat /\ m \in Nat /\ n <= m /\ n + 1 = i
  BY <1>1
<1>3. \A k \in n + 1 .. m : k \notin Newlines
  BY <1>2 DEF Newlines
<1> HIDE DEF n, m
<1>4. HowMany(Newlines, m) = HowMany(Newlines, n)
  BY <1>2, <1>3, HowManyPastRun
<1> QED  BY <1>4 DEF n, m

(* And one newline is one line. *)
LEMMA OneNewline ==
    ASSUME IInv, NEW at \in 1 .. Len(src), src[at] = "\n"
    PROVE  HowMany(Newlines, at) = HowMany(Newlines, at - 1) + 1
<1>1. Len(src) \in Nat /\ DOMAIN src = 1 .. Len(src)
  BY DEF IInv
<1> DEFINE n == at - 1
<1>2. n \in Nat /\ at \in Nat /\ n <= at /\ at - n = 1
  BY <1>1
<1>3. \A k \in n + 1 .. at : k \in Newlines
  BY <1>1 DEF Newlines
<1> HIDE DEF n
<1>4. HowMany(Newlines, at) = HowMany(Newlines, n) + (at - n)
  BY <1>2, <1>3, HowManyInRun
<1>5. HowMany(Newlines, n) \in Nat
  BY <1>2, HowManyIsNat
<1> QED  BY <1>2, <1>4, <1>5 DEF n

(* A step that moves within a line, or does not move, keeps the counter. *)
LEMMA WithinLine ==
    ASSUME LineInv, IInv', UNCHANGED <<src, line>>, i <= i',
           \A k \in i .. i' - 1 : src[k] # "\n"
    PROVE  LineInv'
<1>1. i' \in 1 .. Len(src) + 1
  BY DEF IInv
<1>2. HowMany(Newlines, i' - 1) = HowMany(Newlines, i - 1)
  BY <1>1, NoNewlines DEF LineInv
<1> QED  BY <1>2 DEF LineInv, Newlines

LEMMA LineInvPreserved == LineInv /\ [Next]_vars => LineInv'
<1> SUFFICES ASSUME LineInv, [Next]_vars PROVE LineInv'
  OBVIOUS
<1>1. IInv /\ IInv' /\ Len(src) \in Nat /\ i \in 1 .. Len(src) + 1
  BY NextPreserves DEF LineInv, IInv
<1>2. ASSUME UNCHANGED <<src, line, i>> PROVE LineInv'
  <2>1. \A k \in i .. i' - 1 : src[k] # "\n"
    BY <1>1, <1>2
  <2> QED  BY <1>1, <1>2, <2>1, WithinLine
<1>3. CASE TabInIndent \/ BadChar \/ Finish \/ UNCHANGED vars
  BY <1>2, <1>3 DEF TabInIndent, BadChar, Finish, Fail, vars
<1>4. CASE Indent \/ Dedent
  <2>1. LineStart /\ i' = Margin /\ UNCHANGED <<src, line>>
    BY <1>4 DEF Indent, Dedent, CodeStarts
  <2>2. \A k \in i .. i' - 1 : src[k] # "\n"
    BY <1>1, <2>1, MarginIs
  <2> QED  BY <1>1, <2>1, <2>2, MarginIs, WithinLine
<1>6. CASE SkipLine
  <2> DEFINE end == NextNewline(Margin)
  <2>1. LineStart /\ src' = src
    BY <1>6 DEF SkipLine
  <2>2. Margin \in 1 .. Len(src) + 1 /\ i <= Margin /\ \A k \in i .. Margin - 1 : src[k] # "\n"
    BY <1>1, <2>1, MarginIs
  <2>3. /\ end \in 1 .. Len(src) + 1 /\ Margin <= end
        /\ ~AtEnd(end) => src[end] = "\n"
        /\ \A k \in Margin .. end - 1 : src[k] # "\n"
    BY <1>1, <2>2, NextNewlineIs
  <2>4. i <= end /\ \A k \in i .. end - 1 : src[k] # "\n"
    <3> HIDE DEF end
    <3> QED  BY <1>1, <2>2, <2>3
  <2>5. HowMany(Newlines, end - 1) = HowMany(Newlines, i - 1)
    BY <1>1, <2>3, <2>4, NoNewlines
  <2>6. CASE AtEnd(end)
    BY <1>1, <1>6, <2>1, <2>5, <2>6 DEF SkipLine, LineInv, Newlines
  <2>7. CASE ~AtEnd(end)
    <3>1. i' = end + 1 /\ line' = line + 1
      BY <1>6, <2>7 DEF SkipLine
    <3>2. end \in 1 .. Len(src)
      BY <1>1, <2>3, <2>7 DEF AtEnd
    <3>3. HowMany(Newlines, end) = HowMany(Newlines, end - 1) + 1
      BY <1>1, <2>3, <2>7, <3>2, OneNewline
    <3>4. line = 1 + HowMany(Newlines, i - 1)
      BY DEF LineInv
    <3>5. i' - 1 = end /\ i - 1 \in Nat
      BY <1>1, <3>1, <3>2
    <3>6. HowMany(Newlines, i - 1) \in Nat
      BY <3>5, HowManyIsNat
    <3>7. line' = 1 + HowMany(Newlines, i' - 1)
      BY <2>5, <3>1, <3>3, <3>4, <3>5, <3>6
    <3> QED  BY <1>1, <2>1, <3>7 DEF LineInv, Newlines
  <2> QED  BY <2>6, <2>7
<1>7. CASE SkipSpace
  <2>1. i' = i + 1 /\ UNCHANGED <<src, line>> /\ src[i] # "\n"
    BY <1>7 DEF SkipSpace, At
  <2>2. i <= i' /\ \A k \in i .. i' - 1 : src[k] # "\n"
    BY <1>1, <2>1
  <2> QED  BY <1>1, <2>1, <2>2, WithinLine
<1>8. CASE SkipComment
  <2>1. i' = NextNewline(i) /\ UNCHANGED <<src, line>>
    BY <1>8 DEF SkipComment
  <2>2. i <= i' /\ \A k \in i .. i' - 1 : src[k] # "\n"
    BY <1>1, <2>1, NextNewlineIs
  <2> QED  BY <1>1, <2>1, <2>2, WithinLine
<1>9. CASE Newline
  <2>1. i' = i + 1 /\ line' = line + 1 /\ src' = src /\ src[i] = "\n" /\ i \in 1 .. Len(src)
    BY <1>1, <1>9 DEF Newline, At, AtEnd
  <2>2. HowMany(Newlines, i) = HowMany(Newlines, i - 1) + 1
    BY <1>1, <2>1, OneNewline
  <2>3. line = 1 + HowMany(Newlines, i - 1) /\ i' - 1 = i
    BY <1>1, <2>1 DEF LineInv
  <2>4. HowMany(Newlines, i - 1) \in Nat
    BY <1>1, HowManyIsNat, i - 1 \in Nat
  <2>5. line' = 1 + HowMany(Newlines, i' - 1)
    BY <2>1, <2>2, <2>3, <2>4
  <2> QED  BY <1>1, <2>1, <2>5 DEF LineInv, Newlines
<1>10. CASE Word \/ Integer
  <2>1. PICK S \in {IdentPart, DOMAIN Digit} :
             i' = After(S, i) /\ UNCHANGED <<src, line>>
    BY <1>10 DEF Word, Integer, Take
  <2>2. "\n" \notin S
    BY NewlineIsInNoWord DEF IdentPart
  <2>3. After(S, i) \in i .. Len(src) + 1 /\ \A k \in i .. After(S, i) - 1 : src[k] \in S
    BY <1>1, AfterStops DEF IInv
  <2>4. \A k \in i .. i' - 1 : src[k] # "\n"
    BY <2>1, <2>2, <2>3
  <2>5. i <= i'
    BY <1>1, <2>1, <2>3
  <2> QED  BY <1>1, <2>1, <2>4, <2>5, WithinLine
<1>11. CASE Operator
  <2>1. /\ \A k \in i .. i' - 1 : src[k] # "\n"
        /\ i <= i' /\ UNCHANGED <<src, line>>
    <3>1. CASE TakeOne
      <4>1. i' = i + 1 /\ UNCHANGED <<src, line>> /\ src[i] # "\n"
        BY <3>1 DEF TakeOne, Take, At, OneChar
      <4> QED  BY <1>1, <4>1
    <3>2. CASE TakeTwo
      <4>1. i' = i + 2 /\ UNCHANGED <<src, line>> /\ Ahead \in DOMAIN TwoChar
        BY <3>2 DEF TakeTwo, TwoAhead, Take
      <4>2. src[i] # "\n" /\ src[i + 1] # "\n"
        <5>1. \A k \in i .. i + 1 : src[k] \in STRING
          BY <1>1, <3>2 DEF IInv, TakeTwo, TwoAhead, AtEnd
        <5>2. Ahead[1] = src[i] /\ Ahead[2] = src[i + 1]
          BY <1>1, <5>1 DEF Ahead
        <5> QED  BY <4>1, <5>2 DEF TwoChar
      <4> QED  BY <1>1, <4>1, <4>2
    <3> QED  BY <1>11, <3>1, <3>2 DEF Operator
  <2> QED  BY <1>1, <2>1, WithinLine
<1> QED
  BY <1>3, <1>4, <1>6, <1>7, <1>8, <1>9, <1>10, <1>11 DEF Next

(* The scanner's counter, which errors bear, is the line of the next       *)
(* character, although two places of the code count (lexer.cc:93, 129).    *)
THEOREM LinesAreTrue == Spec => []LineIsTrue
<1>1. Init => LineInv
  <2> SUFFICES ASSUME Init PROVE LineInv
    OBVIOUS
  <2>1. line = 1 /\ i - 1 = 0
    BY DEF Init
  <2> QED  BY <2>1, InitEstablishes, HowManyOfNone DEF LineInv
<1>2. Spec => []LineInv
  BY <1>1, LineInvPreserved, PTL DEF Spec
<1>3. LineInv => LineIsTrue
  BY LineInvIsTrue DEF LineInv
<1> QED  BY <1>2, <1>3, PTL

-----------------------------------------------------------------------------
(* Progress *)

Moves ==
    \/ phase' # "lexing"
    \/ i < i'
    \/ i' = i /\ at_line_start /\ ~at_line_start'

(* No turn of the loop leaves the scanner where it was: it consumes a      *)
(* character, begins the code of a line, or ends (lexer.cc:72-246).  As    *)
(* neither can be done for ever, it terminates on every source.            *)
THEOREM EveryTurnMoves == Spec => [][Moves]_vars
<1>1. ASSUME IInv, Next PROVE Moves
  <2>1. Len(src) \in Nat /\ i \in 1 .. Len(src) + 1
    BY <1>1 DEF IInv
  <2>2. CASE TabInIndent \/ BadChar \/ Finish
    BY <2>2 DEF TabInIndent, BadChar, Finish, Fail, Moves
  <2>3. CASE Indent \/ Dedent
    <3>1. LineStart
      BY <2>3 DEF Indent, Dedent, CodeStarts
    <3>2. i <= Margin /\ Margin \in 1 .. Len(src) + 1
      BY <1>1, <3>1, MarginIs
    <3>3. phase' = "dedent" \/ (i' = Margin /\ ~at_line_start')
      BY <2>3 DEF Indent, Dedent
    <3> QED  BY <2>1, <3>1, <3>2, <3>3 DEF Moves, LineStart
  <2>4. CASE SkipLine
    <3> DEFINE end == NextNewline(Margin)
    <3>1. LineStart
      BY <2>4 DEF SkipLine
    <3>2. Margin \in 1 .. Len(src) + 1 /\ i <= Margin
      BY <1>1, <3>1, MarginIs
    <3>3. end \in 1 .. Len(src) + 1 /\ Margin <= end
      BY <1>1, <3>2, NextNewlineIs
    <3>4. (AtEnd(end) /\ i' = end) \/ i' = end + 1
      BY <2>4 DEF SkipLine
    <3>5. i < i'
      <4>1. ~AtEnd(i)
        BY <3>1 DEF LineStart
      <4> HIDE DEF end
      <4> QED  BY <2>1, <3>2, <3>3, <3>4, <4>1 DEF AtEnd
    <3> QED  BY <3>5 DEF Moves
  <2>5. CASE SkipSpace \/ Newline
    <3>1. i' = i + 1
      BY <2>5 DEF SkipSpace, Newline
    <3> QED  BY <2>1, <3>1 DEF Moves
  <2>6. CASE SkipComment
    <3>1. At(i, Range(src) \ {"\n"})
      BY <1>1, <2>6 DEF SkipComment, Inside, At, AtEnd, IInv, Range
    <3>2. i' = After(Range(src) \ {"\n"}, i)
      BY <2>6 DEF SkipComment, NextNewline
    <3> QED  BY <1>1, <3>1, <3>2, AfterMoves DEF Moves
  <2>7. CASE Word \/ Integer \/ Operator
    BY <1>1, <2>7, WordsPreserve DEF Moves
  <2> QED  BY <1>1, <2>2, <2>3, <2>4, <2>5, <2>6, <2>7 DEF Next
<1>2. Spec => []IInv
  BY InitEstablishes, NextPreserves, PTL DEF Spec
<1>3. IInv /\ [Next]_vars => [Moves]_vars
  BY <1>1
<1> QED  BY <1>2, <1>3, PTL DEF Spec

-----------------------------------------------------------------------------
(* Recursive functions *)

(* A recursive function on 0 .. m whose step is a function. *)
Follows(f, m, a, step) ==
    f = [n \in 0 .. m |-> IF n = 0 THEN a ELSE step[<<n, f[n - 1]>>]]

LEMMA Recursion ==
    ASSUME NEW A, NEW a \in A, NEW m \in Nat, NEW step \in [(1 .. m) \X A -> A]
    PROVE  \E f \in [0 .. m -> A] : Follows(f, m, a, step)
<1> DEFINE Good(n) == \E f \in [0 .. n -> A] : Follows(f, n, a, step)
           Bad == {n \in 0 .. m : ~Good(n)}
<1>1. Good(0)
  <2> DEFINE f == [n \in 0 .. 0 |-> a]
  <2>1. f \in [0 .. 0 -> A] /\ \A n \in 0 .. 0 : n = 0
    OBVIOUS
  <2>2. f = [n \in 0 .. 0 |-> IF n = 0 THEN a ELSE step[<<n, f[n - 1]>>]]
    BY <2>1
  <2> QED  BY <2>1, <2>2 DEF Follows
<1>2. ASSUME NEW n \in 0 .. m - 1, Good(n)
      PROVE  Good(n + 1)
  <2>1. PICK f \in [0 .. n -> A] : Follows(f, n, a, step)
    BY <1>2
  <2> DEFINE v == step[<<n + 1, f[n]>>]
             g == [k \in 0 .. n + 1 |-> IF k = n + 1 THEN v ELSE f[k]]
  <2>2. v \in A
    <3>1. <<n + 1, f[n]>> \in (1 .. m) \X A
      BY <2>1
    <3> QED  BY <3>1
  <2>3. g \in [0 .. n + 1 -> A]
    BY <2>1, <2>2
  <2>4. ASSUME NEW k \in 0 .. n + 1
        PROVE  g[k] = IF k = 0 THEN a ELSE step[<<k, g[k - 1]>>]
    <3>1. CASE k = n + 1
      <4>1. k - 1 = n /\ g[n] = f[n] /\ k # 0
        BY <3>1
      <4> QED  BY <3>1, <4>1
    <3>2. CASE k \in 0 .. n
      <4>1. f[k] = IF k = 0 THEN a ELSE step[<<k, f[k - 1]>>]
        BY <2>1, <3>2 DEF Follows
      <4>2. g[k] = f[k] /\ (k # 0 => g[k - 1] = f[k - 1])
        BY <3>2
      <4> QED  BY <4>1, <4>2
    <3>3. k = n + 1 \/ k \in 0 .. n
      OBVIOUS
    <3> QED  BY <3>1, <3>2, <3>3
  <2> HIDE DEF g, v
  <2>5. Follows(g, n + 1, a, step)
    BY <2>3, <2>4 DEF Follows
  <2> QED  BY <2>3, <2>5
<1>3. SUFFICES ASSUME Bad # {} PROVE FALSE
  <2>1. m \in 0 .. m
    OBVIOUS
  <2> HIDE DEF Good
  <2> QED  BY <2>1, <1>3 DEF Good
<1>4. PICK n \in Bad : \A k \in Bad : n <= k
  <2>1. Bad \in SUBSET Nat
    OBVIOUS
  <2> HIDE DEF Bad
  <2> QED  BY <1>3, <2>1, Least
<1> HIDE DEF Good
<1>5. n # 0 /\ n - 1 \in 0 .. m - 1 /\ n - 1 + 1 = n
  BY <1>1
<1>6. Good(n - 1)
  BY <1>4, <1>5
<1> QED  BY <1>2, <1>4, <1>5, <1>6

(* What holds at 0 and from each number to the next holds up to m. *)
LEMMA UpTo ==
    ASSUME NEW m \in Nat, NEW P, 0 \in P, \A n \in 0 .. m - 1 : n \in P => n + 1 \in P
    PROVE  0 .. m \subseteq P
<1> DEFINE Bad == {n \in 0 .. m : n \notin P}
<1> SUFFICES ASSUME Bad # {} PROVE FALSE
  OBVIOUS
<1>1. PICK n \in Bad : \A k \in Bad : n <= k
  <2>1. Bad \in SUBSET Nat
    OBVIOUS
  <2> HIDE DEF Bad
  <2> QED  BY <2>1, Least
<1>2. n # 0 /\ n - 1 \in 0 .. m - 1 /\ n - 1 + 1 = n
  OBVIOUS
<1>3. n - 1 \in P
  BY <1>1, <1>2
<1> QED  BY <1>1, <1>2, <1>3
-----------------------------------------------------------------------------
(* Numbers *)

(* The quotient and the remainder are the only ones. *)
LEMMA Remainder ==
    ASSUME NEW m \in Nat \ {0}, NEW n \in Int, NEW q \in Int, NEW r \in 0 .. m - 1,
           n = m * q + r
    PROVE  n % m = r
<1>1. n % m \in 0 .. m - 1 /\ n \div m \in Int /\ n = (m * (n \div m)) + (n % m)
  OBVIOUS
<1> DEFINE d == q - (n \div m)
           e == (n % m) - r
<1>2. d \in Int /\ e \in Int /\ m * d = e /\ -m < e /\ e < m
  BY <1>1
<1>3. d = 0
  <2> HIDE DEF d, e
  <2>1. CASE d >= 1
    <3>1. m * d >= m
      BY <1>2, <2>1
    <3> QED  BY <1>2, <3>1
  <2>2. CASE d <= -1
    <3>1. m * d <= -m
      BY <1>2, <2>2
    <3> QED  BY <1>2, <3>1
  <2> QED  BY <1>2, <2>1, <2>2
<1>4. e = 0
  <2> HIDE DEF d, e
  <2> QED  BY <1>2, <1>3
<1> QED  BY <1>1, <1>4

(* Reducing a number before the next digit or only at the end is the same. *)
LEMMA ReduceBefore ==
    ASSUME NEW v \in Nat, NEW d \in Nat
    PROVE  ((v % Modulus) * 10 + d) % Modulus = (v * 10 + d) % Modulus
<1>1. Modulus \in Nat \ {0}
  BY ModulusPositive
<1> DEFINE r == v % Modulus
           q == v \div Modulus
           n == r * 10 + d
           t == n % Modulus
           p == n \div Modulus
<1>2. r \in 0 .. Modulus - 1 /\ q \in Int /\ v = Modulus * q + r
  BY <1>1
<1>3. n \in Nat /\ t \in 0 .. Modulus - 1 /\ p \in Int /\ n = Modulus * p + t
  BY <1>1, <1>2
<1> HIDE DEF r, q, t, p
<1>4. v * 10 + d = Modulus * (10 * q + p) + t
  <2> DEFINE high == Modulus * (10 * q)
             low == Modulus * p
  <2>1. v * 10 = high + r * 10
    BY <1>1, <1>2
  <2>2. Modulus * (10 * q + p) = high + low
    BY <1>1, <1>2, <1>3
  <2>3. high \in Int /\ low \in Int /\ r * 10 + d = low + t
    BY <1>1, <1>2, <1>3
  <2> HIDE DEF high, low
  <2>4. v * 10 + d = high + low + t
    <3>1. r \in Int /\ t \in Int
      BY <1>2, <1>3
    <3> HIDE DEF n
    <3> QED  BY <2>1, <2>3, <3>1
  <2> QED  BY <2>2, <2>4
<1> HIDE DEF n
<1>5. (v * 10 + d) % Modulus = t
  <2> DEFINE q2 == 10 * q + p
             n2 == v * 10 + d
  <2>1. q2 \in Int /\ n2 \in Int /\ n2 = Modulus * q2 + t
    BY <1>2, <1>3, <1>4
  <2> HIDE DEF q2, n2
  <2>2. n2 % Modulus = t
    BY <1>1, <1>3, <2>1, Remainder
  <2> QED  BY <2>2 DEF n2
<1> QED  BY <1>5 DEF t, n, r

IsNumeral(text) == text \in Seq(DOMAIN Digit)

(* What the digits up to n stand for, read from the left. *)
Reads(text, f) ==
    /\ f \in [0 .. Len(text) -> Nat]
    /\ f[0] = 0
    /\ \A n \in 1 .. Len(text) : f[n] = f[n - 1] * 10 + Digit[text[n]]

LEMMA DigitsOf ==
    ASSUME NEW text, IsNumeral(text)
    PROVE  Len(text) \in Nat /\ \A n \in 1 .. Len(text) : Digit[text[n]] \in 0 .. 9
BY DigitsHaveValues DEF IsNumeral

LEMMA Readable ==
    ASSUME NEW text, IsNumeral(text)
    PROVE  \E f : Reads(text, f)
<1> DEFINE m == Len(text)
           step == [p \in (1 .. m) \X Nat |-> p[2] * 10 + Digit[text[p[1]]]]
<1>1. m \in Nat /\ \A n \in 1 .. m : Digit[text[n]] \in 0 .. 9
  BY DigitsOf
<1>2. step \in [(1 .. m) \X Nat -> Nat] /\ 0 \in Nat
  BY <1>1
<1>3. \A n \in 1 .. m, v \in Nat : step[<<n, v>>] = v * 10 + Digit[text[n]]
  OBVIOUS
<1> HIDE DEF m, step
<1>4. PICK f \in [0 .. m -> Nat] : Follows(f, m, 0, step)
  BY <1>1, <1>2, Recursion
<1>5. f[0] = 0
  BY <1>1, <1>4 DEF Follows
<1>6. \A n \in 1 .. m : f[n] = f[n - 1] * 10 + Digit[text[n]]
  <2>1. ASSUME NEW n \in 1 .. m
        PROVE  f[n] = step[<<n, f[n - 1]>>] /\ f[n - 1] \in Nat
    <3>1. n \in 0 .. m /\ n # 0 /\ n - 1 \in 0 .. m
      BY <1>1
    <3> QED  BY <1>4, <3>1 DEF Follows
  <2> QED  BY <1>3, <2>1
<1> QED  BY <1>5, <1>6 DEF Reads, m

(* The scanner reduces as it reads. *)
LEMMA ValueReduces ==
    ASSUME NEW text, IsNumeral(text), NEW f, Reads(text, f)
    PROVE  Value(text) = Signed(f[Len(text)] % Modulus)
<1> DEFINE m == Len(text)
           step == [p \in (1 .. m) \X Nat |-> (p[2] * 10 + Digit[text[p[1]]]) % Modulus]
           IsVal(v) == v = [n \in 0 .. m |-> IF n = 0 THEN 0
                                             ELSE (v[n - 1] * 10 + Digit[text[n]]) % Modulus]
           val == CHOOSE v : IsVal(v)
<1>0. Modulus \in Nat \ {0}
  BY ModulusPositive
<1>1. m \in Nat /\ \A n \in 1 .. m : Digit[text[n]] \in 0 .. 9
  BY DigitsOf
<1>2. step \in [(1 .. m) \X Nat -> Nat] /\ 0 \in Nat
  BY <1>0, <1>1
<1>3. \A n \in 1 .. m, v \in Nat : step[<<n, v>>] = (v * 10 + Digit[text[n]]) % Modulus
  OBVIOUS
<1>4. \E v : IsVal(v)
  <2> HIDE DEF m, step
  <2>1. PICK v \in [0 .. m -> Nat] : Follows(v, m, 0, step)
    BY <1>1, <1>2, Recursion
  <2>2. ASSUME NEW n \in 0 .. m, n # 0
        PROVE  step[<<n, v[n - 1]>>] = (v[n - 1] * 10 + Digit[text[n]]) % Modulus
    <3>1. n \in 1 .. m /\ n - 1 \in 0 .. m
      BY <1>1, <2>2
    <3> QED  BY <1>3, <2>1, <3>1
  <2>3. IsVal(v)
    BY <2>1, <2>2 DEF Follows
  <2> QED  BY <2>3
<1>5. IsVal(val)
  BY <1>4
<1>6. Value(text) = Signed(val[m])
  BY DEF Value
<1> HIDE DEF val, m
<1> DEFINE P == {n \in 0 .. m : val[n] = f[n] % Modulus}
<1>7. 0 \in P
  <2>1. val[0] = 0 /\ f[0] = 0
    BY <1>1, <1>5 DEF Reads
  <2>2. 0 % Modulus = 0
    BY <1>0
  <2> QED  BY <1>1, <2>1, <2>2
<1>8. ASSUME NEW n \in 0 .. m - 1, n \in P
      PROVE  n + 1 \in P
  <2>1. n + 1 \in 1 .. m /\ n + 1 \in 0 .. m /\ n + 1 # 0 /\ n + 1 - 1 = n /\ n \in 0 .. m
    BY <1>1
  <2> DEFINE d == Digit[text[n + 1]]
  <2>2. val[n + 1] = (val[n] * 10 + d) % Modulus
    BY <1>5, <2>1
  <2>3. f[n + 1] = f[n] * 10 + d /\ f[n] \in Nat
    BY <2>1 DEF Reads, m
  <2>4. d \in Nat
    BY <1>1, <2>1
  <2> HIDE DEF d
  <2> QED  BY <1>8, <2>1, <2>2, <2>3, <2>4, ReduceBefore
<1>9. m \in P
  <2> HIDE DEF P
  <2>1. 0 .. m \subseteq P
    BY <1>1, <1>7, <1>8, UpTo
  <2> QED  BY <1>1, <2>1
<1> QED  BY <1>6, <1>9 DEF m
(* ... which agrees with reading by place. *)
LEMMA PositionalReads ==
    ASSUME NEW text, IsNumeral(text), NEW f, Reads(text, f)
    PROVE  Positional(text) = f[Len(text)]
<1> DEFINE m == Len(text)
           IsPower(v) == v = [k \in 0 .. m |-> IF k = 0 THEN 1 ELSE 10 * v[k - 1]]
           power == CHOOSE v : IsPower(v)
           IsSum(v) == v = [k \in 0 .. m |-> IF k = 0 THEN 0
                                ELSE v[k - 1] + Digit[text[k]] * power[m - k]]
           sum == CHOOSE v : IsSum(v)
<1>1. Positional(text) = sum[m]
  BY DEF Positional
<1>2. m \in Nat /\ \A n \in 1 .. m : Digit[text[n]] \in 0 .. 9
  BY DigitsOf
<1> HIDE DEF m
<1>3. IsPower(power) /\ \A k \in 0 .. m : power[k] \in Nat
  <2> DEFINE step == [p \in (1 .. m) \X Nat |-> 10 * p[2]]
  <2>1. step \in [(1 .. m) \X Nat -> Nat] /\ 1 \in Nat
    OBVIOUS
  <2>2. \A n \in 1 .. m, v \in Nat : step[<<n, v>>] = 10 * v
    OBVIOUS
  <2> HIDE DEF step
  <2>3. PICK v \in [0 .. m -> Nat] : Follows(v, m, 1, step)
    BY <1>2, <2>1, Recursion
  <2>4. ASSUME NEW k \in 0 .. m, k # 0
        PROVE  step[<<k, v[k - 1]>>] = 10 * v[k - 1]
    <3>1. k \in 1 .. m /\ k - 1 \in 0 .. m
      BY <1>2, <2>4
    <3> QED  BY <2>2, <2>3, <3>1
  <2>5. IsPower(v)
    BY <2>3, <2>4 DEF Follows
  <2>6. IsPower(power)
    BY <2>5
  <2> HIDE DEF power
  <2> DEFINE P == {k \in 0 .. m : power[k] \in Nat}
  <2>7. \A k \in 0 .. m : power[k] = IF k = 0 THEN 1 ELSE 10 * power[k - 1]
    BY <2>6
  <2> HIDE DEF IsPower
  <2>8. 0 \in P
    BY <1>2, <2>7
  <2>9. ASSUME NEW n \in 0 .. m - 1, n \in P
        PROVE  n + 1 \in P
    <3>1. n + 1 \in 0 .. m /\ n + 1 # 0 /\ n + 1 - 1 = n
      BY <1>2
    <3>2. power[n + 1] = 10 * power[n]
      BY <2>7, <3>1
    <3> QED  BY <2>9, <3>1, <3>2
  <2>10. 0 .. m \subseteq P
    <3> HIDE DEF P
    <3> QED  BY <1>2, <2>8, <2>9, UpTo
  <2> QED  BY <2>6, <2>10
<1> HIDE DEF power
<1>4. IsSum(sum)
  <2> DEFINE step == [p \in (1 .. m) \X Nat |-> p[2] + Digit[text[p[1]]] * power[m - p[1]]]
  <2>1. \A n \in 1 .. m : Digit[text[n]] * power[m - n] \in Nat
    <3>1. \A n \in 1 .. m : m - n \in 0 .. m
      BY <1>2
    <3>2. \A y, z \in Nat : y * z \in Nat
      OBVIOUS
    <3>3. \A n \in 1 .. m : Digit[text[n]] \in Nat
      BY <1>2
    <3>4. \A n \in 1 .. m : power[m - n] \in Nat
      <4> HIDE DEF IsPower
      <4> QED  BY <1>3, <3>1
    <3> QED  BY <3>2, <3>3, <3>4
  <2>2. step \in [(1 .. m) \X Nat -> Nat] /\ 0 \in Nat
    <3> DEFINE t == [n \in 1 .. m |-> Digit[text[n]] * power[m - n]]
    <3>1. t \in [1 .. m -> Nat]
      BY <2>1
    <3>2. step = [p \in (1 .. m) \X Nat |-> p[2] + t[p[1]]]
      OBVIOUS
    <3> HIDE DEF t, step
    <3> QED  BY <3>1, <3>2
  <2>3. \A n \in 1 .. m, v \in Nat :
            step[<<n, v>>] = v + Digit[text[n]] * power[m - n]
    OBVIOUS
  <2> HIDE DEF step
  <2>4. PICK v \in [0 .. m -> Nat] : Follows(v, m, 0, step)
    BY <1>2, <2>2, Recursion
  <2>5. ASSUME NEW k \in 0 .. m, k # 0
        PROVE  step[<<k, v[k - 1]>>] = v[k - 1] + Digit[text[k]] * power[m - k]
    <3>1. k \in 1 .. m /\ k - 1 \in 0 .. m
      BY <1>2, <2>5
    <3> QED  BY <2>3, <2>4, <3>1
  <2>6. IsSum(v)
    BY <2>4, <2>5 DEF Follows
  <2> QED  BY <2>6
<1> HIDE DEF sum
<1> DEFINE P == {k \in 0 .. m : sum[k] = f[k] * power[m - k]}
<1>5. 0 \in P
  <2>1. sum[0] = 0 /\ f[0] = 0 /\ power[m - 0] \in Nat
    <3>1. 0 \in 0 .. m /\ m - 0 \in 0 .. m
      BY <1>2
    <3> QED  BY <1>3, <1>4, <3>1 DEF Reads
  <2>2. \A x \in Nat : 0 * x = 0
    OBVIOUS
  <2> QED  BY <1>2, <2>1, <2>2
<1>6. ASSUME NEW k \in 0 .. m - 1, k \in P
      PROVE  k + 1 \in P
  <2>1. /\ k + 1 \in 1 .. m /\ k + 1 \in 0 .. m /\ k + 1 # 0 /\ k + 1 - 1 = k /\ k \in 0 .. m
        /\ m - k \in 0 .. m /\ m - k # 0 /\ m - k - 1 = m - (k + 1) /\ m - (k + 1) \in 0 .. m
    BY <1>2
  <2> DEFINE d == Digit[text[k + 1]]
             p == power[m - (k + 1)]
             v == f[k]
  <2>2. sum[k + 1] = sum[k] + d * p
    BY <1>4, <2>1
  <2>3. f[k + 1] = v * 10 + d /\ v \in Nat
    <3>1. f \in [0 .. m -> Nat] /\ \A n \in 1 .. m : f[n] = f[n - 1] * 10 + Digit[text[n]]
      BY DEF Reads, m
    <3> QED  BY <2>1, <3>1
  <2>4. d \in Nat /\ p \in Nat
    <3>1. \A n \in 1 .. m : Digit[text[n]] \in Nat
      BY <1>2
    <3> QED  BY <1>3, <2>1, <3>1
  <2>5. power[m - k] = 10 * p
    BY <1>3, <2>1
  <2>6. sum[k] = v * (10 * p)
    BY <1>6, <2>5
  <2> HIDE DEF d, p, v
  <2>7. v * (10 * p) + d * p = (v * 10 + d) * p
    BY <2>3, <2>4
  <2>8. sum[k + 1] = f[k + 1] * p
    BY <2>2, <2>3, <2>6, <2>7
  <2> QED  BY <2>1, <2>8 DEF p
<1>7. m \in P
  <2> HIDE DEF P
  <2>1. 0 .. m \subseteq P
    BY <1>2, <1>5, <1>6, UpTo
  <2> QED  BY <1>2, <2>1
<1>8. power[m - m] = 1 /\ f[m] \in Nat
  <2>1. m - m = 0 /\ 0 \in 0 .. m /\ m \in 0 .. m
    BY <1>2
  <2> QED  BY <1>3, <2>1 DEF Reads, m
<1>9. sum[m] = f[m]
  <2>1. \A x \in Nat : x * 1 = x
    OBVIOUS
  <2> QED  BY <1>7, <1>8, <2>1
<1> QED  BY <1>1, <1>9 DEF m

(* The bits read as a signed number keep their residue. *)
LEMMA SignedIs ==
    ASSUME NEW b \in 0 .. Modulus - 1
    PROVE  Signed(b) \in Int64 /\ Signed(b) % Modulus = b
<1> DEFINE h == Modulus \div 2
<1>1. Modulus \in Nat \ {0} /\ h \in Nat /\ Modulus = h + h
  BY ModulusPositive
<1>2. Int64 = -h .. h - 1 /\ Signed(b) = IF b < h THEN b ELSE b - Modulus
  BY DEF Int64, Signed
<1> HIDE DEF h
<1>3. CASE b < h
  <2>1. Signed(b) = b /\ b \in -h .. h - 1
    BY <1>1, <1>2, <1>3
  <2>2. b = Modulus * 0 + b
    BY <1>1
  <2>3. b % Modulus = b
    BY <1>1, <2>2, Remainder
  <2> QED  BY <1>2, <2>1, <2>3
<1>4. CASE ~(b < h)
  <2> DEFINE v == b - Modulus
  <2>1. Signed(b) = v /\ v \in -h .. h - 1 /\ v \in Int
    BY <1>1, <1>2, <1>4
  <2>2. v = Modulus * (-1) + b
    BY <1>1
  <2> HIDE DEF v
  <2>3. v % Modulus = b
    BY <1>1, <2>1, <2>2, Remainder
  <2> QED  BY <1>2, <2>1, <2>3
<1> QED  BY <1>3, <1>4

(* What the scanner keeps of a literal. *)
LEMMA LiteralWraps ==
    ASSUME NEW text, IsNumeral(text)
    PROVE  Value(text) \in Int64 /\ Value(text) % Modulus = Positional(text) % Modulus
<1>1. PICK f : Reads(text, f)
  BY Readable
<1>2. Value(text) = Signed(f[Len(text)] % Modulus) /\ Positional(text) = f[Len(text)]
  BY <1>1, ValueReduces, PositionalReads
<1>3. f[Len(text)] \in Nat
  <2>1. Len(text) \in 0 .. Len(text)
    BY DigitsOf
  <2> QED  BY <1>1, <2>1 DEF Reads
<1>4. Modulus \in Nat \ {0}
  BY ModulusPositive
<1> DEFINE n == f[Len(text)]
<1> HIDE DEF n
<1>5. n \in Nat => n % Modulus \in 0 .. Modulus - 1
  BY <1>4
<1> QED  BY <1>2, <1>3, <1>5, SignedIs DEF n

-----------------------------------------------------------------------------
(* Types, and what tokens carry *)

TokenSet ==
    {t \in [kind : Kinds, text : Seq(STRING), line : Nat, int_val : Int64] :
        t.kind = "integer" => t.int_val % Modulus = Positional(t.text) % Modulus}

TypeInv ==
    /\ LineInv
    /\ indents \in Seq(Nat) /\ indents # <<>>
    /\ toks \in Seq(TokenSet)

LEMMA LineIsNat ==
    ASSUME LineInv
    PROVE  line \in Nat /\ line \in 1 .. Len(src) + 1
<1>1. Len(src) \in Nat /\ i \in 1 .. Len(src) + 1
  BY DEF LineInv, IInv
<1> DEFINE n == i - 1
<1>2. n \in Nat /\ n <= Len(src)
  BY <1>1
<1>3. line = 1 + HowMany(Newlines, n)
  BY DEF LineInv
<1> HIDE DEF n
<1>4. HowMany(Newlines, n) \in Nat /\ HowMany(Newlines, n) <= n
  <2>1. IsFiniteSet(1 .. n) /\ Cardinality(1 .. n) = n
    <3>1. 1 \in Int /\ n \in Int /\ (IF 1 > n THEN 0 ELSE n - 1 + 1) = n
      BY <1>2
    <3> QED  BY <3>1, FS_Interval
  <2>2. {k \in 1 .. n : k \in Newlines} \in SUBSET (1 .. n)
    OBVIOUS
  <2>3. Cardinality({k \in 1 .. n : k \in Newlines}) <= Cardinality(1 .. n)
    BY <2>1, <2>2, FS_Subset
  <2> QED  BY <1>2, <2>1, <2>3, HowManyIsNat DEF HowMany
<1> QED  BY <1>1, <1>2, <1>3, <1>4

LEMMA ZeroIsThere == 0 \in Int64
<1> DEFINE h == Modulus \div 2
<1>1. h \in Nat /\ 1 <= h
  BY ModulusPositive
<1>2. Int64 = -h .. h - 1
  BY DEF Int64
<1> HIDE DEF h
<1> QED  BY <1>1, <1>2

LEMMA MadeToken ==
    ASSUME LineInv, NEW kind \in Kinds, NEW text \in Seq(STRING),
           kind = "integer" => IsNumeral(text)
    PROVE  Token(kind, text) \in TokenSet
<1>1. line \in Nat
  BY LineIsNat
<1> DEFINE v == IF kind = "integer" THEN Value(text) ELSE 0
<1>2. v \in Int64 /\ (kind = "integer" => v % Modulus = Positional(text) % Modulus)
  <2>1. CASE kind = "integer"
    BY <2>1, LiteralWraps
  <2>2. CASE kind # "integer"
    BY <2>2, ZeroIsThere
  <2> QED  BY <2>1, <2>2
<1>3. Token(kind, text) = [kind |-> kind, text |-> text, line |-> line, int_val |-> v]
  BY DEF Token
<1> HIDE DEF v
<1> QED  BY <1>1, <1>2, <1>3 DEF TokenSet

LEMMA MadeLayout ==
    ASSUME LineInv, NEW kind \in {"newline", "indent", "dedent", "eof"}
    PROVE  Layout(kind) \in TokenSet
<1>1. <<>> \in Seq(STRING) /\ kind \in Kinds /\ kind # "integer"
  BY EmptySeq DEF Kinds
<1> QED  BY <1>1, MadeToken DEF Layout

LEMMA MadeDedents ==
    ASSUME LineInv, NEW n \in Nat
    PROVE  Dedents(n) \in Seq(TokenSet)
<1>1. Layout("dedent") \in TokenSet
  BY MadeLayout
<1> DEFINE e == Layout("dedent")
<1>2. Dedents(n) = [k \in 1 .. n |-> e]
  BY DEF Dedents
<1> HIDE DEF e
<1> QED  BY <1>1, <1>2 DEF e

(* The characters of a word or a literal. *)
LEMMA TakenText ==
    ASSUME IInv, NEW S, At(i, S)
    PROVE  LET text == SubSeq(src, i, After(S, i) - 1)
           IN  /\ text \in Seq(S) /\ text \in Seq(STRING)
               /\ Len(text) = After(S, i) - i /\ Len(text) \in Nat \ {0}
               /\ text[1] = src[i]
               /\ \A k \in 1 .. Len(text) : text[k] = src[i + k - 1]
<1> DEFINE end == After(S, i)
           text == SubSeq(src, i, end - 1)
<1>1. /\ Len(src) \in Nat /\ i \in 1 .. Len(src) + 1
      /\ \A k \in 1 .. Len(src) : src[k] \in STRING
  BY DEF IInv
<1>2. end \in 1 .. Len(src) + 1 /\ i < end
  BY AfterMoves
<1>3. \A m \in i .. end - 1 : m \in 1 .. Len(src) /\ src[m] \in S
  BY <1>1, AfterStops DEF IInv
<1> HIDE DEF end
<1>4. \A m \in i .. end - 1 : src[m] \in S \cap STRING
  BY <1>1, <1>3
<1>5. /\ text \in Seq(S \cap STRING)
      /\ Len(text) = IF i <= end - 1 THEN end - 1 - i + 1 ELSE 0
      /\ \A k \in 1 .. end - 1 - i + 1 : text[k] = src[i + k - 1]
  BY <1>1, <1>2, <1>4, SubSeqProperties
<1> HIDE DEF text
<1>6. Len(text) = end - i /\ end - i \in Nat \ {0} /\ i + 1 - 1 = i
  BY <1>1, <1>2, <1>5
<1>7. \A k \in 1 .. Len(text) : text[k] = src[i + k - 1]
  BY <1>1, <1>2, <1>5, <1>6
<1>8. text[1] = src[i]
  BY <1>6, <1>7
<1>9. text \in Seq(S) /\ text \in Seq(STRING)
  BY <1>5
<1> QED  BY <1>6, <1>7, <1>8, <1>9 DEF text, end

LEMMA TypeKept ==
    ASSUME TypeInv, LineInv', UNCHANGED <<indents, toks>>
    PROVE  TypeInv'
BY DEF TypeInv

LEMMA TakeTypes ==
    ASSUME TypeInv, LineInv', NEW kind \in Kinds, NEW text \in Seq(STRING), NEW end,
           kind = "integer" => IsNumeral(text), Take(kind, text, end)
    PROVE  TypeInv'
<1>1. Token(kind, text) \in TokenSet
  BY MadeToken DEF TypeInv
<1> DEFINE e == Token(kind, text)
<1> HIDE DEF e
<1>2. toks' = Append(toks, e) /\ UNCHANGED indents
  BY DEF Take, e
<1>3. toks' \in Seq(TokenSet)
  BY <1>1, <1>2 DEF TypeInv, e
<1> QED  BY <1>2, <1>3 DEF TypeInv

LEMMA TypeInvPreserved == TypeInv /\ [Next]_vars => TypeInv'
<1> SUFFICES ASSUME TypeInv, [Next]_vars PROVE TypeInv'
  OBVIOUS
<1>1. LineInv' /\ LineInv /\ IInv /\ indents \in Seq(Nat) /\ toks \in Seq(TokenSet)
  BY LineInvPreserved DEF TypeInv, LineInv
<1>2. CASE TabInIndent \/ BadChar \/ SkipLine \/ SkipSpace \/ SkipComment \/ UNCHANGED vars
  BY <1>1, <1>2, TypeKept DEF TabInIndent, BadChar, SkipLine, SkipSpace, SkipComment, Fail, vars
<1>3. CASE Indent
  <2>1. LineStart /\ indents' = Append(indents, Width) /\ toks' = Append(toks, Layout("indent"))
    BY <1>3 DEF Indent, CodeStarts
  <2>2. Width \in Nat
    BY <1>1, <2>1, MarginIs
  <2>3. Layout("indent") \in TokenSet
    BY <1>1, MadeLayout
  <2>4. indents' \in Seq(Nat) /\ indents' # <<>>
    BY <1>1, <2>1, <2>2
  <2>5. toks' \in Seq(TokenSet)
    BY <1>1, <2>1, <2>3
  <2> QED  BY <1>1, <2>4, <2>5 DEF TypeInv
<1>4. CASE Dedent
  <2>1. LineStart /\ phase = "lexing"
    BY <1>4 DEF Dedent, CodeStarts, LineStart
  <2>2. IsStack(indents) /\ Width \in Nat
    BY <1>1, <2>1, MarginIs DEF IInv
  <2>3. /\ Kept(Width) \in 1 .. Len(indents) /\ IsStack(SubSeq(indents, 1, Kept(Width)))
    BY <2>2, StackShrinks
  <2>4. /\ toks' = toks \o Dedents(Len(indents) - Kept(Width))
        /\ indents' = SubSeq(indents, 1, Kept(Width))
    BY <1>4 DEF Dedent
  <2>5. Len(indents) - Kept(Width) \in Nat
    <3>1. Len(indents) \in Nat
      BY <1>1
    <3> QED  BY <2>3, <3>1
  <2>6. Dedents(Len(indents) - Kept(Width)) \in Seq(TokenSet)
    BY <1>1, <2>5, MadeDedents
  <2>7. toks' \in Seq(TokenSet)
    BY <1>1, <2>4, <2>6
  <2> QED  BY <1>1, <2>3, <2>4, <2>7 DEF TypeInv, IsStack
<1>5. CASE Newline
  <2>1. toks' = Append(toks, Layout("newline")) /\ UNCHANGED indents
    BY <1>5 DEF Newline
  <2>2. Layout("newline") \in TokenSet
    BY <1>1, MadeLayout
  <2>3. toks' \in Seq(TokenSet)
    BY <1>1, <2>1, <2>2
  <2> QED  BY <1>1, <2>1, <2>3 DEF TypeInv
<1>6. CASE Word
  <2> DEFINE end == After(IdentPart, i)
             word == SubSeq(src, i, end - 1)
             kind == IF word \in DOMAIN Keyword THEN Keyword[word] ELSE "ident"
  <2>1. At(i, IdentPart)
    BY <1>6 DEF Word, At, IdentPart
  <2>2. word \in Seq(STRING)
    BY <1>1, <2>1, TakenText
  <2>3. kind \in Kinds /\ kind # "integer"
    <3> HIDE DEF word
    <3>1. CASE word \in DOMAIN Keyword
      BY <3>1, KeywordsAreNoLayout DEF Kinds, Range
    <3>2. CASE word \notin DOMAIN Keyword
      BY <3>2 DEF Kinds
    <3> QED  BY <3>1, <3>2
  <2>4. Take(kind, word, end)
    BY <1>6 DEF Word
  <2> HIDE DEF kind, word, end
  <2> QED  BY <1>1, <2>2, <2>3, <2>4, TakeTypes
<1>7. CASE Integer
  <2> DEFINE end == After(DOMAIN Digit, i)
             text == SubSeq(src, i, end - 1)
  <2>1. At(i, DOMAIN Digit) /\ Take("integer", text, end)
    BY <1>7 DEF Integer
  <2>2. text \in Seq(STRING) /\ IsNumeral(text)
    BY <1>1, <2>1, TakenText DEF IsNumeral
  <2>3. "integer" \in Kinds
    BY DEF Kinds
  <2> HIDE DEF text, end
  <2> QED  BY <1>1, <2>1, <2>2, <2>3, TakeTypes
<1>8. CASE Operator
  <2>1. <<>> \in Seq(STRING)
    BY EmptySeq
  <2>2. CASE TakeTwo
    <3>1. Ahead \in DOMAIN TwoChar /\ Take(TwoChar[Ahead], <<>>, i + 2)
      BY <2>2 DEF TakeTwo, TwoAhead
    <3>2. TwoChar[Ahead] \in Kinds /\ TwoChar[Ahead] # "integer"
      <4>1. \A pair \in DOMAIN TwoChar : TwoChar[pair] # "integer"
        BY DEF TwoChar
      <4> QED  BY <3>1, <4>1 DEF Kinds, Range
    <3> QED  BY <1>1, <2>1, <3>1, <3>2, TakeTypes
  <2>3. CASE TakeOne
    <3>1. src[i] \in OneChar /\ Take(src[i], <<>>, i + 1)
      BY <2>3 DEF TakeOne, At
    <3>2. src[i] \in Kinds /\ src[i] # "integer"
      BY <3>1 DEF Kinds, OneChar
    <3> QED  BY <1>1, <2>1, <3>1, <3>2, TakeTypes
  <2> QED  BY <1>8, <2>2, <2>3 DEF Operator
<1>9. CASE Finish
  <2>1. phase = "lexing" /\ IsStack(indents)
    BY <1>1, <1>9 DEF Finish, IInv
  <2>2. /\ Kept(0) \in 1 .. Len(indents) /\ IsStack(SubSeq(indents, 1, Kept(0)))
    BY <2>1, 0 \in Nat, StackShrinks
  <2>3. Len(indents) - Kept(0) \in Nat
    <3>1. Len(indents) \in Nat
      BY <1>1
    <3> QED  BY <2>2, <3>1
  <2> DEFINE dedents == Dedents(Len(indents) - Kept(0))
             closing == Closing
             eof == Layout("eof")
  <2>4. dedents \in Seq(TokenSet)
    BY <1>1, <2>3, MadeDedents
  <2>5. closing \in Seq(TokenSet)
    <3>1. Layout("newline") \in TokenSet
      BY <1>1, MadeLayout
    <3> QED  BY <3>1, EmptySeq DEF Closing
  <2>6. eof \in TokenSet
    BY <1>1, MadeLayout
  <2>7. toks' = toks \o closing \o dedents \o <<eof>> /\ indents' = SubSeq(indents, 1, Kept(0))
    BY <1>9 DEF Finish
  <2> HIDE DEF dedents, closing, eof
  <2>8. toks' \in Seq(TokenSet)
    <3>1. <<eof>> \in Seq(TokenSet)
      BY <2>6
    <3> QED  BY <1>1, <2>4, <2>5, <2>7, <3>1
  <2> QED  BY <1>1, <2>2, <2>7, <2>8 DEF TypeInv, IsStack
<1> QED  BY <1>2, <1>3, <1>4, <1>5, <1>6, <1>7, <1>8, <1>9 DEF Next

LEMMA TypeInvAtFirst == Init => TypeInv
<1> SUFFICES ASSUME Init PROVE TypeInv
  OBVIOUS
<1>1. line = 1 /\ i - 1 = 0 /\ indents = <<0>> /\ toks = <<>>
  BY DEF Init
<1>2. LineInv
  BY <1>1, InitEstablishes, HowManyOfNone DEF LineInv
<1>3. indents \in Seq(Nat) /\ indents # <<>>
  BY <1>1
<1>4. toks \in Seq(TokenSet)
  BY <1>1, EmptySeq
<1> QED  BY <1>2, <1>3, <1>4 DEF TypeInv

LEMMA TypeInvariance == Spec => []TypeInv
BY TypeInvAtFirst, TypeInvPreserved, PTL DEF Spec

(* On every source the scanner stays within it, its stack is never empty   *)
(* and every token is complete (lexer.h:25-34, lexer.cc:60-72).            *)
THEOREM TypeCorrect == Spec => []TypeOK
<1>1. TypeInv => TypeOK
  <2> SUFFICES ASSUME TypeInv PROVE TypeOK
    OBVIOUS
  <2>1. toks \in Seq([kind : Kinds, text : Seq(STRING), line : Nat,
                      int_val : Int64])
    <3>1. TokenSet \subseteq [kind : Kinds, text : Seq(STRING), line : Nat,
                              int_val : Int64]
      BY DEF TokenSet
    <3> HIDE DEF TokenSet
    <3>2. \A T : TokenSet \subseteq T /\ toks \in Seq(TokenSet) => toks \in Seq(T)
      OBVIOUS
    <3> QED  BY <3>1, <3>2 DEF TypeInv
  <2>2. line \in 1 .. Len(src) + 1
    BY LineIsNat DEF TypeInv
  <2> QED  BY <2>1, <2>2 DEF TypeInv, TypeOK, LineInv, IInv, Phases
<1> QED  BY <1>1, TypeInvariance, PTL

-----------------------------------------------------------------------------
(* What a turn of the loop consumes *)

LEMMA Position ==
    ASSUME IInv
    PROVE  /\ Len(src) \in Nat /\ i \in Nat /\ 1 <= i /\ i <= Len(src) + 1
           /\ DOMAIN src = 1 .. Len(src)
           /\ \A k \in 1 .. Len(src) : src[k] \in STRING
BY DEF IInv

(* The characters of the source from i on, up to one before to. *)
LEMMA CutText ==
    ASSUME IInv, NEW to \in 1 .. Len(src) + 1, i <= to
    PROVE  LET text == SubSeq(src, i, to - 1)
           IN  /\ text \in Seq(STRING) /\ DOMAIN text = 1 .. to - i
               /\ Len(text) = to - i /\ to - i \in Nat
               /\ \A k \in 1 .. to - i :
                     /\ text[k] = src[i + k - 1]
                     /\ i + k - 1 \in i .. to - 1 /\ i + k - 1 \in 1 .. Len(src)
<1> DEFINE text == SubSeq(src, i, to - 1)
<1>1. /\ Len(src) \in Nat /\ i \in 1 .. Len(src) + 1 /\ src \in Seq(STRING)
      /\ \A k \in 1 .. Len(src) : src[k] \in STRING
  BY DEF IInv
<1>2. \A m \in i .. to - 1 : src[m] \in STRING
  BY <1>1
<1>3. /\ text \in Seq(STRING)
      /\ Len(text) = IF i <= to - 1 THEN to - 1 - i + 1 ELSE 0
      /\ \A k \in 1 .. to - 1 - i + 1 : text[k] = src[i + k - 1]
  BY <1>1, <1>2, SubSeqProperties
<1> HIDE DEF text
<1>4. Len(text) = to - i /\ to - i \in Nat /\ to - 1 - i + 1 = to - i
  BY <1>1, <1>3
<1>5. DOMAIN text = 1 .. to - i
  BY <1>3, <1>4
<1>6. \A k \in 1 .. to - i : i + k - 1 \in i .. to - 1 /\ i + k - 1 \in 1 .. Len(src)
  BY <1>1
<1> QED  BY <1>3, <1>4, <1>5, <1>6 DEF text

(* Layout is consumed without a token of its own. *)
Skips ==
    /\ IsSkipped(Consumed)
    /\ \A n \in Len(toks) + 1 .. Len(toks') :
          toks'[n].kind \in {"newline", "indent", "dedent"}

Munches ==
    \/ Skips
    \/ /\ toks' = Append(toks, Last(toks'))
       /\ Spelling(Last(toks')) = Consumed
       /\ IsToken(Consumed)
       /\ ~AtEnd(i') => ~IsToken(Append(Consumed, src[i']))

LEMMA NoTokens ==
    ASSUME IInv, toks' = toks
    PROVE  \A n \in Len(toks) + 1 .. Len(toks') :
              toks'[n].kind \in {"newline", "indent", "dedent"}
<1>1. Len(toks) \in Nat
  BY SeqShape DEF IInv, Sound
<1> QED  BY <1>1

LEMMA OneLayout ==
    ASSUME IInv, NEW kind \in {"newline", "indent", "dedent"},
           toks' = Append(toks, Layout(kind))
    PROVE  \A n \in Len(toks) + 1 .. Len(toks') :
              toks'[n].kind \in {"newline", "indent", "dedent"}
<1>1. Layout(kind).kind = kind
  BY TokenKinds DEF Layout
<1>2. /\ Len(toks) \in Nat /\ Len(toks') = Len(toks) + 1
      /\ toks'[Len(toks) + 1] = Layout(kind)
  BY SeqShape, AppendSeq DEF IInv, Sound
<1> QED  BY <1>1, <1>2

(* A run of characters of one sort. *)
LEMMA RunOf ==
    ASSUME IInv, NEW S, NEW to \in 1 .. Len(src) + 1, i <= to,
           \A m \in i .. to - 1 : src[m] \in S
    PROVE  Range(SubSeq(src, i, to - 1)) \subseteq S
<1> DEFINE text == SubSeq(src, i, to - 1)
<1>1. /\ DOMAIN text = 1 .. to - i
      /\ \A k \in 1 .. to - i : text[k] = src[i + k - 1] /\ i + k - 1 \in i .. to - 1
  BY CutText
<1>2. \A k \in DOMAIN text : text[k] \in S
  BY <1>1
<1> HIDE DEF text
<1>3. Range(text) \subseteq S
  BY <1>2 DEF Range
<1> QED  BY <1>3 DEF text

(* A character, and the run before it. *)
LEMMA RunUpTo ==
    ASSUME IInv, NEW S, NEW to \in 1 .. Len(src) + 1, NEW m \in i .. to - 1,
           \A n \in i .. m - 1 : src[n] \in S
    PROVE  LET text == SubSeq(src, i, to - 1)
           IN  \E k \in DOMAIN text :
                  text[k] = src[m] /\ Range(SubSeq(text, 1, k - 1)) \subseteq S
<1> DEFINE text == SubSeq(src, i, to - 1)
           k == m - i + 1
           run == SubSeq(text, 1, k - 1)
<1>1. /\ Len(src) \in Nat /\ i \in Nat /\ to \in Nat /\ m \in Nat
      /\ i <= m /\ m <= to - 1 /\ i <= to
  BY Position
<1>2. /\ DOMAIN text = 1 .. to - i /\ text \in Seq(STRING) /\ Len(text) = to - i
      /\ \A n \in 1 .. to - i : text[n] = src[i + n - 1] /\ i + n - 1 \in i .. to - 1
  BY <1>1, CutText
<1>3. k \in 1 .. to - i /\ i + k - 1 = m
  BY <1>1
<1>4. \A n \in 1 .. k - 1 : text[n] \in S
  <2> TAKE n \in 1 .. k - 1
  <2>1. n \in 1 .. to - i /\ i + n - 1 \in i .. m - 1
    BY <1>1
  <2> QED  BY <1>2, <2>1
<1>5. k \in DOMAIN text /\ text[k] = src[m]
  BY <1>2, <1>3
<1> HIDE DEF text, k
<1>6. run \in Seq(S)
  <2>1. 1 \in Nat /\ k - 1 \in Nat
    BY <1>1, <1>3
  <2> QED  BY <1>4, <2>1, SubSeqProperties
<1>7. Range(run) \subseteq S
  <2> HIDE DEF run
  <2> QED  BY <1>6 DEF Range
<1> QED  BY <1>5, <1>7 DEF text

(* Of one line, but for a newline that ends it. *)
WithinOneLine(to) == \A m \in i .. to - 2 : src[m] # "\n"

LEMMA OneLineOf ==
    ASSUME IInv, NEW to \in 1 .. Len(src) + 1, i <= to, WithinOneLine(to)
    PROVE  LET text == SubSeq(src, i, to - 1)
           IN  \A k \in 1 .. Len(text) - 1 : text[k] # "\n"
<1> DEFINE text == SubSeq(src, i, to - 1)
<1>1. /\ Len(text) = to - i /\ i \in Int /\ to \in Int
      /\ \A k \in 1 .. to - i : text[k] = src[i + k - 1]
  BY Position, CutText
<1>2. ASSUME NEW k \in 1 .. to - i - 1 PROVE text[k] # "\n"
  <2>1. k \in 1 .. to - i /\ i + k - 1 \in i .. to - 2
    BY <1>1
  <2>2. src[i + k - 1] # "\n"
    BY <2>1 DEF WithinOneLine
  <2> QED  BY <1>1, <2>1, <2>2
<1> HIDE DEF text
<1>3. \A k \in 1 .. Len(text) - 1 : text[k] # "\n"
  BY <1>1, <1>2
<1> QED  BY <1>3 DEF text

(* Spaces and newlines. *)
Blank == {" ", "\t", "\n"}
Spaces == {" "}

LEMMA BlanksAreSkipped ==
    ASSUME IInv, NEW to \in 1 .. Len(src) + 1, i <= to, WithinOneLine(to),
           \A m \in i .. to - 1 : src[m] \in Blank
    PROVE  IsSkipped(SubSeq(src, i, to - 1))
<1>1. Range(SubSeq(src, i, to - 1)) \subseteq Blank
  BY RunOf
<1> QED  BY <1>1, OneLineOf DEF IsSkipped, Blank

(* A comment, and the spaces before it. *)
LEMMA CommentsAreSkipped ==
    ASSUME IInv, NEW to \in 1 .. Len(src) + 1, NEW m \in i .. to - 1, src[m] = "#",
           WithinOneLine(to), \A n \in i .. m - 1 : src[n] \in Spaces
    PROVE  IsSkipped(SubSeq(src, i, to - 1))
<1>1. \E k \in DOMAIN SubSeq(src, i, to - 1) :
         /\ SubSeq(src, i, to - 1)[k] = src[m]
         /\ Range(SubSeq(SubSeq(src, i, to - 1), 1, k - 1)) \subseteq Spaces
  BY RunUpTo
<1>2. i <= to
  BY Position
<1> QED  BY <1>1, <1>2, OneLineOf DEF IsSkipped, Spaces

LEMMA LineIsSkipped ==
    ASSUME IInv, SkipLine
    PROVE  IsSkipped(Consumed)
<1> DEFINE end == NextNewline(Margin)
           to == IF AtEnd(end) THEN end ELSE end + 1
<1>1. LineStart /\ Useless /\ i' = to
  BY DEF SkipLine
<1>2. Margin \in 1 .. Len(src) + 1 /\ i <= Margin
  BY <1>1, MarginIs
<1>4. \A m \in i .. Margin - 1 : src[m] \in Spaces
  BY <1>1, MarginIs DEF Spaces
<1>5. /\ end \in 1 .. Len(src) + 1 /\ Margin <= end
      /\ ~AtEnd(end) => src[end] = "\n"
      /\ \A m \in Margin .. end - 1 : src[m] # "\n"
  BY <1>2, NextNewlineIs
<1> HIDE DEF end
<1>6. Len(src) \in Nat /\ i \in Nat /\ 1 <= i /\ i <= Len(src) + 1
  BY Position
<1>7. to \in 1 .. Len(src) + 1 /\ i <= to /\ end <= to /\ (AtEnd(end) \/ to = end + 1)
  BY <1>2, <1>5, <1>6 DEF AtEnd
<1>8. Consumed = SubSeq(src, i, to - 1)
  BY <1>1 DEF Consumed
<1>9. /\ to = end \/ (to = end + 1 /\ src[end] = "\n")
  BY <1>5
<1> HIDE DEF to
<1>0. WithinOneLine(to)
  <2> SUFFICES ASSUME NEW m \in i .. to - 2 PROVE src[m] # "\n"
    BY DEF WithinOneLine
  <2>1. to <= end + 1 /\ to \in Int /\ end \in Int /\ Margin \in Int
    BY <1>2, <1>5, <1>6, <1>7, <1>9
  <2>2. m \in i .. Margin - 1 \/ m \in Margin .. end - 1
    BY <1>2, <1>6, <2>1
  <2> QED  BY <1>4, <1>5, <2>2 DEF Spaces
<1>10. CASE At(Margin, {"#"})
  <2>1. src[Margin] = "#" /\ ~AtEnd(Margin)
    BY <1>10 DEF At
  <2>2. Margin \in i .. to - 1
    <3>1. Margin = end => to = end + 1
      BY <1>7, <2>1
    <3> QED  BY <1>2, <1>5, <1>6, <1>7, <3>1
  <2> QED  BY <1>0, <1>4, <1>7, <1>8, <2>1, <2>2, CommentsAreSkipped
<1>11. CASE ~At(Margin, {"#"})
  <2>1. AtEnd(Margin) \/ src[Margin] = "\n"
    BY <1>1, <1>11 DEF Useless, At
  <2>2. Margin = end
    BY <1>2, <1>5, <1>6, <2>1 DEF AtEnd
  <2>3. \A m \in i .. to - 1 : src[m] \in Blank
    <3> TAKE m \in i .. to - 1
    <3>1. m \in i .. Margin - 1 \/ (m = end /\ src[end] = "\n")
      BY <1>2, <1>6, <1>7, <1>9, <2>2
    <3> QED  BY <1>4, <3>1 DEF Blank, Spaces
  <2> QED  BY <1>0, <1>7, <1>8, <2>3, BlanksAreSkipped
<1> QED  BY <1>10, <1>11

LEMMA LayoutIsSkipped ==
    ASSUME IInv, SkipLine \/ SkipSpace \/ SkipComment \/ Newline
    PROVE  Skips
<1>1. Len(src) \in Nat /\ i \in Nat /\ 1 <= i /\ i <= Len(src) + 1
  BY Position
<1>2. CASE SkipLine
  BY <1>2, LineIsSkipped, NoTokens DEF SkipLine, Skips
<1>3. CASE SkipSpace \/ Newline
  <2> DEFINE to == i + 1
  <2>1. i' = to /\ ~AtEnd(i)
    BY <1>3 DEF SkipSpace, Newline, At
  <2>2. src[i] \in Blank
    BY <1>3 DEF SkipSpace, Newline, At, Blank
  <2>3. to \in 1 .. Len(src) + 1 /\ i <= to /\ \A m \in i .. to - 1 : m = i
    BY <1>1, <2>1 DEF AtEnd
  <2>4. Consumed = SubSeq(src, i, to - 1)
    BY <2>1 DEF Consumed
  <2> HIDE DEF to
  <2>5. WithinOneLine(to)
    <3>1. \A m \in i .. to - 2 : FALSE
      BY <1>1 DEF to
    <3> QED  BY <3>1 DEF WithinOneLine
  <2>6. IsSkipped(Consumed)
    BY <2>2, <2>3, <2>4, <2>5, BlanksAreSkipped
  <2>7. toks' = toks \/ toks' = Append(toks, Layout("newline"))
    BY <1>3 DEF SkipSpace, Newline
  <2> QED  BY <2>6, <2>7, NoTokens, OneLayout DEF Skips
<1>4. CASE SkipComment
  <2> DEFINE to == NextNewline(i)
  <2>1. ~AtEnd(i) /\ src[i] = "#" /\ i' = to /\ toks' = toks
    BY <1>4 DEF SkipComment, At
  <2>2. /\ to \in 1 .. Len(src) + 1 /\ i <= to
        /\ ~AtEnd(to) => src[to] = "\n"
        /\ \A m \in i .. to - 1 : src[m] # "\n"
    BY <1>1, NextNewlineIs
  <2>3. Consumed = SubSeq(src, i, to - 1)
    BY <2>1 DEF Consumed
  <2> HIDE DEF to
  <2>4. i < to /\ i \in i .. to - 1 /\ \A n \in i .. i - 1 : FALSE
    BY <1>1, <2>1, <2>2 DEF AtEnd
  <2>5. WithinOneLine(to)
    <3>1. \A m \in i .. to - 2 : m \in i .. to - 1
      BY <1>1, <2>2
    <3> QED  BY <2>2, <3>1 DEF WithinOneLine
  <2> QED  BY <2>1, <2>2, <2>3, <2>4, <2>5, CommentsAreSkipped, NoTokens DEF Skips
<1> QED  BY <1>2, <1>3, <1>4

LEMMA IndentationIsSkipped ==
    ASSUME IInv, Indent \/ Dedent, i' # i
    PROVE  Skips
<1>1. LineStart /\ i' = Margin
  BY DEF Indent, Dedent, CodeStarts
<1>2. Margin \in 1 .. Len(src) + 1 /\ i <= Margin /\ Width \in Nat
  BY <1>1, MarginIs
<1>3. IsSkipped(Consumed)
  <2>1. Consumed = SubSeq(src, i, Margin - 1)
    BY <1>1 DEF Consumed
  <2>2. \A m \in i .. Margin - 1 : src[m] \in Blank
    BY <1>1, MarginIs DEF Blank
  <2>3. WithinOneLine(Margin)
    <3>1. \A m \in i .. Margin - 1 : src[m] # "\n"
      BY <1>1, MarginIs
    <3>2. i \in Int
      BY Position
    <3>3. \A m \in i .. Margin - 2 : m \in i .. Margin - 1
      BY <1>2, <3>2
    <3> QED  BY <3>1, <3>3 DEF WithinOneLine
  <2> QED  BY <1>2, <2>1, <2>2, <2>3, BlanksAreSkipped
<1>4. CASE Indent
  BY <1>3, <1>4, OneLayout DEF Indent, Skips
<1>5. CASE Dedent
  <2> DEFINE t == Dedents(Len(indents) - Kept(Width))
  <2>1. toks' = toks \o t
    BY <1>5 DEF Dedent
  <2>2. Len(indents) - Kept(Width) \in Nat
    <3>1. IsStack(indents)
      BY <1>1 DEF LineStart, IInv
    <3>2. Kept(Width) \in 1 .. Len(indents)
      BY <1>2, <3>1, StackShrinks
    <3>3. Len(indents) \in Nat
      BY <3>1 DEF IsStack
    <3> QED  BY <3>2, <3>3
  <2>3. IsSeq(t) /\ \A m \in 1 .. Len(t) : t[m].kind = "dedent"
    BY <2>2, DedentsAre
  <2> HIDE DEF t
  <2>4. IsSeq(toks) /\ Len(toks) \in Nat /\ Len(t) \in Nat
    BY <2>3, SeqShape DEF IInv, Sound
  <2>5. /\ Len(toks') = Len(toks) + Len(t)
        /\ \A k \in Len(toks) + 1 .. Len(toks) + Len(t) : toks'[k] = t[k - Len(toks)]
    BY <2>1, <2>3, <2>4, ConcatSeq
  <2>6. \A n \in Len(toks) + 1 .. Len(toks') : toks'[n].kind = "dedent"
    <3> TAKE n \in Len(toks) + 1 .. Len(toks')
    <3>1. n - Len(toks) \in 1 .. Len(t)
      BY <2>4, <2>5
    <3> QED  BY <2>3, <2>5, <3>1
  <2> QED  BY <1>3, <2>6 DEF Skips
<1> QED  BY <1>4, <1>5

-----------------------------------------------------------------------------
(* Tokens are as long as they can be *)

LEMMA PairsBegin ==
    ASSUME NEW pair \in DOMAIN TwoChar
    PROVE  /\ Len(pair) = 2 /\ pair = <<pair[1], pair[2]>>
           /\ pair[1] \in OneChar \cup {"!", "/"}
<1>1. \/ pair = <<"=", "=">> \/ pair = <<"!", "=">> \/ pair = <<"<", "=">>
      \/ pair = <<">", "=">> \/ pair = <<"/", "/">>
  BY DEF TwoChar
<1>2. PICK a \in {"=", "!", "<", ">", "/"}, z \in {"=", "/"} : pair = <<a, z>>
  BY <1>1
<1>3. a \in OneChar \cup {"!", "/"}
  BY DEF OneChar
<1> QED  BY <1>2, <1>3

(* What begins a word, a literal and an operator is different. *)
LEMMA WordIsToken ==
    ASSUME NEW text \in Seq(IdentPart), text[1] \in Letter, Len(text) # 0, NEW c, c \notin IdentPart
    PROVE  IsToken(text) /\ ~IsToken(Append(text, c))
<1> DEFINE longer == Append(text, c)
<1>1. IsSeq(text) /\ Len(text) \in Nat \ {0}
  BY OwnSeq, SeqShape
<1>2. Len(longer) = Len(text) + 1 /\ longer[1] = text[1] /\ longer[Len(text) + 1] = c
  <2>1. /\ Len(longer) = Len(text) + 1 /\ longer[Len(text) + 1] = c
        /\ \A k \in 1 .. Len(text) : longer[k] = text[k]
    BY <1>1, AppendSeq
  <2>2. 1 \in 1 .. Len(text)
    BY <1>1
  <2> QED  BY <2>1, <2>2
<1> HIDE DEF longer
<1>3. longer \notin DOMAIN TwoChar
  <2> QED  BY <1>2, PairsBegin, WordsAreNoOperators
<1>4. Len(longer) # 1
  BY <1>1, <1>2
<1>5. longer \notin Seq(IdentPart)
  <2>1. Len(text) + 1 \in 1 .. Len(longer)
    BY <1>1, <1>2
  <2> QED  BY <1>2, <2>1
<1>6. longer \notin Seq(DOMAIN Digit)
  <2>1. 1 \in 1 .. Len(longer)
    BY <1>1, <1>2
  <2>2. text[1] \notin DOMAIN Digit
    BY WordsAreNoOperators
  <2> QED  BY <1>2, <2>1, <2>2
<1> QED  BY <1>3, <1>4, <1>5, <1>6 DEF IsToken, longer

LEMMA LiteralIsToken ==
    ASSUME NEW text \in Seq(DOMAIN Digit), Len(text) # 0, NEW c, c \notin DOMAIN Digit
    PROVE  IsToken(text) /\ ~IsToken(Append(text, c))
<1> DEFINE longer == Append(text, c)
<1>1. IsSeq(text) /\ Len(text) \in Nat \ {0} /\ text[1] \in DOMAIN Digit
  <2>1. IsSeq(text) /\ Len(text) \in Nat \ {0}
    BY OwnSeq, SeqShape
  <2>2. 1 \in 1 .. Len(text)
    BY <2>1
  <2> QED  BY <2>1, <2>2
<1>2. Len(longer) = Len(text) + 1 /\ longer[1] = text[1] /\ longer[Len(text) + 1] = c
  <2>1. /\ Len(longer) = Len(text) + 1 /\ longer[Len(text) + 1] = c
        /\ \A k \in 1 .. Len(text) : longer[k] = text[k]
    BY <1>1, AppendSeq
  <2>2. 1 \in 1 .. Len(text)
    BY <1>1
  <2> QED  BY <2>1, <2>2
<1> HIDE DEF longer
<1>3. longer \notin DOMAIN TwoChar
  <2> QED  BY <1>1, <1>2, PairsBegin, WordsAreNoOperators
<1>4. Len(longer) # 1
  BY <1>1, <1>2
<1>5. longer[1] \notin Letter
  BY <1>1, <1>2, WordsAreNoOperators
<1>6. longer \notin Seq(DOMAIN Digit)
  <2>1. Len(text) + 1 \in 1 .. Len(longer)
    BY <1>1, <1>2
  <2> QED  BY <1>2, <2>1
<1> QED  BY <1>3, <1>4, <1>5, <1>6 DEF IsToken, longer

(* The token a turn appends is the last one. *)
LEMMA Appended ==
    ASSUME IInv, NEW e, toks' = Append(toks, e)
    PROVE  Last(toks') = e /\ toks' = Append(toks, Last(toks'))
<1>1. Len(toks') = Len(toks) + 1 /\ toks'[Len(toks) + 1] = e
  BY AppendSeq DEF IInv, Sound
<1> QED  BY <1>1 DEF Last

LEMMA WordMunches ==
    ASSUME IInv, Word
    PROVE  Munches
<1> DEFINE end == After(IdentPart, i)
           word == SubSeq(src, i, end - 1)
           kind == IF word \in DOMAIN Keyword THEN Keyword[word] ELSE "ident"
<1>1. At(i, IdentPart) /\ src[i] \in Letter /\ Take(kind, word, end)
  BY DEF Word, At, IdentPart
<1>2. word \in Seq(IdentPart) /\ Len(word) # 0 /\ word[1] = src[i]
  BY <1>1, TakenText
<1>3. ~AtEnd(end) => src[end] \notin IdentPart
  BY AfterStops DEF IInv, At
<1>4. i' = end /\ toks' = Append(toks, Token(kind, word)) /\ Consumed = word
  BY <1>1 DEF Take, Consumed
<1>5. Token(kind, word).text = word
  BY DEF Token
<1> HIDE DEF word, end, kind
<1>6. word # <<>>
  BY <1>2
<1>7. Last(toks') = Token(kind, word) /\ toks' = Append(toks, Last(toks'))
  BY <1>4, Appended
<1>8. Spelling(Last(toks')) = Consumed
  BY <1>4, <1>5, <1>6, <1>7 DEF Spelling
<1>9. IsToken(word)
  BY <1>1, <1>2 DEF IsToken
<1>10. ~AtEnd(end) => ~IsToken(Append(word, src[end]))
  BY <1>1, <1>2, <1>3, WordIsToken
<1> QED  BY <1>4, <1>7, <1>8, <1>9, <1>10 DEF Munches

LEMMA IntegerMunches ==
    ASSUME IInv, Integer
    PROVE  Munches
<1> DEFINE end == After(DOMAIN Digit, i)
           text == SubSeq(src, i, end - 1)
<1>1. At(i, DOMAIN Digit) /\ Take("integer", text, end)
  BY DEF Integer
<1>2. text \in Seq(DOMAIN Digit) /\ Len(text) # 0
  BY <1>1, TakenText
<1>3. ~AtEnd(end) => src[end] \notin DOMAIN Digit
  BY AfterStops DEF IInv, At
<1>4. i' = end /\ toks' = Append(toks, Token("integer", text)) /\ Consumed = text
  BY <1>1 DEF Take, Consumed
<1>5. Token("integer", text).text = text
  BY DEF Token
<1> HIDE DEF text, end
<1>6. text # <<>>
  BY <1>2
<1>7. Last(toks') = Token("integer", text) /\ toks' = Append(toks, Last(toks'))
  BY <1>4, Appended
<1>8. Spelling(Last(toks')) = Consumed
  BY <1>4, <1>5, <1>6, <1>7 DEF Spelling
<1>9. IsToken(text)
  BY <1>2 DEF IsToken
<1>10. ~AtEnd(end) => ~IsToken(Append(text, src[end]))
  BY <1>2, <1>3, LiteralIsToken
<1> QED  BY <1>4, <1>7, <1>8, <1>9, <1>10 DEF Munches

(* The two-character operators are spelt differently. *)
LEMMA PairsDiffer ==
    ASSUME NEW pair \in DOMAIN TwoChar
    PROVE  /\ Spelling(Token(TwoChar[pair], <<>>)) = pair
           /\ TwoChar[pair] \notin OneChar
           /\ Len(pair) = 2 /\ pair = <<pair[1], pair[2]>>
           /\ pair[1] \in OneChar \cup {"!", "/"}
<1>1. TwoChar[pair] \notin OneChar
  BY DEF TwoChar, OneChar
<1>2. \A other \in DOMAIN TwoChar : TwoChar[other] = TwoChar[pair] => other = pair
  BY DEF TwoChar
<1>3. Token(TwoChar[pair], <<>>).text = <<>> /\ Token(TwoChar[pair], <<>>).kind = TwoChar[pair]
  BY DEF Token
<1> QED  BY <1>1, <1>2, <1>3, PairsBegin DEF Spelling

LEMMA TwoCharacters ==
    ASSUME IInv, i + 1 \in 1 .. Len(src)
    PROVE  Ahead = <<src[i], src[i + 1]>>
<1> DEFINE to == i + 2
<1>1. Len(src) \in Nat /\ i \in Nat /\ 1 <= i /\ i <= Len(src) + 1
  BY Position
<1>2. to \in 1 .. Len(src) + 1 /\ i <= to /\ to - 1 = i + 1 /\ to - i = 2
  BY <1>1
<1>3. i + 1 - 1 = i /\ i + 2 - 1 = i + 1
  BY <1>1
<1> DEFINE text == SubSeq(src, i, to - 1)
<1> HIDE DEF to
<1>4. /\ text \in Seq(STRING) /\ DOMAIN text = 1 .. to - i /\ Len(text) = to - i
      /\ \A k \in 1 .. to - i : text[k] = src[i + k - 1]
  BY <1>2, CutText
<1>5. text = Ahead
  BY <1>2 DEF Ahead
<1> HIDE DEF text
<1>6. Len(text) = 2 /\ text[1] = src[i] /\ text[2] = src[i + 1]
  <2>1. 1 \in 1 .. 2 /\ 2 \in 1 .. 2
    OBVIOUS
  <2> QED  BY <1>2, <1>3, <1>4, <2>1
<1>7. text = <<text[1], text[2]>>
  <2> DEFINE tuple == <<text[1], text[2]>>
  <2>1. text[1] \in STRING /\ text[2] \in STRING
    <3>1. src[i] \in STRING /\ src[i + 1] \in STRING
      BY <1>1, Position
    <3> QED  BY <1>6, <3>1
  <2>2. tuple \in Seq(STRING) /\ Len(tuple) = 2 /\ tuple[1] = text[1] /\ tuple[2] = text[2]
    BY <2>1
  <2> HIDE DEF tuple
  <2>3. \A k \in 1 .. 2 : k = 1 \/ k = 2
    OBVIOUS
  <2>4. \A k \in 1 .. Len(text) : text[k] = tuple[k]
    BY <1>6, <2>2, <2>3
  <2>5. text = tuple
    BY <1>4, <1>6, <2>2, <2>4, SeqEqual
  <2> QED  BY <2>5 DEF tuple
<1> QED  BY <1>5, <1>6, <1>7

LEMMA OneCharacter ==
    ASSUME IInv, i \in 1 .. Len(src)
    PROVE  SubSeq(src, i, i) = <<src[i]>>
<1> DEFINE to == i + 1
<1>1. Len(src) \in Nat /\ i \in Nat /\ 1 <= i /\ i <= Len(src) + 1
  BY Position
<1>2. to \in 1 .. Len(src) + 1 /\ i <= to /\ to - 1 = i /\ to - i = 1 /\ i + 1 - 1 = i
  BY <1>1
<1> DEFINE text == SubSeq(src, i, to - 1)
<1> HIDE DEF to
<1>3. /\ text \in Seq(STRING) /\ Len(text) = to - i
      /\ \A k \in 1 .. to - i : text[k] = src[i + k - 1]
  BY <1>2, CutText
<1>4. text = SubSeq(src, i, i)
  BY <1>2
<1> HIDE DEF text
<1>5. Len(text) = 1 /\ text[1] = src[i] /\ \A k \in 1 .. 1 : k = 1
  <2>1. 1 \in 1 .. 1
    OBVIOUS
  <2> QED  BY <1>2, <1>3, <2>1
<1> DEFINE tuple == <<src[i]>>
<1>6. tuple \in Seq(STRING) /\ Len(tuple) = 1 /\ tuple[1] = src[i]
  <2>1. src[i] \in STRING
    BY Position
  <2> QED  BY <2>1
<1> HIDE DEF tuple
<1>7. \A k \in 1 .. Len(text) : text[k] = tuple[k]
  BY <1>5, <1>6
<1>8. text = tuple
  BY <1>3, <1>5, <1>6, <1>7, SeqEqual
<1> QED  BY <1>4, <1>8 DEF tuple

LEMMA AppendToOne ==
    ASSUME NEW c, NEW d
    PROVE  Append(<<c>>, d) = <<c, d>>
<1> DEFINE S == {c, d}
           s == <<c>>
           t == <<c, d>>
<1>1. /\ s \in Seq(S) /\ Len(s) = 1 /\ s[1] = c
      /\ t \in Seq(S) /\ Len(t) = 2 /\ t[1] = c /\ t[2] = d /\ d \in S
  OBVIOUS
<1> HIDE DEF S, s, t
<1>2. /\ Append(s, d) \in Seq(S) /\ Len(Append(s, d)) = 2
      /\ Append(s, d)[1] = c /\ Append(s, d)[2] = d
  <2>1. /\ Append(s, d) \in Seq(S) /\ Len(Append(s, d)) = Len(s) + 1
        /\ \A k \in 1 .. Len(s) : Append(s, d)[k] = s[k]
        /\ Append(s, d)[Len(s) + 1] = d
    <3>1. IsSeq(s)
      BY <1>1, OwnSeq
    <3>2. /\ Len(Append(s, d)) = Len(s) + 1
          /\ \A k \in 1 .. Len(s) : Append(s, d)[k] = s[k]
          /\ Append(s, d)[Len(s) + 1] = d
      BY <3>1, AppendSeq
    <3>3. Append(s, d) \in Seq(S)
      BY <1>1
    <3> QED  BY <3>2, <3>3
  <2>2. 1 \in 1 .. Len(s) /\ Len(s) + 1 = 2
    BY <1>1
  <2>3. Append(s, d)[2] = d /\ Append(s, d)[1] = c
    BY <1>1, <2>1, <2>2
  <2> QED  BY <2>1, <2>2, <2>3
<1>3. \A k \in 1 .. 2 : k = 1 \/ k = 2
  OBVIOUS
<1>4. \A k \in 1 .. Len(t) : Append(s, d)[k] = t[k]
  BY <1>1, <1>2, <1>3
<1>5. Append(s, d) = t
  BY <1>1, <1>2, <1>4, SeqEqual
<1> QED  BY <1>5 DEF s, t

LEMMA OperatorMunches ==
    ASSUME IInv, Operator
    PROVE  Munches
<1>1. /\ Len(src) \in Nat /\ i \in Nat /\ i \in 1 .. Len(src) /\ ~AtEnd(i)
      /\ \A k \in 1 .. Len(src) : src[k] \in STRING
  BY Position DEF Operator, Inside, AtEnd
<1>2. CASE TakeTwo
  <2>1. /\ i + 1 \in 1 .. Len(src) /\ i + 2 - 1 = i + 1 /\ Ahead \in DOMAIN TwoChar
        /\ i' = i + 2 /\ toks' = Append(toks, Token(TwoChar[Ahead], <<>>))
    BY <1>1, <1>2 DEF TakeTwo, TwoAhead, AtEnd, Take
  <2> DEFINE pair == Ahead
  <2>2. Consumed = pair
    <3>1. i' - 1 = i + 1
      BY <1>1, <2>1
    <3> QED  BY <3>1 DEF Consumed, Ahead
  <2> HIDE DEF pair
  <2>3. /\ pair \in DOMAIN TwoChar /\ toks' = Append(toks, Token(TwoChar[pair], <<>>))
    BY <2>1 DEF pair
  <2>4. /\ Spelling(Token(TwoChar[pair], <<>>)) = pair
        /\ Len(pair) = 2 /\ pair = <<pair[1], pair[2]>>
        /\ pair[1] \in OneChar \cup {"!", "/"}
    BY <2>3, PairsDiffer
  <2>5. ASSUME NEW c PROVE ~IsToken(Append(pair, c))
    <3> DEFINE longer == Append(pair, c)
    <3>1. Len(longer) = 3 /\ longer[1] = pair[1] /\ DOMAIN longer = 1 .. 3
      <4>1. pair \in Seq({pair[1], pair[2]})
        BY <2>4
      <4>2. IsSeq(pair)
        BY <4>1, OwnSeq
      <4>3. IsSeq(longer) /\ Len(longer) = Len(pair) + 1
        BY <4>2, AppendSeq
      <4>4. \A k \in 1 .. Len(pair) : longer[k] = pair[k]
        BY <4>2, AppendSeq
      <4>5. 1 \in 1 .. Len(pair) /\ Len(pair) + 1 = 3
        BY <2>4
      <4> HIDE DEF longer
      <4> QED  BY <4>3, <4>4, <4>5, SeqShape
    <3> HIDE DEF longer
    <3>2. longer \notin DOMAIN TwoChar
      BY <3>1, PairsDiffer
    <3>3. longer[1] \notin Letter \cup DOMAIN Digit
      BY <2>4, <3>1, WordsAreNoOperators
    <3>4. longer \notin Seq(DOMAIN Digit)
      BY <3>1, <3>3
    <3> QED  BY <3>1, <3>2, <3>3, <3>4 DEF IsToken, longer
  <2>6. Last(toks') = Token(TwoChar[pair], <<>>) /\ toks' = Append(toks, Last(toks'))
    BY <2>3, Appended
  <2> QED  BY <2>2, <2>3, <2>4, <2>5, <2>6 DEF Munches, IsToken
<1>3. CASE ~TwoAhead /\ TakeOne
  <2> DEFINE c == src[i]
  <2>1. /\ c \in OneChar /\ i' = i + 1 /\ i + 1 - 1 = i
        /\ toks' = Append(toks, Token(c, <<>>))
    BY <1>1, <1>3 DEF TakeOne, At, Take
  <2>2. Consumed = <<c>>
    <3>1. i' - 1 = i
      BY <1>1, <2>1
    <3> QED  BY <1>1, <3>1, OneCharacter DEF Consumed
  <2>3. Token(c, <<>>).text = <<>> /\ Token(c, <<>>).kind = c
    BY DEF Token
  <2>4. Last(toks') = Token(c, <<>>) /\ toks' = Append(toks, Last(toks'))
    BY <2>1, Appended
  <2>5. Spelling(Last(toks')) = <<c>>
    BY <2>1, <2>3, <2>4 DEF Spelling
  <2>6. IsToken(<<c>>)
    BY <2>1 DEF IsToken
  <2>7. ASSUME ~AtEnd(i + 1) PROVE ~IsToken(Append(<<c>>, src[i + 1]))
    <3>1. i + 1 \in 1 .. Len(src)
      BY <1>1, <2>7 DEF AtEnd
    <3>2. Append(<<c>>, src[i + 1]) = <<c, src[i + 1]>> /\ Ahead = <<c, src[i + 1]>>
      <4>1. Ahead = <<c, src[i + 1]>>
        BY <1>1, <3>1, TwoCharacters
      <4> QED  BY <4>1, AppendToOne
    <3> DEFINE longer == <<c, src[i + 1]>>
    <3>3. longer \notin DOMAIN TwoChar
      BY <1>3, <2>7, <3>2 DEF TwoAhead
    <3>4. Len(longer) = 2 /\ longer[1] = c
      OBVIOUS
    <3>5. c \notin Letter \cup DOMAIN Digit
      BY <2>1, WordsAreNoOperators
    <3> HIDE DEF longer, c
    <3>6. longer \notin Seq(DOMAIN Digit)
      BY <3>4, <3>5
    <3>7. ~IsToken(longer)
      BY <3>3, <3>4, <3>5, <3>6 DEF IsToken
    <3> QED  BY <3>2, <3>7 DEF longer
  <2> QED  BY <2>1, <2>2, <2>4, <2>5, <2>6, <2>7 DEF Munches
<1> QED  BY <1>2, <1>3 DEF Operator

(* Whatever the source, no turn of the loop drops a character that is not  *)
(* layout or splits what could be one token (lexer.cc:72-229).             *)
THEOREM TokensAreWhole == Spec => MunchesWhole
<1>1. ASSUME IInv, Next, i' # i PROVE Munches
  <2>1. CASE SkipLine \/ SkipSpace \/ SkipComment \/ Newline \/ Indent \/ Dedent
    BY <1>1, <2>1, LayoutIsSkipped, IndentationIsSkipped DEF Munches
  <2>2. CASE Word \/ Integer \/ Operator
    BY <1>1, <2>2, WordMunches, IntegerMunches, OperatorMunches
  <2>3. CASE TabInIndent \/ BadChar \/ Finish
    BY <1>1, <2>3 DEF TabInIndent, BadChar, Finish, Fail
  <2> QED  BY <1>1, <2>1, <2>2, <2>3 DEF Next
<1>2. Spec => []IInv
  BY InitEstablishes, NextPreserves, PTL DEF Spec
<1>3. IInv /\ [Next]_vars => [i' # i => Munches]_vars
  BY <1>1
<1>4. Spec => [][i' # i => Munches]_vars
  BY <1>2, <1>3, PTL DEF Spec
<1> QED  BY <1>4 DEF MunchesWhole, Munches, Skips

-----------------------------------------------------------------------------
(* The lines of a text *)

(* The lines before n, and the top level, whose blocks are open at n. *)
Open(n) ==
    {k \in CodeLines \cup {0} :
        k < n /\ \A m \in Between(k, n) : WidthOf(k) < WidthOf(m)}

LEMMA SameText ==
    ASSUME src' = src
    PROVE  /\ CodeLines' = CodeLines /\ Starts' = Starts
           /\ \A l : WidthOf(l)' = WidthOf(l)
           /\ \A k, l : Between(k, l)' = Between(k, l)
           /\ \A l : Enclosing(l)' = Enclosing(l)
           /\ \A l : Aligned(l)' <=> Aligned(l)
           /\ \A n : Open(n)' = Open(n)
<1>1. CodeLines' = CodeLines /\ Starts' = Starts
  BY DEF CodeLines, At, AtEnd, MarginOf, After, Starts
<1>2. \A l : WidthOf(l)' = WidthOf(l)
  BY DEF WidthOf, MarginOf, After, At, AtEnd
<1>3. \A k, l : Between(k, l)' = Between(k, l)
  BY <1>1 DEF Between
<1>4. \A l : Enclosing(l)' = Enclosing(l)
  BY <1>1, <1>2, <1>3 DEF Enclosing
<1>5. \A l : Aligned(l)' <=> Aligned(l)
  BY <1>1, <1>2, <1>3 DEF Aligned
<1>6. \A n : Open(n)' = Open(n)
  BY <1>1, <1>2, <1>3 DEF Open
<1> QED  BY <1>1, <1>2, <1>3, <1>4, <1>5, <1>6

LEMMA LinesAre ==
    ASSUME IInv
    PROVE  /\ Len(src) \in Nat
           /\ Starts \subseteq 1 .. Len(src) + 1
           /\ CodeLines \subseteq Starts /\ CodeLines \subseteq 1 .. Len(src)
           /\ \A l \in CodeLines \cup {0} : l \in Nat /\ WidthOf(l) \in Nat
<1>1. Len(src) \in Nat /\ DOMAIN src = 1 .. Len(src)
  BY Position
<1>2. Starts \subseteq 1 .. Len(src) + 1
  BY <1>1 DEF Starts
<1>3. CodeLines \subseteq Starts
  BY DEF CodeLines
<1>4. ASSUME NEW l \in CodeLines PROVE l \in 1 .. Len(src) /\ WidthOf(l) \in Nat
  <2>1. l \in 1 .. Len(src) + 1
    BY <1>2, <1>3
  <2>2. MarginOf(l) \in l .. Len(src) + 1
    BY <2>1, AfterStops DEF MarginOf, IInv
  <2>3. ~AtEnd(MarginOf(l))
    BY DEF CodeLines
  <2>4. MarginOf(l) <= Len(src)
    BY <1>1, <2>1, <2>2, <2>3 DEF AtEnd
  <2> QED  BY <1>1, <2>1, <2>2, <2>4 DEF WidthOf
<1> QED  BY <1>1, <1>2, <1>3, <1>4 DEF WidthOf

(* No line begins where no newline precedes. *)
LEMMA NoLineWithin ==
    ASSUME IInv, NEW from \in Nat \ {0}, NEW to \in Nat,
           \A k \in from .. to - 1 : src[k] # "\n"
    PROVE  \A m \in from + 1 .. to : m \notin CodeLines
<1> SUFFICES ASSUME NEW m \in from + 1 .. to, m \in CodeLines PROVE FALSE
  OBVIOUS
<1>1. m \in Starts /\ m \in Nat /\ m # 1
  BY LinesAre
<1>2. PICK k \in DOMAIN src : src[k] = "\n" /\ m = k + 1
  BY <1>1 DEF Starts
<1>3. k \in from .. to - 1
  BY <1>2, Position
<1> QED  BY <1>2, <1>3

LEMMA NothingOpens ==
    ASSUME IInv, NEW n \in Nat \ {0}, NEW to \in Nat, n <= to,
           \A m \in n .. to - 1 : m \notin CodeLines
    PROVE  /\ Open(to) = Open(n)
           /\ \A l \in CodeLines : l < to <=> l < n
           /\ HowMany(CodeLines, to - 1) = HowMany(CodeLines, n - 1)
<1>1. \A l \in CodeLines \cup {0} : l \in Nat
  BY LinesAre
<1>2. \A l \in CodeLines \cup {0} : l < to <=> l < n
  BY <1>1
<1>3. \A k \in CodeLines \cup {0} : Between(k, to) = Between(k, n)
  BY <1>2 DEF Between
<1>4. Open(to) = Open(n)
  BY <1>2, <1>3 DEF Open
<1> DEFINE a == n - 1
           z == to - 1
<1>5. a \in Nat /\ z \in Nat /\ a <= z /\ \A m \in a + 1 .. z : m \notin CodeLines
  OBVIOUS
<1> HIDE DEF a, z
<1>6. HowMany(CodeLines, z) = HowMany(CodeLines, a)
  BY <1>5, HowManyPastRun
<1> QED  BY <1>2, <1>4, <1>6 DEF a, z

(* Past a line of code, what is open is what it lies in, and the line. *)
LEMMA LineOpens ==
    ASSUME IInv, NEW l \in CodeLines
    PROVE  /\ Enclosing(l) = {k \in Open(l) : WidthOf(k) < WidthOf(l)}
           /\ Open(l + 1) = Enclosing(l) \cup {l}
           /\ l \notin Enclosing(l)
<1>1. l \in Nat /\ \A k \in CodeLines \cup {0} : k \in Nat /\ WidthOf(k) \in Nat
  BY LinesAre
<1>2. Enclosing(l) = {k \in Open(l) : WidthOf(k) < WidthOf(l)}
  BY DEF Enclosing, Open
<1>5. \A k \in CodeLines \cup {0} : k < l + 1 <=> (k < l \/ k = l)
  <2> TAKE k \in CodeLines \cup {0}
  <2>1. k \in Nat
    BY <1>1
  <2> QED  BY <1>1, <2>1
<1>3. \A k \in CodeLines \cup {0} : k < l => Between(k, l + 1) = Between(k, l) \cup {l}
  BY <1>5 DEF Between
<1>4. Between(l, l + 1) = {}
  <2>1. ASSUME NEW m \in CodeLines, l < m, m < l + 1 PROVE FALSE
    <3>1. m \in Nat
      BY <1>1
    <3> QED  BY <1>1, <2>1, <3>1
  <2> QED  BY <2>1 DEF Between
<1>6. \A k \in CodeLines \cup {0} : k \in Open(l + 1) <=> (k \in Enclosing(l) \/ k = l)
  <2> TAKE k \in CodeLines \cup {0}
  <2>1. CASE k < l
    <3>1. k # l
      BY <1>1, <2>1
    <3>2. k \in Open(l + 1) <=> \A m \in Between(k, l) \cup {l} : WidthOf(k) < WidthOf(m)
      BY <1>3, <1>5, <2>1 DEF Open
    <3> QED  BY <2>1, <3>1, <3>2 DEF Enclosing
  <2>2. CASE k = l
    BY <1>4, <1>5, <2>2 DEF Open
  <2>3. CASE ~(k < l) /\ k # l
    BY <1>5, <2>3 DEF Open, Enclosing
  <2> QED  BY <2>1, <2>2, <2>3
<1>7. Open(l + 1) \subseteq CodeLines \cup {0} /\ Enclosing(l) \subseteq CodeLines \cup {0}
  BY DEF Open, Enclosing
<1>8. l \notin Enclosing(l)
  BY <1>1 DEF Enclosing
<1> QED  BY <1>2, <1>6, <1>7, <1>8

(* A line that is open lies in those opened before it. *)
LEMMA OpenNest ==
    ASSUME IInv, NEW n, NEW k \in Open(n), NEW m \in Open(n), k < m
    PROVE  WidthOf(k) < WidthOf(m)
<1>1. k \in Nat /\ m \in Nat
  BY LinesAre DEF Open
<1>2. m \in CodeLines /\ m < n
  BY <1>1 DEF Open
<1> QED  BY <1>2 DEF Open, Between

-----------------------------------------------------------------------------
(* The stack holds the widths of the lines that are open *)

Tracks(st, n) ==
    /\ \A j \in 1 .. Len(st) : \E k \in Open(n) : st[j] = WidthOf(k)
    /\ \A k \in Open(n) : \E j \in 1 .. Len(st) : st[j] = WidthOf(k)

LEMMA StackCounts ==
    ASSUME IInv, NEW st, IsStack(st), NEW n, Tracks(st, n)
    PROVE  IsFiniteSet(Open(n)) /\ Cardinality(Open(n)) = Len(st)
<1> DEFINE J == 1 .. Len(st)
           g == [j \in J |-> CHOOSE k \in Open(n) : st[j] = WidthOf(k)]
<1>1. Len(st) \in Nat /\ DOMAIN st = J /\ \A j \in J : st[j] \in Nat
  BY DEF IsStack
<1>2. \A j \in J : g[j] \in Open(n) /\ st[j] = WidthOf(g[j])
  BY DEF Tracks
<1>3. g \in [J -> Open(n)]
  BY <1>2
<1> HIDE DEF g
<1>4. \A j, m \in J : g[j] = g[m] => j = m
  <2> SUFFICES ASSUME NEW j \in J, NEW m \in J, g[j] = g[m], j # m PROVE FALSE
    OBVIOUS
  <2>1. st[j] = st[m]
    BY <1>2
  <2>2. j < m \/ m < j
    BY <1>1
  <2>3. st[j] < st[m] \/ st[m] < st[j]
    BY <1>1, <2>2 DEF IsStack
  <2> QED  BY <1>1, <2>1, <2>3
<1>5. \A k \in Open(n) : \E j \in J : g[j] = k
  <2> TAKE k \in Open(n)
  <2>1. PICK j \in J : st[j] = WidthOf(k)
    BY DEF Tracks
  <2>2. WidthOf(g[j]) = WidthOf(k) /\ g[j] \in Open(n)
    BY <1>2, <2>1
  <2>3. g[j] \in Nat /\ k \in Nat /\ WidthOf(k) \in Nat
    BY <2>2, LinesAre DEF Open
  <2>4. ~(g[j] < k) /\ ~(k < g[j])
    BY <2>2, <2>3, OpenNest
  <2> QED  BY <2>3, <2>4
<1>6. g \in Bijection(J, Open(n))
  BY <1>3, <1>4, <1>5 DEF Bijection, Injection, Surjection, IsInjective
<1>7. IsFiniteSet(J) /\ Cardinality(J) = Len(st)
  <2>1. 1 \in Int /\ Len(st) \in Int /\ (IF 1 > Len(st) THEN 0 ELSE Len(st) - 1 + 1) = Len(st)
    BY <1>1
  <2> QED  BY <2>1, FS_Interval
<1>8. ExistsBijection(J, Open(n))
  BY <1>6 DEF ExistsBijection
<1> QED  BY <1>7, <1>8, FS_Bijection

(* A line lies as deep as the stack is high, but for its own entry. *)
LEMMA DepthIsEnclosing ==
    ASSUME IInv, NEW st, IsStack(st), NEW l \in CodeLines, Tracks(st, l + 1)
    PROVE  Cardinality(Enclosing(l)) = Len(st) - 1
<1>1. IsFiniteSet(Open(l + 1)) /\ Cardinality(Open(l + 1)) = Len(st)
  BY StackCounts
<1>2. Open(l + 1) = Enclosing(l) \cup {l} /\ l \notin Enclosing(l)
  BY LineOpens
<1>3. Enclosing(l) = Open(l + 1) \ {l} /\ l \in Open(l + 1)
  BY <1>2
<1> QED  BY <1>1, <1>3, FS_RemoveElement

LEMMA StackIs ==
    ASSUME NEW st, IsStack(st)
    PROVE  /\ Len(st) \in Nat \ {0} /\ DOMAIN st = 1 .. Len(st)
           /\ Last(st) = st[Len(st)] /\ Len(st) \in 1 .. Len(st)
           /\ \A j \in 1 .. Len(st) : st[j] \in Nat /\ st[j] <= Last(st)
<1>1. Len(st) \in Nat \ {0} /\ DOMAIN st = 1 .. Len(st) /\ \A j \in 1 .. Len(st) : st[j] \in Nat
  BY EmptySeq DEF IsStack
<1>2. Last(st) = st[Len(st)] /\ Len(st) \in 1 .. Len(st)
  BY <1>1 DEF Last
<1>3. \A j \in 1 .. Len(st) : st[j] <= st[Len(st)]
  BY <1>1, <1>2 DEF IsStack
<1> QED  BY <1>1, <1>2, <1>3

(* A wider line opens a block. *)
LEMMA StackOpens ==
    ASSUME IInv, NEW st, IsStack(st), NEW l \in CodeLines, Tracks(st, l),
           WidthOf(l) > Last(st)
    PROVE  Tracks(Append(st, WidthOf(l)), l + 1) /\ Aligned(l)
<1> DEFINE new == Append(st, WidthOf(l))
<1>1. l \in Nat /\ WidthOf(l) \in Nat
  BY LinesAre
<1>2. /\ Len(st) \in Nat /\ \A j \in 1 .. Len(st) : st[j] \in Nat /\ st[j] <= Last(st)
      /\ Last(st) \in Nat
  BY StackIs
<1>3. \A k \in Open(l) : WidthOf(k) < WidthOf(l)
  <2> TAKE k \in Open(l)
  <2>1. PICK j \in 1 .. Len(st) : st[j] = WidthOf(k)
    BY DEF Tracks
  <2> QED  BY <1>1, <1>2, <2>1
<1>4. Open(l + 1) = Open(l) \cup {l}
  BY <1>3, LineOpens
<1>5. /\ Len(new) = Len(st) + 1 /\ new[Len(st) + 1] = WidthOf(l)
      /\ \A j \in 1 .. Len(st) : new[j] = st[j]
  BY <1>1, AppendProperties DEF IsStack
<1> HIDE DEF new
<1>6. \A j \in 1 .. Len(new) : j \in 1 .. Len(st) \/ j = Len(st) + 1
  BY <1>2, <1>5
<1>7. 1 .. Len(st) \subseteq 1 .. Len(new) /\ Len(st) + 1 \in 1 .. Len(new)
  BY <1>2, <1>5
<1>8. \A j \in 1 .. Len(new) : \E k \in Open(l + 1) : new[j] = WidthOf(k)
  BY <1>4, <1>5, <1>6 DEF Tracks
<1>9. \A k \in Open(l + 1) : \E j \in 1 .. Len(new) : new[j] = WidthOf(k)
  BY <1>4, <1>5, <1>7 DEF Tracks
<1>10. Aligned(l)
  BY <1>3 DEF Aligned, Open
<1> QED  BY <1>8, <1>9, <1>10 DEF Tracks, new

LEMMA KeptIs ==
    ASSUME IsStack(indents), NEW w \in Nat
    PROVE  /\ Kept(w) \in 1 .. Len(indents) /\ indents[Kept(w)] <= w
           /\ \A j \in 1 .. Len(indents) : indents[j] <= w <=> j <= Kept(w)
<1> DEFINE n == Len(indents)
           K == {k \in DOMAIN indents : indents[k] <= w}
<1>1. n \in Nat \ {0} /\ DOMAIN indents = 1 .. n /\ \A j \in 1 .. n : indents[j] \in Nat
  BY StackIs
<1>2. Kept(w) \in K /\ \A j \in K : j <= Kept(w)
  <2>1. K \in SUBSET (0 .. n) /\ 1 \in K
    BY <1>1 DEF IsStack
  <2>2. Max(K) \in K /\ \A j \in K : j <= Max(K)
    <3> HIDE DEF K
    <3> QED  BY <1>1, <2>1, Greatest
  <2> QED  BY <2>2 DEF Kept
<1>3. Kept(w) \in 1 .. n /\ indents[Kept(w)] <= w
  BY <1>1, <1>2
<1>4. ASSUME NEW j \in 1 .. n, j <= Kept(w) PROVE indents[j] <= w
  <2>1. j = Kept(w) \/ j < Kept(w)
    BY <1>1, <1>3, <1>4
  <2>2. indents[j] <= indents[Kept(w)]
    BY <1>1, <1>3, <2>1 DEF IsStack
  <2> QED  BY <1>1, <1>3, <2>2
<1> QED  BY <1>1, <1>2, <1>3, <1>4

(* A line as wide as one of the open ones goes back to its block. *)
LEMMA StackCloses ==
    ASSUME IInv, IsStack(indents), NEW l \in CodeLines, Tracks(indents, l),
           indents[Kept(WidthOf(l))] = WidthOf(l)
    PROVE  Tracks(SubSeq(indents, 1, Kept(WidthOf(l))), l + 1) /\ Aligned(l)
<1> DEFINE w == WidthOf(l)
           top == Kept(w)
           new == SubSeq(indents, 1, top)
<1>1. l \in Nat /\ w \in Nat
  BY LinesAre
<1>2. /\ Len(indents) \in Nat /\ DOMAIN indents = 1 .. Len(indents)
      /\ \A j \in 1 .. Len(indents) : indents[j] \in Nat
  BY StackIs
<1>3. /\ top \in 1 .. Len(indents) /\ indents[top] = w
      /\ \A j \in 1 .. Len(indents) : indents[j] <= w <=> j <= top
  BY <1>1, KeptIs
<1> HIDE DEF w, top
<1>4. /\ Len(new) = top /\ \A j \in 1 .. top : new[j] = indents[j]
  <2>1. \A m \in 1 .. top : indents[m] \in Nat
    BY <1>2, <1>3
  <2>2. /\ Len(new) = IF 1 <= top THEN top - 1 + 1 ELSE 0
        /\ \A m \in 1 .. top - 1 + 1 : new[m] = indents[1 + m - 1]
    BY <1>3, <2>1, SubSeqProperties
  <2> QED  BY <1>2, <1>3, <2>2
<1> HIDE DEF new
<1>5. Open(l + 1) = {k \in Open(l) : WidthOf(k) < w} \cup {l}
  BY LineOpens DEF w
<1>6. top \in Nat /\ top \in 1 .. top /\ 1 .. top \subseteq 1 .. Len(indents)
  BY <1>2, <1>3
<1>7. ASSUME NEW j \in 1 .. Len(new) PROVE \E k \in Open(l + 1) : new[j] = WidthOf(k)
  <2>1. j \in 1 .. top /\ j \in 1 .. Len(indents) /\ new[j] = indents[j] /\ j <= top
    BY <1>2, <1>3, <1>4
  <2>2. CASE j = top
    <3>1. new[j] = WidthOf(l) /\ l \in Open(l + 1)
      BY <1>3, <1>5, <2>1, <2>2 DEF w
    <3> QED  BY <3>1
  <2>3. CASE j # top
    <3>1. j < top
      BY <1>6, <2>1, <2>3
    <3>2. indents[j] < w
      BY <1>2, <1>3, <2>1, <3>1 DEF IsStack
    <3>3. PICK k \in Open(l) : indents[j] = WidthOf(k)
      BY <2>1 DEF Tracks
    <3>4. k \in Open(l + 1)
      BY <1>5, <3>2, <3>3
    <3> QED  BY <2>1, <3>3, <3>4
  <2> QED  BY <2>2, <2>3
<1>8. ASSUME NEW k \in Open(l + 1) PROVE \E j \in 1 .. Len(new) : new[j] = WidthOf(k)
  <2>1. CASE k = l
    <3>1. new[top] = WidthOf(k) /\ top \in 1 .. Len(new)
      BY <1>3, <1>4, <1>6, <2>1 DEF w
    <3> QED  BY <3>1
  <2>2. CASE k # l
    <3>1. k \in Open(l) /\ WidthOf(k) < w
      BY <1>5, <2>2
    <3>2. PICK j \in 1 .. Len(indents) : indents[j] = WidthOf(k)
      BY <3>1 DEF Tracks
    <3>3. j <= top
      BY <1>1, <1>2, <1>3, <3>1, <3>2
    <3>4. j \in 1 .. Len(new) /\ new[j] = WidthOf(k)
      BY <1>4, <1>6, <3>2, <3>3
    <3> QED  BY <3>4
  <2> QED  BY <2>1, <2>2
<1>9. Aligned(l)
  <2>1. PICK k \in Open(l) : WidthOf(k) = w
    BY <1>3 DEF Tracks
  <2>2. \A m \in Between(k, l) : WidthOf(m) >= w
    <3> TAKE m \in Between(k, l)
    <3>1. WidthOf(m) \in Nat /\ w < WidthOf(m)
      BY <2>1, LinesAre DEF Open, Between
    <3> QED  BY <1>1, <3>1
  <2> QED  BY <2>1, <2>2 DEF Aligned, Open, w
<1> QED  BY <1>7, <1>8, <1>9 DEF Tracks, new, top, w

(* A line that is as wide as none of the open ones falls between two.      *)
LEMMA StackRefuses ==
    ASSUME IInv, IsStack(indents), NEW l \in CodeLines, Tracks(indents, l),
           WidthOf(l) <= Last(indents), indents[Kept(WidthOf(l))] # WidthOf(l)
    PROVE  ~Aligned(l)
<1> DEFINE w == WidthOf(l)
<1>1. l \in Nat /\ w \in Nat /\ \A k \in CodeLines \cup {0} : k \in Nat /\ WidthOf(k) \in Nat
  BY LinesAre
<1>11. w <= Last(indents) /\ indents[Kept(w)] # w
  OBVIOUS
<1> HIDE DEF w
<1>2. /\ Len(indents) \in 1 .. Len(indents) /\ Last(indents) = indents[Len(indents)]
      /\ \A j \in 1 .. Len(indents) : indents[j] \in Nat /\ indents[j] <= Last(indents)
  BY StackIs
<1>3. \A j \in 1 .. Len(indents) : indents[j] # w
  <2> SUFFICES ASSUME NEW j \in 1 .. Len(indents), indents[j] = w PROVE FALSE
    OBVIOUS
  <2>1. /\ Kept(w) \in 1 .. Len(indents) /\ indents[Kept(w)] <= w
        /\ indents[j] <= w => j <= Kept(w)
    BY <1>1, KeptIs
  <2>2. indents[Kept(w)] < w /\ j <= Kept(w)
    BY <1>1, <1>2, <1>11, <2>1
  <2>3. j < Kept(w)
    BY <1>1, <1>2, <2>1, <2>2
  <2>4. indents[j] < indents[Kept(w)]
    <3>1. DOMAIN indents = 1 .. Len(indents)
      BY StackIs
    <3> QED  BY <2>1, <2>3, <3>1 DEF IsStack
  <2> QED  BY <1>1, <1>2, <2>1, <2>2, <2>4
<1>4. \A k \in Open(l) : WidthOf(k) # w
  BY <1>3 DEF Tracks
<1>5. PICK k \in Open(l) : WidthOf(k) = Last(indents)
  BY <1>2 DEF Tracks
<1>6. k \in CodeLines \cup {0} /\ k < l /\ k \in Nat /\ WidthOf(k) > w
  <2>1. k \in CodeLines \cup {0} /\ k < l
    BY DEF Open
  <2>2. WidthOf(k) # w
    BY <1>4
  <2>3. k \in Nat /\ WidthOf(k) \in Nat
    BY <1>1, <2>1
  <2>4. w <= WidthOf(k)
    BY <1>5, <1>11
  <2> QED  BY <1>1, <2>1, <2>2, <2>3, <2>4
<1>7. k \in CodeLines
  BY <1>1, <1>6 DEF WidthOf
<1>8. Between(k, l) = {}
  <2> DEFINE B == Between(k, l)
  <2> SUFFICES ASSUME B # {} PROVE FALSE
    OBVIOUS
  <2>1. B \in SUBSET (0 .. l)
    <3> SUFFICES ASSUME NEW m \in Between(k, l) PROVE m \in 0 .. l
      OBVIOUS
    <3>1. m \in CodeLines /\ m < l
      BY DEF Between
    <3>2. m \in Nat
      BY <1>1, <3>1
    <3> QED  BY <1>1, <3>1, <3>2
  <2>2. Max(B) \in B /\ \A m \in B : m <= Max(B)
    <3> HIDE DEF B
    <3> QED  BY <1>1, <2>1, Greatest
  <2> DEFINE last == Max(B)
  <2>3. last \in CodeLines /\ k < last /\ last < l
    BY <2>2 DEF Between
  <2>4. \A m \in Between(last, l) : FALSE
    <3> HIDE DEF last, B
    <3> TAKE m \in Between(last, l)
    <3>1. m \in CodeLines /\ last < m /\ m < l
      BY DEF Between
    <3>2. m \in Nat /\ last \in Nat
      BY <1>1, <2>3, <3>1
    <3>3. m \in B
      BY <1>6, <2>3, <3>1, <3>2 DEF B, Between
    <3>4. m <= last
      BY <2>2, <3>3 DEF last
    <3> QED  BY <3>1, <3>2, <3>4
  <2> HIDE DEF last, B
  <2>5. last \in Open(l)
    BY <2>3, <2>4 DEF Open
  <2>6. WidthOf(k) < WidthOf(last)
    BY <2>3, <2>5, OpenNest
  <2>7. PICK j \in 1 .. Len(indents) : indents[j] = WidthOf(last)
    BY <2>5 DEF Tracks
  <2> QED  BY <1>1, <1>2, <1>5, <2>6, <2>7
<1>9. ~\A m \in CodeLines : m < l /\ Between(m, l) = {} => WidthOf(m) < w
  BY <1>1, <1>6, <1>7, <1>8
<1>10. ASSUME NEW m \in CodeLines \cup {0}, m < l, WidthOf(m) = w,
              \A x \in Between(m, l) : WidthOf(x) >= w
       PROVE  FALSE
  <2> DEFINE C == {x \in CodeLines \cup {0} :
                      x < l /\ WidthOf(x) = w /\ \A y \in Between(x, l) : WidthOf(y) >= w}
  <2>1. C \in SUBSET (0 .. l) /\ C # {}
    <3>1. m \in C
      BY <1>10
    <3>2. ASSUME NEW x \in C PROVE x \in 0 .. l
      <4>1. x \in Nat /\ x < l
        BY <1>1
      <4> QED  BY <1>1, <4>1
    <3> QED  BY <3>1, <3>2
  <2>2. Max(C) \in C /\ \A x \in C : x <= Max(C)
    <3> HIDE DEF C
    <3> QED  BY <1>1, <2>1, Greatest
  <2>3. PICK top \in C : \A x \in C : x <= top
    BY <2>2
  <2>4. /\ top \in CodeLines \cup {0} /\ top < l /\ top \in Nat /\ WidthOf(top) = w
        /\ \A y \in Between(top, l) : WidthOf(y) >= w
    BY <1>1
  <2>5. ASSUME NEW y \in Between(top, l) PROVE w < WidthOf(y)
    <3>1. /\ y \in CodeLines /\ y \in Nat /\ WidthOf(y) \in Nat
          /\ top < y /\ y < l /\ WidthOf(y) >= w
      BY <1>1, <2>4 DEF Between
    <3>2. CASE WidthOf(y) = w
      <4>1. Between(y, l) \subseteq Between(top, l)
        <5> SUFFICES ASSUME NEW z \in Between(y, l) PROVE z \in Between(top, l)
          OBVIOUS
        <5>1. z \in CodeLines /\ z \in Nat /\ y < z /\ z < l
          BY <1>1 DEF Between
        <5>2. top < z
          BY <2>4, <3>1, <5>1
        <5> QED  BY <5>1, <5>2 DEF Between
      <4>2. y \in C
        BY <2>4, <3>1, <3>2, <4>1
      <4>3. y <= top
        BY <2>3, <4>2
      <4> QED  BY <2>4, <3>1, <4>3
    <3> QED  BY <1>1, <3>1, <3>2
  <2>6. top \in Open(l)
    BY <2>4, <2>5 DEF Open
  <2> QED  BY <1>4, <2>4, <2>6
<1> QED  BY <1>9, <1>10 DEF Aligned, w

-----------------------------------------------------------------------------
(* Where the lines end in the stream *)

(* t is s, or goes on from it. *)
Continues(s, t) ==
    /\ IsSeq(s) /\ IsSeq(t)
    /\ Len(s) <= Len(t)
    /\ \A k \in 1 .. Len(s) : t[k] = s[k]

LEMMA NumbersContinue ==
    ASSUME NEW s, NEW t, Continues(s, t), NEW kind
    PROVE  /\ \A n \in 0 .. Len(s) : Number(t, kind, n) = Number(s, kind, n)
           /\ (\A k \in Len(s) + 1 .. Len(t) : t[k].kind # kind) =>
                 Number(t, kind, Len(t)) = Number(s, kind, Len(s))
<1>1. /\ Len(s) \in Nat /\ DOMAIN s = 1 .. Len(s)
      /\ Len(t) \in Nat /\ DOMAIN t = 1 .. Len(t) /\ Len(s) <= Len(t)
      /\ \A k \in 1 .. Len(s) : t[k] = s[k]
  BY SeqShape DEF Continues
<1>2. ASSUME NEW n \in 0 .. Len(s) PROVE Number(t, kind, n) = Number(s, kind, n)
  <2>1. \A k \in 1 .. n : k \in OfKind(t, kind) <=> k \in OfKind(s, kind)
    BY <1>1 DEF OfKind
  <2> QED  BY <1>1, <2>1, HowManySame DEF Number
<1>3. ASSUME \A k \in Len(s) + 1 .. Len(t) : t[k].kind # kind
      PROVE  Number(t, kind, Len(t)) = Number(s, kind, Len(s))
  <2>1. \A k \in Len(s) + 1 .. Len(t) : k \notin OfKind(t, kind)
    BY <1>3 DEF OfKind
  <2>2. Number(t, kind, Len(t)) = Number(t, kind, Len(s))
    BY <1>1, <2>1, HowManyPastRun DEF Number
  <2>3. Len(s) \in 0 .. Len(s)
    BY <1>1
  <2> QED  BY <1>2, <2>2, <2>3
<1> QED  BY <1>2, <1>3

LEMMA NumberGrows ==
    ASSUME NEW s, IsSeq(s), NEW kind, NEW m \in 0 .. Len(s), NEW n \in 1 .. Len(s), m < n,
           s[n].kind = kind
    PROVE  Number(s, kind, m) < Number(s, kind, n)
<1> DEFINE P == OfKind(s, kind)
           A == {k \in 1 .. m : k \in P}
           Z == {k \in 1 .. n : k \in P}
<1>1. Len(s) \in Nat /\ DOMAIN s = 1 .. Len(s) /\ m \in Nat /\ n \in Nat
  BY SeqShape
<1>2. n \in P
  BY <1>1 DEF OfKind
<1> HIDE DEF P
<1>3. IsFiniteSet(A) /\ IsFiniteSet(Z) /\ Cardinality(A) \in Nat /\ Cardinality(Z) \in Nat
  BY <1>1, HowManyIsNat DEF HowMany
<1>4. n \notin A /\ A \cup {n} \in SUBSET Z
  BY <1>1, <1>2
<1> HIDE DEF A, Z
<1>5. Cardinality(A \cup {n}) = Cardinality(A) + 1
  BY <1>3, <1>4, FS_AddElement
<1>6. Cardinality(A \cup {n}) <= Cardinality(Z)
  BY <1>3, <1>4, FS_Subset
<1>7. Cardinality(A) < Cardinality(Z)
  BY <1>3, <1>5, <1>6
<1> QED  BY <1>7 DEF Number, HowMany, A, Z, P

(* The newline token of a line is where it should be, as deep as it should. *)
EndsAt(s, l, n) ==
    /\ n \in 1 .. Len(s) /\ s[n].kind = "newline"
    /\ Number(s, "newline", n) = HowMany(CodeLines, l)
    /\ Number(s, "indent", n) - Number(s, "dedent", n) = Cardinality(Enclosing(l))

Ended(s, l) == \E n \in Nat : EndsAt(s, l, n)

LEMMA EndedContinues ==
    ASSUME NEW s, NEW t, Continues(s, t), NEW l, Ended(s, l)
    PROVE  Ended(t, l)
<1>1. PICK n \in Nat : EndsAt(s, l, n)
  BY DEF Ended
<1>2. Len(s) \in Nat /\ Len(t) \in Nat /\ Len(s) <= Len(t) /\ n \in 1 .. Len(s)
  BY <1>1, SeqShape DEF Continues, EndsAt
<1>3. n \in 0 .. Len(s) /\ n \in 1 .. Len(t) /\ t[n] = s[n]
  BY <1>2 DEF Continues
<1>4. \A kind : Number(t, kind, n) = Number(s, kind, n)
  BY <1>3, NumbersContinue
<1>5. EndsAt(t, l, n)
  BY <1>1, <1>3, <1>4 DEF EndsAt
<1> QED  BY <1>5 DEF Ended

LEMMA EndIsUnique ==
    ASSUME NEW s, IsSeq(s), NEW m \in 1 .. Len(s), NEW n \in 1 .. Len(s), NEW kind,
           s[m].kind = kind, s[n].kind = kind, Number(s, kind, m) = Number(s, kind, n)
    PROVE  m = n
<1>1. Len(s) \in Nat /\ m \in 0 .. Len(s) /\ n \in 0 .. Len(s)
  BY SeqShape
<1>2. Number(s, kind, m) \in Nat /\ Number(s, kind, n) \in Nat
  BY <1>1, NumbersAreNat
<1>3. ~(m < n) /\ ~(n < m)
  BY <1>1, <1>2, NumberGrows
<1> QED  BY <1>1, <1>3

(* The lines before n lie where they should, and have ended. *)
Finished(s, n) == \A l \in CodeLines : l < n => Aligned(l) /\ Ended(s, l)

(* The scanner is at the character to of the line that begins at cur. *)
Sits(cur, to, st, s, starting) ==
    /\ cur \in Nat \ {0} /\ cur <= to
    /\ \A k \in cur .. to - 1 : src[k] # "\n"
    /\ Finished(s, cur)
    /\ Number(s, "newline", Len(s)) = HowMany(CodeLines, cur - 1)
    /\ IF starting
       THEN cur = to /\ (cur \in Starts \/ AtEnd(cur)) /\ Tracks(st, cur)
       ELSE cur \in CodeLines /\ Aligned(cur) /\ Tracks(st, cur + 1)

(* The first line that lies between two levels. *)
Refused(l) == ~Aligned(l) /\ \A m \in CodeLines : m < l => Aligned(m)

LayoutInv ==
    /\ IInv
    /\ phase = "lexing" => \E cur \in Nat : Sits(cur, i, indents, toks, at_line_start)
    /\ phase = "done" =>
          /\ Finished(toks, Len(src) + 1)
          /\ Number(toks, "newline", Len(toks)) = HowMany(CodeLines, Len(src))
    /\ phase = "dedent" => \E l \in CodeLines : i = MarginOf(l) /\ Refused(l)

LEMMA SamePlaces ==
    ASSUME src' = src
    PROVE  /\ \A s, n : Finished(s, n)' <=> Finished(s, n)
           /\ \A cur, to, st, s, b : Sits(cur, to, st, s, b)' <=> Sits(cur, to, st, s, b)
<1>1. CodeLines' = CodeLines /\ Starts' = Starts
  BY SameText
<1>2. \A l : (Enclosing(l)' = Enclosing(l)) /\ (Aligned(l)' <=> Aligned(l))
  BY SameText
<1>3. \A l : (WidthOf(l)' = WidthOf(l)) /\ (Open(l)' = Open(l))
  BY SameText
<1>4. \A s, l : Ended(s, l)' <=> Ended(s, l)
  BY <1>1, <1>2 DEF Ended, EndsAt
<1>5. \A s, n : Finished(s, n)' <=> Finished(s, n)
  BY <1>1, <1>2, <1>4 DEF Finished
<1>6. \A st, n : Tracks(st, n)' <=> Tracks(st, n)
  BY <1>3 DEF Tracks
<1>7. \A cur : AtEnd(cur)' <=> AtEnd(cur)
  BY DEF AtEnd
<1>8. \A cur, to, st, s, b : Sits(cur, to, st, s, b)' <=> Sits(cur, to, st, s, b)
  BY <1>1, <1>2, <1>5, <1>6, <1>7 DEF Sits
<1> QED  BY <1>5, <1>8

LEMMA StillLexing ==
    ASSUME IInv', src' = src, phase' = "lexing", NEW cur \in Nat,
           NEW to, i' = to, NEW st, indents' = st, NEW s, toks' = s,
           NEW b, at_line_start' = b, Sits(cur, to, st, s, b)
    PROVE  LayoutInv'
<1>1. Sits(cur, to, st, s, b)'
  BY SamePlaces
<1>2. Sits(cur, i, indents, toks, at_line_start)'
  BY <1>1 DEF Sits
<1> QED  BY <1>2 DEF LayoutInv

LEMMA StillRefused ==
    ASSUME IInv', src' = src, phase' = "dedent", NEW l \in CodeLines, Refused(l),
           NEW to, i' = to, to = MarginOf(l)
    PROVE  LayoutInv'
<1>1. CodeLines' = CodeLines /\ \A m : Aligned(m)' <=> Aligned(m)
  BY SameText
<1>2. Refused(l)'
  BY <1>1 DEF Refused
<1>3. MarginOf(l)' = MarginOf(l)
  BY DEF MarginOf, After, At, AtEnd
<1> QED  BY <1>1, <1>2, <1>3 DEF LayoutInv

LEMMA FinishedContinues ==
    ASSUME NEW s, NEW t, Continues(s, t), NEW n, Finished(s, n)
    PROVE  Finished(t, n)
BY EndedContinues DEF Finished

LEMMA GoesOn ==
    ASSUME IInv
    PROVE  /\ Continues(toks, toks)
           /\ \A e : Continues(toks, Append(toks, e))
<1>1. IsSeq(toks) /\ Len(toks) \in Nat
  BY SeqShape DEF IInv, Sound
<1>2. ASSUME NEW e PROVE Continues(toks, Append(toks, e))
  <2>1. /\ IsSeq(Append(toks, e)) /\ Len(Append(toks, e)) = Len(toks) + 1
        /\ \A k \in 1 .. Len(toks) : Append(toks, e)[k] = toks[k]
    BY <1>1, AppendSeq
  <2> QED  BY <1>1, <2>1 DEF Continues
<1> QED  BY <1>1, <1>2 DEF Continues

(* Further along a line, with tokens that do not end it. *)
LEMMA AlongLine ==
    ASSUME IInv, NEW cur \in Nat, Sits(cur, i, indents, toks, FALSE),
           NEW to \in Nat, i <= to, \A k \in i .. to - 1 : src[k] # "\n",
           NEW s, Continues(toks, s),
           \A k \in Len(toks) + 1 .. Len(s) : s[k].kind # "newline"
    PROVE  Sits(cur, to, indents, s, FALSE)
<1>1. i \in Nat /\ cur \in Nat
  BY Position
<1>2. cur <= to /\ \A k \in cur .. to - 1 : src[k] # "\n"
  <2>1. cur <= i /\ \A k \in cur .. i - 1 : src[k] # "\n"
    BY DEF Sits
  <2>2. \A k \in cur .. to - 1 : k \in cur .. i - 1 \/ k \in i .. to - 1
    BY <1>1
  <2> QED  BY <1>1, <2>1, <2>2
<1>3. Finished(s, cur)
  BY FinishedContinues DEF Sits
<1>4. Number(s, "newline", Len(s)) = Number(toks, "newline", Len(toks))
  BY NumbersContinue
<1> QED  BY <1>2, <1>3, <1>4 DEF Sits

(* The newline token of the line. *)
LEMMA LineEnds ==
    ASSUME IInv, phase = "lexing", NEW cur \in Nat, Sits(cur, i, indents, toks, FALSE),
           NEW e, e.kind = "newline", NEW s, s = Append(toks, e)
    PROVE  /\ Finished(s, cur + 1)
           /\ Number(s, "newline", Len(s)) = HowMany(CodeLines, cur)
<1>1. IsSeq(toks) /\ Len(toks) \in Nat /\ Continues(toks, s)
  BY GoesOn, SeqShape DEF IInv, Sound
<1>2. /\ cur \in CodeLines /\ cur \in Nat \ {0} /\ Aligned(cur) /\ Tracks(indents, cur + 1)
      /\ Finished(toks, cur)
      /\ Number(toks, "newline", Len(toks)) = HowMany(CodeLines, cur - 1)
  BY DEF Sits
<1> DEFINE n == Len(toks) + 1
<1>3. IsSeq(s) /\ Len(s) = n /\ s[n] = e /\ n \in Nat /\ n \in 1 .. Len(s)
  BY <1>1, AppendSeq
<1>4. /\ Number(s, "newline", n) = Number(toks, "newline", Len(toks)) + 1
      /\ Number(s, "indent", n) = Number(toks, "indent", Len(toks))
      /\ Number(s, "dedent", n) = Number(toks, "dedent", Len(toks))
  BY <1>1, NumbersAppend
<1> HIDE DEF n
<1>5. HowMany(CodeLines, cur) = HowMany(CodeLines, cur - 1) + 1
  <2> DEFINE p == cur - 1
  <2>1. p \in Nat /\ p <= cur /\ cur - p = 1 /\ \A k \in p + 1 .. cur : k = cur
    BY <1>2
  <2> HIDE DEF p
  <2>2. HowMany(CodeLines, cur) = HowMany(CodeLines, p) + (cur - p)
    BY <1>2, <2>1, HowManyInRun
  <2> QED  BY <2>1, <2>2 DEF p
<1>6. Number(s, "newline", n) = HowMany(CodeLines, cur)
  BY <1>2, <1>4, <1>5
<1>7. Number(s, "indent", n) - Number(s, "dedent", n) = Cardinality(Enclosing(cur))
  <2>1. IsStack(indents) /\ Depth(toks) = Len(indents) - 1
    BY DEF IInv
  <2>2. Cardinality(Enclosing(cur)) = Len(indents) - 1
    BY <1>2, <2>1, DepthIsEnclosing
  <2> QED  BY <1>4, <2>1, <2>2 DEF Depth
<1>8. Ended(s, cur)
  BY <1>3, <1>6, <1>7 DEF Ended, EndsAt
<1>9. Finished(s, cur)
  BY <1>1, <1>2, FinishedContinues
<1>10. \A l \in CodeLines : l < cur + 1 => l < cur \/ l = cur
  <2> TAKE l \in CodeLines
  <2>1. l \in Nat
    BY LinesAre
  <2> QED  BY <1>2, <2>1
<1> QED  BY <1>2, <1>3, <1>6, <1>8, <1>9, <1>10 DEF Finished

-----------------------------------------------------------------------------
(* Each turn of the loop *)

LEMMA LayoutOfInit == Init => LayoutInv
<1> SUFFICES ASSUME Init PROVE LayoutInv
  OBVIOUS
<1>1. IInv /\ phase = "lexing" /\ i = 1 /\ at_line_start = TRUE /\ indents = <<0>> /\ toks = <<>>
  BY InitEstablishes DEF Init
<1>2. \A l \in CodeLines : l \in Nat \ {0}
  BY <1>1, LinesAre
<1>3. \A l \in CodeLines : ~(l < 1)
  BY <1>2
<1>4. Finished(toks, 1)
  BY <1>3 DEF Finished
<1>5. Number(toks, "newline", Len(toks)) = HowMany(CodeLines, 0)
  <2>1. Len(toks) = 0
    BY <1>1
  <2> QED  BY <2>1, HowManyOfNone DEF Number
<1>6. Open(1) = {0}
  <2>1. Between(0, 1) = {}
    BY <1>3 DEF Between
  <2> QED  BY <1>3, <2>1 DEF Open
<1>7. Tracks(indents, 1)
  <2>1. Len(indents) = 1 /\ indents[1] = 0 /\ WidthOf(0) = 0 /\ 1 .. 1 = {1}
    BY <1>1 DEF WidthOf
  <2> QED  BY <1>6, <2>1 DEF Tracks
<1>8. 1 \in Starts /\ (1 - 1 = 0) /\ 1 <= 1 /\ 1 \in Nat \ {0} /\ \A k \in 1 .. 1 - 1 : FALSE
  BY DEF Starts
<1>9. Sits(1, 1, indents, toks, TRUE)
  BY <1>4, <1>5, <1>7, <1>8 DEF Sits
<1> QED  BY <1>1, <1>8, <1>9 DEF LayoutInv

LEMMA LayoutOfFailure ==
    ASSUME IInv', phase' \in {"tab", "char"}
    PROVE  LayoutInv'
BY DEF LayoutInv

LEMMA LayoutOfSkipLine ==
    ASSUME LayoutInv, IInv', SkipLine
    PROVE  LayoutInv'
<1> DEFINE end == NextNewline(Margin)
           to == IF AtEnd(end) THEN end ELSE end + 1
<1>1. /\ LineStart /\ Useless /\ i' = to
      /\ UNCHANGED <<src, indents, at_line_start, toks, phase>>
  BY DEF SkipLine
<1>2. IInv /\ phase = "lexing" /\ at_line_start = TRUE
  BY <1>1 DEF LineStart, LayoutInv
<1>3. Sits(i, i, indents, toks, TRUE)
  BY <1>2 DEF LayoutInv, Sits
<1>4. /\ Margin \in 1 .. Len(src) + 1 /\ i <= Margin
      /\ \A m \in i .. Margin - 1 : src[m] # "\n"
  BY <1>1, <1>2, MarginIs
<1>5. /\ end \in 1 .. Len(src) + 1 /\ Margin <= end
      /\ ~AtEnd(end) => src[end] = "\n"
      /\ \A m \in Margin .. end - 1 : src[m] # "\n"
  BY <1>2, <1>4, NextNewlineIs
<1>6. Len(src) \in Nat /\ i \in Nat \ {0} /\ DOMAIN src = 1 .. Len(src)
  BY <1>2, Position
<1> HIDE DEF end
<1>7. /\ to \in Nat \ {0} /\ i <= to /\ to <= end + 1
      /\ to \in Starts \/ AtEnd(to)
  <2>1. CASE AtEnd(end)
    BY <1>4, <1>5, <1>6, <2>1
  <2>2. CASE ~AtEnd(end)
    <3>1. end \in DOMAIN src /\ src[end] = "\n"
      BY <1>5, <1>6, <2>2 DEF AtEnd
    <3>2. end + 1 \in Starts
      BY <3>1 DEF Starts
    <3> QED  BY <1>4, <1>5, <1>6, <2>2, <3>2
  <2> QED  BY <2>1, <2>2
<1> HIDE DEF to
<1>8. i \notin CodeLines
  BY <1>1 DEF CodeLines, Useless, Margin, MarginOf
<1>9. \A m \in i .. to - 1 : m \notin CodeLines
  <2>1. \A k \in i .. end - 1 : src[k] # "\n"
    <3>1. \A k \in i .. end - 1 : k \in i .. Margin - 1 \/ k \in Margin .. end - 1
      BY <1>4, <1>5, <1>6
    <3> QED  BY <1>4, <1>5, <3>1
  <2>2. \A m \in i + 1 .. end : m \notin CodeLines
    <3>1. end \in Nat
      BY <1>5, <1>6
    <3> QED  BY <1>2, <1>6, <2>1, <3>1, NoLineWithin
  <2>3. \A m \in i .. to - 1 : m = i \/ m \in i + 1 .. end
    BY <1>5, <1>6, <1>7
  <2> QED  BY <1>8, <2>2, <2>3
<1>10. /\ Open(to) = Open(i) /\ \A l \in CodeLines : l < to <=> l < i
       /\ HowMany(CodeLines, to - 1) = HowMany(CodeLines, i - 1)
  BY <1>2, <1>6, <1>7, <1>9, NothingOpens
<1>11. Finished(toks, to) /\ Tracks(indents, to)
  BY <1>3, <1>10 DEF Sits, Finished, Tracks
<1>12. \A k \in to .. to - 1 : FALSE
  BY <1>7
<1>13. Sits(to, to, indents, toks, TRUE)
  BY <1>3, <1>7, <1>10, <1>11, <1>12 DEF Sits
<1> QED  BY <1>1, <1>2, <1>7, <1>13, StillLexing

(* Where the code of a line begins. *)
LEMMA CodeLineIs ==
    ASSUME LayoutInv, CodeStarts
    PROVE  /\ IInv /\ IsStack(indents) /\ at_line_start = TRUE
           /\ Sits(i, i, indents, toks, TRUE)
           /\ i \in CodeLines /\ WidthOf(i) = Width /\ Width \in Nat
           /\ Margin \in Nat /\ i <= Margin /\ i \in Nat \ {0}
           /\ \A m \in i .. Margin - 1 : src[m] # "\n"
<1>1. LineStart /\ ~Useless
  BY DEF CodeStarts
<1>2. IInv /\ phase = "lexing" /\ at_line_start = TRUE /\ ~AtEnd(i)
  BY <1>1 DEF LineStart, LayoutInv
<1>3. Sits(i, i, indents, toks, TRUE) /\ IsStack(indents)
  BY <1>2 DEF LayoutInv, Sits, IInv
<1>4. /\ Margin \in 1 .. Len(src) + 1 /\ i <= Margin /\ Width \in Nat
      /\ \A m \in i .. Margin - 1 : src[m] # "\n"
  BY <1>1, <1>2, MarginIs
<1>5. i \in Starts
  BY <1>2, <1>3 DEF Sits
<1>6. i \in CodeLines
  BY <1>1, <1>5 DEF CodeLines, Useless, Margin, MarginOf
<1>7. i \in Nat \ {0} /\ Margin \in Nat
  BY <1>2, <1>4, Position
<1>8. WidthOf(i) = Width
  BY <1>7 DEF WidthOf, Width, Margin, MarginOf
<1> QED  BY <1>2, <1>3, <1>4, <1>6, <1>7, <1>8

LEMMA LayoutOfIndent ==
    ASSUME LayoutInv, IInv', Indent
    PROVE  LayoutInv'
<1>1. CodeStarts
  BY DEF Indent
<1> DEFINE e == Layout("indent")
           s == Append(toks, e)
           st == Append(indents, Width)
           to == Margin
<1>2. /\ IInv /\ IsStack(indents) /\ Sits(i, i, indents, toks, TRUE)
      /\ i \in CodeLines /\ WidthOf(i) = Width
      /\ to \in Nat /\ i <= to /\ i \in Nat \ {0}
      /\ \A m \in i .. to - 1 : src[m] # "\n"
  BY <1>1, CodeLineIs
<1>3. /\ Width > Last(indents) /\ indents' = st /\ toks' = s /\ i' = to
      /\ at_line_start' = FALSE /\ src' = src /\ phase' = "lexing"
  BY <1>1 DEF Indent, CodeStarts, LineStart
<1>4. Tracks(indents, i)
  BY <1>2 DEF Sits
<1>5. Tracks(st, i + 1) /\ Aligned(i)
  <2>1. WidthOf(i) > Last(indents)
    BY <1>2, <1>3
  <2>2. Tracks(Append(indents, WidthOf(i)), i + 1) /\ Aligned(i)
    BY <1>2, <1>4, <2>1, StackOpens
  <2> QED  BY <1>2, <2>2
<1>6. e.kind = "indent"
  BY TokenKinds DEF Layout
<1> HIDE DEF e, st, to
<1>7. Continues(toks, s) /\ IsSeq(toks)
  BY <1>2, GoesOn DEF IInv, Sound
<1>8. Number(s, "newline", Len(s)) = Number(toks, "newline", Len(toks))
  <2>1. Len(s) = Len(toks) + 1 /\ e.kind # "newline"
    BY <1>6, <1>7, AppendSeq
  <2> QED  BY <1>7, <2>1, NumbersAppend
<1> HIDE DEF s
<1>9. Finished(s, i)
  BY <1>2, <1>7, FinishedContinues DEF Sits
<1>10. Sits(i, to, st, s, FALSE)
  BY <1>2, <1>5, <1>8, <1>9 DEF Sits
<1> QED  BY <1>2, <1>3, <1>10, StillLexing

LEMMA LayoutOfDedent ==
    ASSUME LayoutInv, IInv', Dedent
    PROVE  LayoutInv'
<1>1. CodeStarts /\ Width <= Last(indents)
  BY DEF Dedent
<1> DEFINE to == Margin
<1>2. /\ IInv /\ IsStack(indents) /\ Sits(i, i, indents, toks, TRUE)
      /\ i \in CodeLines /\ WidthOf(i) = Width /\ Width \in Nat
      /\ to \in Nat /\ i <= to /\ i \in Nat \ {0}
      /\ \A m \in i .. to - 1 : src[m] # "\n"
  BY <1>1, CodeLineIs
<1>3. Tracks(indents, i)
  BY <1>2 DEF Sits
<1>4. CASE indents[Kept(Width)] = Width
  <2> DEFINE top == Kept(Width)
             st == SubSeq(indents, 1, top)
             t == Dedents(Len(indents) - top)
             s == toks \o t
  <2>1. /\ indents' = st /\ toks' = s /\ i' = to
        /\ at_line_start' = FALSE /\ src' = src /\ phase' = "lexing"
    BY <1>1, <1>4 DEF Dedent, CodeStarts, LineStart
  <2>2. Tracks(st, i + 1) /\ Aligned(i)
    <3>1. indents[Kept(WidthOf(i))] = WidthOf(i)
      BY <1>2, <1>4
    <3>2. Tracks(SubSeq(indents, 1, Kept(WidthOf(i))), i + 1) /\ Aligned(i)
      BY <1>2, <1>3, <3>1, StackCloses
    <3> QED  BY <1>2, <3>2
  <2>3. Len(indents) - top \in Nat
    <3>1. top \in 1 .. Len(indents) /\ Len(indents) \in Nat
      BY <1>2, KeptIs, StackIs
    <3> HIDE DEF top
    <3> QED  BY <3>1
  <2>4. IsSeq(t) /\ \A m \in 1 .. Len(t) : t[m].kind = "dedent"
    BY <2>3, DedentsAre
  <2>5. IsSeq(toks)
    BY <1>2 DEF IInv, Sound
  <2> HIDE DEF t, st, top, to
  <2>6. /\ IsSeq(s) /\ Len(s) = Len(toks) + Len(t)
        /\ \A k \in 1 .. Len(toks) : s[k] = toks[k]
        /\ \A k \in Len(toks) + 1 .. Len(toks) + Len(t) : s[k] = t[k - Len(toks)]
    BY <2>4, <2>5, ConcatSeq
  <2>7. Len(toks) \in Nat /\ Len(t) \in Nat
    BY <2>4, <2>5, SeqShape
  <2> HIDE DEF s
  <2>8. Continues(toks, s)
    BY <2>5, <2>6, <2>7 DEF Continues
  <2>9. \A k \in Len(toks) + 1 .. Len(s) : s[k].kind # "newline"
    <3> TAKE k \in Len(toks) + 1 .. Len(s)
    <3>1. k - Len(toks) \in 1 .. Len(t)
      BY <2>6, <2>7
    <3>2. s[k].kind = "dedent"
      BY <2>4, <2>6, <3>1
    <3> QED  BY <3>2
  <2>10. Number(s, "newline", Len(s)) = Number(toks, "newline", Len(toks))
    BY <2>8, <2>9, NumbersContinue
  <2>11. Finished(s, i)
    BY <1>2, <2>8, FinishedContinues DEF Sits
  <2>12. Sits(i, to, st, s, FALSE)
    BY <1>2, <2>2, <2>10, <2>11 DEF Sits
  <2> QED  BY <1>2, <2>1, <2>12, StillLexing
<1>5. CASE indents[Kept(Width)] # Width
  <2>1. phase' = "dedent" /\ src' = src /\ i' = to
    BY <1>5 DEF Dedent
  <2>2. ~Aligned(i)
    <3>1. indents[Kept(WidthOf(i))] # WidthOf(i) /\ WidthOf(i) <= Last(indents)
      BY <1>1, <1>2, <1>5
    <3> QED  BY <1>2, <1>3, <3>1, StackRefuses
  <2>3. Refused(i)
    BY <1>2, <2>2 DEF Sits, Finished, Refused
  <2>4. PICK l : l = i
    OBVIOUS
  <2>5. l \in CodeLines /\ Refused(l) /\ to = MarginOf(l)
    BY <1>2, <2>3, <2>4 DEF Margin, MarginOf, Refused
  <2> QED  BY <2>1, <2>5, StillRefused
<1> QED  BY <1>4, <1>5

LEMMA CurrentLine ==
    ASSUME LayoutInv, phase = "lexing", at_line_start = FALSE
    PROVE  IInv /\ \E cur \in Nat : Sits(cur, i, indents, toks, FALSE)
BY DEF LayoutInv

(* Words, literals, operators, spaces and comments stay on the line. *)
LEMMA LayoutOfLine ==
    ASSUME LayoutInv, IInv', Inside, UNCHANGED <<src, indents, at_line_start, phase>>,
           NEW to \in Nat, i' = to, i <= to, \A k \in i .. to - 1 : src[k] # "\n",
           NEW s, toks' = s, Continues(toks, s),
           \A k \in Len(toks) + 1 .. Len(s) : s[k].kind # "newline"
    PROVE  LayoutInv'
<1>1. phase = "lexing" /\ at_line_start = FALSE
  BY DEF Inside, LayoutInv, IInv
<1>2. IInv
  BY DEF LayoutInv
<1>3. PICK cur \in Nat : Sits(cur, i, indents, toks, FALSE)
  BY <1>1, CurrentLine
<1>4. Sits(cur, to, indents, s, FALSE)
  BY <1>2, <1>3, AlongLine
<1> QED  BY <1>1, <1>4, StillLexing

LEMMA LayoutOfSpace ==
    ASSUME LayoutInv, IInv', SkipSpace \/ SkipComment
    PROVE  LayoutInv'
<1>1. /\ Inside /\ UNCHANGED <<src, indents, at_line_start, phase>> /\ toks' = toks
      /\ IInv
  BY DEF SkipSpace, SkipComment, LayoutInv
<1>2. Len(src) \in Nat /\ i \in Nat /\ 1 <= i /\ i <= Len(src) + 1
  BY <1>1, Position
<1>3. Continues(toks, toks) /\ \A k \in Len(toks) + 1 .. Len(toks) : FALSE
  <2>1. Len(toks) \in Nat
    BY <1>1, SeqShape DEF IInv, Sound
  <2> QED  BY <1>1, <2>1, GoesOn
<1>4. CASE SkipSpace
  <2> DEFINE to == i + 1
  <2>1. i' = to /\ src[i] # "\n"
    BY <1>4 DEF SkipSpace, At
  <2>2. to \in Nat /\ i <= to /\ \A k \in i .. to - 1 : k = i
    BY <1>2
  <2> HIDE DEF to
  <2> QED  BY <1>1, <1>3, <2>1, <2>2, LayoutOfLine
<1>5. CASE SkipComment
  <2> DEFINE to == NextNewline(i)
  <2>1. i' = to
    BY <1>5 DEF SkipComment
  <2>2. to \in 1 .. Len(src) + 1 /\ i <= to /\ \A k \in i .. to - 1 : src[k] # "\n"
    BY <1>1, <1>2, NextNewlineIs
  <2> HIDE DEF to
  <2>3. to \in Nat
    BY <1>2, <2>2
  <2> QED  BY <1>1, <1>3, <2>1, <2>2, <2>3, LayoutOfLine
<1> QED  BY <1>4, <1>5

LEMMA LayoutOfTake ==
    ASSUME LayoutInv, IInv', Inside, NEW kind, kind # "newline", NEW text,
           NEW to \in Nat, i <= to, \A k \in i .. to - 1 : src[k] # "\n",
           Take(kind, text, to)
    PROVE  LayoutInv'
<1> DEFINE e == Token(kind, text)
           s == Append(toks, e)
<1>1. e.kind # "newline"
  BY TokenKinds
<1>2. /\ UNCHANGED <<src, indents, at_line_start, phase>> /\ toks' = s /\ i' = to
  BY DEF Take
<1>3. IInv /\ IsSeq(toks) /\ Len(toks) \in Nat
  BY SeqShape DEF LayoutInv, IInv, Sound
<1> HIDE DEF e
<1>4. Continues(toks, s) /\ Len(s) = Len(toks) + 1 /\ s[Len(toks) + 1] = e
  BY <1>3, GoesOn, AppendSeq
<1> HIDE DEF s
<1>5. \A k \in Len(toks) + 1 .. Len(s) : s[k].kind # "newline"
  <2>1. \A k \in Len(toks) + 1 .. Len(s) : k = Len(toks) + 1
    BY <1>3, <1>4
  <2> QED  BY <1>1, <1>4, <2>1
<1> QED  BY <1>2, <1>4, <1>5, LayoutOfLine

LEMMA LayoutOfWord ==
    ASSUME LayoutInv, IInv', Word
    PROVE  LayoutInv'
<1> DEFINE end == After(IdentPart, i)
           word == SubSeq(src, i, end - 1)
           kind == IF word \in DOMAIN Keyword THEN Keyword[word] ELSE "ident"
<1>1. IInv /\ Inside /\ At(i, IdentPart) /\ Take(kind, word, end)
  BY DEF Word, At, IdentPart, LayoutInv
<1>2. kind # "newline"
  <2> HIDE DEF word
  <2> QED  BY KeywordsAreNoLayout
<1>3. end \in 1 .. Len(src) + 1 /\ i < end
  BY <1>1, AfterMoves
<1>4. \A m \in i .. end - 1 : src[m] \in IdentPart
  <2>1. src \in Seq(STRING) /\ i \in 1 .. Len(src) + 1
    BY <1>1 DEF IInv
  <2> QED  BY <2>1, AfterStops
<1> HIDE DEF end, kind, word
<1>5. \A m \in i .. end - 1 : src[m] # "\n"
  BY <1>4, NewlineIsInNoWord DEF IdentPart
<1>6. end \in Nat /\ i <= end
  BY <1>1, <1>3, Position
<1> QED  BY <1>1, <1>2, <1>5, <1>6, LayoutOfTake

LEMMA LayoutOfInteger ==
    ASSUME LayoutInv, IInv', Integer
    PROVE  LayoutInv'
<1> DEFINE end == After(DOMAIN Digit, i)
           text == SubSeq(src, i, end - 1)
<1>1. IInv /\ Inside /\ At(i, DOMAIN Digit) /\ Take("integer", text, end)
  BY DEF Integer, LayoutInv
<1>3. end \in 1 .. Len(src) + 1 /\ i < end
  BY <1>1, AfterMoves
<1>4. \A m \in i .. end - 1 : src[m] \in DOMAIN Digit
  <2>1. src \in Seq(STRING) /\ i \in 1 .. Len(src) + 1
    BY <1>1 DEF IInv
  <2> QED  BY <2>1, AfterStops
<1> HIDE DEF end, text
<1>5. \A m \in i .. end - 1 : src[m] # "\n"
  BY <1>4, NewlineIsInNoWord
<1>6. end \in Nat /\ i <= end
  BY <1>1, <1>3, Position
<1> QED  BY <1>1, <1>5, <1>6, LayoutOfTake

LEMMA LayoutOfOperator ==
    ASSUME LayoutInv, IInv', Operator
    PROVE  LayoutInv'
<1>1. IInv /\ Inside
  BY DEF Operator, LayoutInv
<1>2. Len(src) \in Nat /\ i \in Nat /\ 1 <= i /\ i <= Len(src) + 1
  BY <1>1, Position
<1>3. CASE TakeTwo
  <2> DEFINE kind == TwoChar[Ahead]
             to == i + 2
  <2>1. i + 1 \in 1 .. Len(src) /\ Ahead \in DOMAIN TwoChar /\ Take(kind, <<>>, to)
    BY <1>2, <1>3 DEF TakeTwo, TwoAhead, AtEnd
  <2>2. kind # "newline"
    <3>1. \A pair \in DOMAIN TwoChar : TwoChar[pair] # "newline"
      BY DEF TwoChar
    <3> QED  BY <2>1, <3>1
  <2>3. src[i] # "\n" /\ src[i + 1] # "\n"
    <3>1. Ahead = <<src[i], src[i + 1]>>
      BY <1>1, <2>1, TwoCharacters
    <3>2. \A a, z : <<a, z>> \in DOMAIN TwoChar => a # "\n" /\ z # "\n"
      BY DEF TwoChar
    <3> QED  BY <2>1, <3>1, <3>2
  <2>4. to \in Nat /\ i <= to /\ \A k \in i .. to - 1 : k = i \/ k = i + 1
    BY <1>2
  <2> HIDE DEF kind, to
  <2>5. \A k \in i .. to - 1 : src[k] # "\n"
    BY <2>3, <2>4
  <2> QED  BY <1>1, <2>1, <2>2, <2>4, <2>5, LayoutOfTake
<1>4. CASE TakeOne
  <2> DEFINE kind == src[i]
             to == i + 1
  <2>1. kind \in OneChar /\ Take(kind, <<>>, to)
    BY <1>4 DEF TakeOne, At
  <2>2. kind # "newline" /\ src[i] # "\n"
    BY <2>1 DEF OneChar
  <2>3. to \in Nat /\ i <= to /\ \A k \in i .. to - 1 : k = i
    BY <1>2
  <2> HIDE DEF kind, to
  <2> QED  BY <1>1, <2>1, <2>2, <2>3, LayoutOfTake
<1> QED  BY <1>3, <1>4 DEF Operator

LEMMA LayoutOfNewline ==
    ASSUME LayoutInv, IInv', Newline
    PROVE  LayoutInv'
<1> DEFINE e == Layout("newline")
           s == Append(toks, e)
           to == i + 1
<1>1. /\ Inside /\ src[i] = "\n" /\ ~AtEnd(i) /\ toks' = s /\ i' = to /\ at_line_start' = TRUE
      /\ UNCHANGED <<src, indents, phase>>
  BY DEF Newline, At
<1>2. IInv /\ phase = "lexing" /\ at_line_start = FALSE
  BY <1>1 DEF Inside, LayoutInv, IInv
<1>3. PICK cur \in Nat : Sits(cur, i, indents, toks, FALSE)
  BY <1>1, <1>2, CurrentLine
<1>4. e.kind = "newline"
  BY TokenKinds DEF Layout
<1>5. Len(src) \in Nat /\ i \in Nat /\ 1 <= i /\ DOMAIN src = 1 .. Len(src)
  BY <1>2, Position
<1> HIDE DEF e
<1>6. /\ Finished(s, cur + 1)
      /\ Number(s, "newline", Len(s)) = HowMany(CodeLines, cur)
  BY <1>2, <1>3, <1>4, LineEnds
<1>7. /\ cur \in Nat \ {0} /\ cur <= i /\ Tracks(indents, cur + 1)
      /\ \A k \in cur .. i - 1 : src[k] # "\n"
  BY <1>3 DEF Sits
<1>8. to \in Starts
  BY <1>1, <1>5 DEF Starts, AtEnd
<1> HIDE DEF s
<1>9. \A m \in cur + 1 .. i : m \notin CodeLines
  BY <1>2, <1>5, <1>7, NoLineWithin
<1> DEFINE n == cur + 1
<1>10. /\ n \in Nat \ {0} /\ to \in Nat \ {0} /\ n <= to /\ n - 1 = cur
       /\ \A m \in n .. to - 1 : m \notin CodeLines
       /\ \A k \in to .. to - 1 : FALSE
  <2>1. to - 1 = i
    BY <1>5
  <2> QED  BY <1>5, <1>7, <1>9, <2>1
<1>11. Finished(s, n) /\ Tracks(indents, n)
  BY <1>6, <1>7
<1> HIDE DEF n, to
<1>12. /\ Open(to) = Open(n) /\ \A l \in CodeLines : l < to <=> l < n
       /\ HowMany(CodeLines, to - 1) = HowMany(CodeLines, n - 1)
  BY <1>2, <1>10, NothingOpens
<1>13. Finished(s, to) /\ Tracks(indents, to)
  BY <1>11, <1>12 DEF Finished, Tracks
<1>14. Number(s, "newline", Len(s)) = HowMany(CodeLines, to - 1)
  BY <1>6, <1>10, <1>12
<1>15. Sits(to, to, indents, s, TRUE)
  BY <1>8, <1>10, <1>13, <1>14 DEF Sits
<1> QED  BY <1>1, <1>2, <1>10, <1>15, StillLexing

(* The last line ends, with or without a newline of its own. *)
LEMMA LastLineEnds ==
    ASSUME LayoutInv, Finish, NEW closed, closed = toks \o Closing
    PROVE  /\ IsSeq(closed) /\ Continues(toks, closed)
           /\ Finished(closed, Len(src) + 1)
           /\ Number(closed, "newline", Len(closed)) = HowMany(CodeLines, Len(src))
<1>1. phase = "lexing" /\ AtEnd(i) /\ IInv
  BY DEF Finish, LayoutInv
<1>2. Len(src) \in Nat /\ i \in Nat /\ i = Len(src) + 1
  BY <1>1, Position DEF AtEnd
<1>3. IsSeq(toks) /\ Len(toks) \in Nat /\ at_line_start \in BOOLEAN
  BY <1>1, SeqShape DEF IInv, Sound
<1>4. CASE at_line_start
  <2>1. PICK cur \in Nat : Sits(cur, i, indents, toks, TRUE)
    BY <1>1, <1>4 DEF LayoutInv
  <2>2. cur = Len(src) + 1
    BY <1>2, <2>1 DEF Sits
  <2>3. cur - 1 = Len(src)
    BY <1>2, <2>2
  <2>4. closed = toks
    <3>1. Closing = <<>>
      BY <1>4 DEF Closing
    <3>2. toks \in Seq(Range(toks))
      BY <1>3 DEF IsSeq
    <3> QED  BY <3>1, <3>2
  <2> QED  BY <1>1, <1>3, <2>1, <2>2, <2>3, <2>4, GoesOn DEF Sits
<1>5. CASE ~at_line_start
  <2> DEFINE e == Layout("newline")
  <2>1. PICK cur \in Nat : Sits(cur, i, indents, toks, FALSE)
    BY <1>1, <1>3, <1>5, CurrentLine
  <2>2. e.kind = "newline"
    BY TokenKinds DEF Layout
  <2>3. Closing = <<e>>
    BY <1>5 DEF Closing
  <2> HIDE DEF e
  <2>4. closed = Append(toks, e)
    BY <1>3, <2>3, AppendIsOneMore
  <2>5. /\ Finished(closed, cur + 1)
        /\ Number(closed, "newline", Len(closed)) = HowMany(CodeLines, cur)
    BY <1>1, <2>1, <2>2, <2>4, LineEnds
  <2>6. /\ cur \in Nat \ {0} /\ cur <= i /\ \A k \in cur .. i - 1 : src[k] # "\n"
        /\ cur \in CodeLines
    BY <2>1 DEF Sits
  <2>7. \A m \in cur + 1 .. i : m \notin CodeLines
    BY <1>1, <1>2, <2>6, NoLineWithin
  <2>8. cur <= Len(src)
    BY <1>1, <2>6, LinesAre
  <2>9. \A l \in CodeLines : l < Len(src) + 1 => l < cur + 1
    <3> TAKE l \in CodeLines
    <3>1. l \in Nat /\ l <= Len(src)
      BY <1>1, LinesAre
    <3>2. l \notin cur + 1 .. i
      BY <2>7
    <3> QED  BY <1>2, <2>6, <3>1, <3>2
  <2>10. HowMany(CodeLines, Len(src)) = HowMany(CodeLines, cur)
    <3>1. \A m \in cur + 1 .. Len(src) : m \notin CodeLines
      BY <1>2, <2>7
    <3> QED  BY <1>2, <2>6, <2>8, <3>1, HowManyPastRun
  <2>11. IsSeq(closed) /\ Continues(toks, closed)
    BY <1>1, <2>4, GoesOn DEF Continues
  <2> QED  BY <2>5, <2>9, <2>10, <2>11 DEF Finished
<1> QED  BY <1>3, <1>4, <1>5
(* Past it there are dedents and the end, on the last line of the text. *)
LEMMA FinishAdds ==
    ASSUME IInv, Finish, NEW closed, closed = toks \o Closing, IsSeq(closed),
           NEW whole, whole = toks'
    PROVE  /\ Continues(closed, whole)
           /\ \A k \in Len(closed) + 1 .. Len(whole) :
                 whole[k].kind # "newline" /\ whole[k].line = line
<1>1. phase = "lexing"
  BY DEF Finish
<1> DEFINE t == Dedents(Len(indents) - Kept(0))
           eof == Layout("eof")
           s == closed \o t
<1>2. IsSeq(t) /\ \A m \in 1 .. Len(t) : t[m].kind = "dedent" /\ t[m].line = line
  <2>1. Len(indents) - Kept(0) \in Nat
    <3>1. IsStack(indents) /\ 0 \in Nat
      BY <1>1 DEF IInv
    <3>2. Kept(0) \in 1 .. Len(indents) /\ Len(indents) \in Nat
      BY <3>1, KeptIs, StackIs
    <3> QED  BY <3>2
  <2> QED  BY <2>1, DedentsAre, DedentsAreStamped
<1>3. eof.kind = "eof" /\ eof.line = line
  BY TokenKinds, TokenLines DEF Layout
<1>4. whole = s \o <<eof>>
  BY DEF Finish
<1> HIDE DEF t, eof
<1>5. /\ IsSeq(s) /\ Len(s) = Len(closed) + Len(t)
      /\ \A k \in 1 .. Len(closed) : s[k] = closed[k]
      /\ \A k \in Len(closed) + 1 .. Len(closed) + Len(t) : s[k] = t[k - Len(closed)]
  BY <1>2, ConcatSeq
<1>6. Len(closed) \in Nat /\ Len(t) \in Nat /\ Len(s) \in Nat
  BY <1>2, <1>5, SeqShape
<1> HIDE DEF s
<1>7. /\ IsSeq(whole) /\ Len(whole) = Len(s) + 1
      /\ \A k \in 1 .. Len(s) : whole[k] = s[k]
      /\ whole[Len(s) + 1] = eof
  <2>1. whole = Append(s, eof)
    BY <1>4, <1>5, AppendIsOneMore
  <2> DEFINE more == Append(s, eof)
  <2>2. /\ IsSeq(more) /\ Len(more) = Len(s) + 1
        /\ \A k \in 1 .. Len(s) : more[k] = s[k]
        /\ more[Len(s) + 1] = eof
    BY <1>5, AppendSeq
  <2>3. whole = more
    BY <2>1
  <2> HIDE DEF more
  <2> QED  BY <2>2, <2>3
<1>8. Continues(closed, whole)
  BY <1>5, <1>6, <1>7 DEF Continues
<1>9. ASSUME NEW k \in Len(closed) + 1 .. Len(whole)
      PROVE  whole[k].kind # "newline" /\ whole[k].line = line
  <2>1. CASE k = Len(s) + 1
    BY <1>3, <1>7, <2>1
  <2>2. CASE k # Len(s) + 1
    <3>1. k \in 1 .. Len(s) /\ k \in Len(closed) + 1 .. Len(closed) + Len(t)
      BY <1>5, <1>6, <1>7, <2>2
    <3>2. k - Len(closed) \in 1 .. Len(t)
      BY <1>6, <3>1
    <3>3. whole[k].kind = "dedent" /\ whole[k].line = line
      BY <1>2, <1>5, <1>7, <3>1, <3>2
    <3> QED  BY <3>3
  <2> QED  BY <2>1, <2>2
<1> QED  BY <1>8, <1>9

(* What the end of the source closes. *)
LEMMA LayoutOfFinish ==
    ASSUME LayoutInv, IInv', Finish
    PROVE  LayoutInv'
<1>1. phase = "lexing" /\ IInv /\ src' = src /\ phase' = "done"
  BY DEF Finish, LayoutInv
<1> DEFINE closed == toks \o Closing
           whole == toks'
<1>2. /\ IsSeq(closed)
      /\ Finished(closed, Len(src) + 1)
      /\ Number(closed, "newline", Len(closed)) = HowMany(CodeLines, Len(src))
  <2> HIDE DEF closed
  <2>1. closed = toks \o Closing
    BY DEF closed
  <2> QED  BY <2>1, LastLineEnds
<1>3. /\ Continues(closed, whole)
      /\ \A k \in Len(closed) + 1 .. Len(whole) : whole[k].kind # "newline"
  <2>1. closed = toks \o Closing /\ whole = toks'
    OBVIOUS
  <2> HIDE DEF closed, whole
  <2> QED  BY <1>1, <1>2, <2>1, FinishAdds
<1>4. toks' = whole
  OBVIOUS
<1> HIDE DEF closed, whole
<1>5. /\ Finished(whole, Len(src) + 1)
       /\ Number(whole, "newline", Len(whole)) = HowMany(CodeLines, Len(src))
  BY <1>2, <1>3, FinishedContinues, NumbersContinue
<1>6. PICK w, n : w = whole /\ n = Len(src) + 1
  OBVIOUS
<1>7. Finished(w, n)' /\ CodeLines' = CodeLines
  <2>1. Finished(w, n)
    BY <1>5, <1>6
  <2> QED  BY <1>1, <2>1, SamePlaces, SameText
<1>8. Finished(toks, Len(src) + 1)'
  <2>1. toks' = w /\ (Len(src) + 1)' = n
    BY <1>1, <1>4, <1>6
  <2> QED  BY <1>7, <2>1 DEF Finished, Ended, EndsAt
<1>9. (Number(toks, "newline", Len(toks)) = HowMany(CodeLines, Len(src)))'
  <2>1. Number(toks', "newline", Len(toks')) = HowMany(CodeLines', Len(src'))
    BY <1>1, <1>4, <1>5, <1>7
  <2> QED  BY <2>1 DEF Number, OfKind, HowMany
<1> QED  BY <1>1, <1>8, <1>9 DEF LayoutInv

LEMMA LayoutInvPreserved == LayoutInv /\ [Next]_vars => LayoutInv'
<1> SUFFICES ASSUME LayoutInv, [Next]_vars PROVE LayoutInv'
  OBVIOUS
<1>1. IInv'
  BY NextPreserves DEF LayoutInv
<1>2. CASE TabInIndent \/ BadChar
  BY <1>1, <1>2, LayoutOfFailure DEF TabInIndent, BadChar, Fail
<1>3. CASE SkipLine \/ Indent \/ Dedent
  BY <1>1, <1>3, LayoutOfSkipLine, LayoutOfIndent, LayoutOfDedent
<1>4. CASE SkipSpace \/ SkipComment \/ Newline
  BY <1>1, <1>4, LayoutOfSpace, LayoutOfNewline
<1>5. CASE Word \/ Integer \/ Operator
  BY <1>1, <1>5, LayoutOfWord, LayoutOfInteger, LayoutOfOperator
<1>6. CASE Finish
  BY <1>1, <1>6, LayoutOfFinish
<1>7. CASE UNCHANGED vars
  <2>1. UNCHANGED <<src, i, indents, at_line_start, toks, phase>>
    BY <1>7 DEF vars
  <2>2. CASE phase = "lexing"
    <3>1. PICK cur \in Nat : Sits(cur, i, indents, toks, at_line_start)
      BY <2>2 DEF LayoutInv
    <3> QED  BY <1>1, <2>1, <2>2, <3>1, StillLexing
  <2>3. CASE phase = "done"
    <3>1. PICK s, n : s = toks /\ n = Len(src) + 1
      OBVIOUS
    <3>2. Finished(s, n)' /\ CodeLines' = CodeLines
      <4>1. Finished(s, n)
        BY <2>3, <3>1 DEF LayoutInv
      <4> QED  BY <2>1, <4>1, SamePlaces, SameText
    <3>3. Finished(toks, Len(src) + 1)'
      <4>1. toks' = s /\ (Len(src) + 1)' = n
        BY <2>1, <3>1
      <4> QED  BY <3>2, <4>1 DEF Finished, Ended, EndsAt
    <3>4. (Number(toks, "newline", Len(toks)) = HowMany(CodeLines, Len(src)))'
      <4>1. Number(toks', "newline", Len(toks')) = HowMany(CodeLines', Len(src'))
        BY <2>1, <2>3, <3>2 DEF LayoutInv
      <4> QED  BY <4>1 DEF Number, OfKind, HowMany
    <3> QED  BY <1>1, <2>1, <2>3, <3>3, <3>4 DEF LayoutInv
  <2>4. CASE phase = "dedent"
    <3>1. PICK l \in CodeLines : i = MarginOf(l) /\ Refused(l)
      BY <2>4 DEF LayoutInv
    <3> QED  BY <1>1, <2>1, <2>4, <3>1, StillRefused
  <2>5. CASE phase \notin {"lexing", "done", "dedent"}
    BY <1>1, <2>1, <2>5 DEF LayoutInv
  <2> QED  BY <2>2, <2>3, <2>4, <2>5
<1> QED  BY <1>2, <1>3, <1>4, <1>5, <1>6, <1>7 DEF Next

(* Counting lines, by position and as a set. *)
LEMMA LinesCounted ==
    ASSUME IInv
    PROVE  /\ HowMany(CodeLines, Len(src)) = Cardinality(CodeLines)
           /\ \A l \in CodeLines :
                 HowMany(CodeLines, l) = Cardinality({m \in CodeLines : m <= l})
<1>1. Len(src) \in Nat /\ CodeLines \subseteq 1 .. Len(src)
  BY LinesAre
<1>2. {k \in 1 .. Len(src) : k \in CodeLines} = CodeLines
  BY <1>1
<1>3. ASSUME NEW l \in CodeLines
      PROVE  {k \in 1 .. l : k \in CodeLines} = {m \in CodeLines : m <= l}
  <2>1. \A m \in CodeLines : m \in 1 .. Len(src)
    BY <1>1
  <2>2. \A m \in CodeLines : m \in 1 .. l <=> m <= l
    <3> TAKE m \in CodeLines
    <3>1. m \in Nat /\ 1 <= m /\ l \in Nat
      BY <1>1, <2>1
    <3> QED  BY <3>1
  <2>3. \A k \in 1 .. l : k \in CodeLines => k <= l
    BY <2>2
  <2> QED  BY <2>2, <2>3
<1> QED  BY <1>2, <1>3 DEF HowMany

LEMMA LayoutFollows == LayoutInv => BlocksFollowLayout
<1> SUFFICES ASSUME LayoutInv PROVE BlocksFollowLayout
  OBVIOUS
<1>1. IInv /\ IsSeq(toks) /\ Len(toks) \in Nat /\ DOMAIN toks = 1 .. Len(toks)
  BY SeqShape DEF LayoutInv, IInv, Sound
<1>2. \A kind : \A n \in 0 .. Len(toks) : Count(kind, n) = Number(toks, kind, n)
  BY <1>1, CountIsNumber
<1>3. ASSUME phase = "done"
      PROVE  Count("newline", Len(toks)) = Cardinality(CodeLines)
  <2>1. Len(toks) \in 0 .. Len(toks)
    BY <1>1
  <2> QED  BY <1>1, <1>2, <1>3, <2>1, LinesCounted DEF LayoutInv
<1>4. ASSUME phase = "done", NEW l \in CodeLines
      PROVE  Aligned(l) /\ DepthAt(NewlineOf(l)) = Cardinality(Enclosing(l))
  <2>1. Aligned(l) /\ Ended(toks, l)
    <3>1. l < Len(src) + 1
      BY <1>1, LinesAre
    <3> QED  BY <1>4, <3>1 DEF LayoutInv, Finished
  <2>2. PICK n \in Nat : EndsAt(toks, l, n)
    BY <2>1 DEF Ended
  <2>3. n \in 1 .. Len(toks) /\ n \in DOMAIN toks /\ n \in 0 .. Len(toks)
    BY <1>1, <2>2 DEF EndsAt
  <2> DEFINE N == Cardinality({m \in CodeLines : m <= l})
  <2>4. HowMany(CodeLines, l) = N
    BY <1>1, LinesCounted
  <2> HIDE DEF N
  <2>5. toks[n].kind = "newline" /\ Count("newline", n) = N
    BY <1>2, <2>2, <2>3, <2>4 DEF EndsAt
  <2>6. ASSUME NEW k \in DOMAIN toks, toks[k].kind = "newline", Count("newline", k) = N
        PROVE  k = n
    <3>1. k \in 1 .. Len(toks) /\ k \in 0 .. Len(toks)
      BY <1>1
    <3>2. Number(toks, "newline", k) = Number(toks, "newline", n)
      BY <1>2, <2>3, <2>5, <2>6, <3>1
    <3> QED  BY <1>1, <2>3, <2>5, <2>6, <3>1, <3>2, EndIsUnique
  <2>7. NewlineOf(l) = n
    <3>1. NewlineOf(l) = CHOOSE k \in DOMAIN toks : toks[k].kind = "newline" /\ Count("newline", k) = N
      BY DEF NewlineOf, N
    <3> QED  BY <2>3, <2>5, <2>6, <3>1
  <2>8. DepthAt(n) = Number(toks, "indent", n) - Number(toks, "dedent", n)
    BY <1>2, <2>3 DEF DepthAt
  <2> QED  BY <2>1, <2>2, <2>7, <2>8 DEF EndsAt
<1>5. phase = "dedent" => \E l \in CodeLines :
                            i = MarginOf(l) /\ ~Aligned(l) /\ \A m \in CodeLines : m < l => Aligned(m)
  BY DEF LayoutInv, Refused
<1> QED  BY <1>3, <1>4, <1>5 DEF BlocksFollowLayout

(* On every text the off-side rule is the layout: each line of code ends   *)
(* as deep as the lines that enclose it, whatever blank lines, comments    *)
(* and missing newlines fall between, and the only line refused is the     *)
(* first that is between two levels (lexer.cc:74-113).                     *)
THEOREM LayoutIsFollowed == Spec => []BlocksFollowLayout
<1>1. Spec => []LayoutInv
  BY LayoutOfInit, LayoutInvPreserved, PTL DEF Spec
<1> QED  BY <1>1, LayoutFollows, PTL

-----------------------------------------------------------------------------
(* The lines that tokens carry *)

(* A token that over ended lines of code precede is on the next of them,   *)
(* or where the text ends.                                                 *)
PlacedAt(t, over) ==
    /\ \A l \in CodeLines :
          HowMany(CodeLines, l - 1) = over => t.line = 1 + HowMany(Newlines, l - 1)
    /\ HowMany(CodeLines, Len(src)) = over => t.line = 1 + HowMany(Newlines, Len(src))

Placed(s) == \A n \in 1 .. Len(s) : PlacedAt(s[n], Number(s, "newline", n - 1))

TokenInv == LayoutInv /\ LineInv /\ Placed(toks)

LEMMA HowManyMore ==
    ASSUME NEW P, NEW m \in Nat, NEW n \in Nat, NEW x \in P, x \in Nat, m < x, x <= n
    PROVE  HowMany(P, m) < HowMany(P, n)
<1> DEFINE A == {k \in 1 .. m : k \in P}
           Z == {k \in 1 .. n : k \in P}
<1>1. IsFiniteSet(A) /\ IsFiniteSet(Z) /\ Cardinality(A) \in Nat /\ Cardinality(Z) \in Nat
  BY HowManyIsNat DEF HowMany
<1>2. x \notin A /\ A \cup {x} \in SUBSET Z
  OBVIOUS
<1> HIDE DEF A, Z
<1>3. Cardinality(A \cup {x}) = Cardinality(A) + 1
  BY <1>1, <1>2, FS_AddElement
<1>4. Cardinality(A \cup {x}) <= Cardinality(Z)
  BY <1>1, <1>2, FS_Subset
<1>5. Cardinality(A) < Cardinality(Z)
  BY <1>1, <1>3, <1>4
<1> QED  BY <1>5 DEF HowMany, A, Z

(* Lines of code differ in how many precede them. *)
LEMMA LinesDiffer ==
    ASSUME IInv, NEW k \in CodeLines, NEW l \in CodeLines,
           HowMany(CodeLines, k - 1) = HowMany(CodeLines, l - 1)
    PROVE  k = l
<1>1. k \in Nat /\ l \in Nat /\ 1 <= k /\ 1 <= l
  BY LinesAre
<1> DEFINE a == k - 1
           z == l - 1
<1>2. a \in Nat /\ z \in Nat /\ a + 1 = k /\ z + 1 = l
  BY <1>1
<1> HIDE DEF a, z
<1>3. HowMany(CodeLines, a) \in Nat /\ HowMany(CodeLines, z) \in Nat
  BY <1>2, HowManyIsNat
<1>4. HowMany(CodeLines, a) = HowMany(CodeLines, z)
  BY DEF a, z
<1>5. ~(k < l)
  <2> SUFFICES ASSUME k < l PROVE FALSE
    OBVIOUS
  <2>1. a < k /\ k <= z
    BY <1>1, <1>2
  <2> QED  BY <1>1, <1>2, <1>3, <1>4, <2>1, HowManyMore
<1>6. ~(l < k)
  <2> SUFFICES ASSUME l < k PROVE FALSE
    OBVIOUS
  <2>1. z < l /\ l <= a
    BY <1>1, <1>2
  <2> QED  BY <1>1, <1>2, <1>3, <1>4, <2>1, HowManyMore
<1> QED  BY <1>1, <1>5, <1>6

LEMMA LineIsNotLast ==
    ASSUME IInv, NEW l \in CodeLines
    PROVE  HowMany(CodeLines, l - 1) # HowMany(CodeLines, Len(src))
<1>1. l \in Nat /\ 1 <= l /\ l <= Len(src) /\ Len(src) \in Nat
  BY LinesAre
<1> DEFINE m == l - 1
           n == Len(src)
<1>2. m \in Nat /\ n \in Nat /\ m < l /\ l <= n
  BY <1>1
<1> HIDE DEF m, n
<1>3. HowMany(CodeLines, m) < HowMany(CodeLines, n)
  BY <1>1, <1>2, HowManyMore
<1>4. HowMany(CodeLines, m) \in Nat /\ HowMany(CodeLines, n) \in Nat
  BY <1>2, HowManyIsNat
<1>5. HowMany(CodeLines, m) # HowMany(CodeLines, n)
  BY <1>3, <1>4
<1> QED  BY <1>5 DEF m, n

(* A token of the line of code that begins at cur. *)
LEMMA OnItsLine ==
    ASSUME LineInv, NEW cur \in CodeLines, cur <= i, \A k \in cur .. i - 1 : src[k] # "\n",
           NEW e, e.line = line
    PROVE  PlacedAt(e, HowMany(CodeLines, cur - 1))
<1>1. IInv /\ Len(src) \in Nat /\ i \in 1 .. Len(src) + 1 /\ cur \in Nat /\ 1 <= cur
  BY LinesAre DEF LineInv, IInv
<1>2. e.line = 1 + HowMany(Newlines, cur - 1)
  <2> DEFINE m == cur - 1
             n == i - 1
  <2>1. m \in Nat /\ n \in Nat /\ m <= n /\ m + 1 = cur
    BY <1>1
  <2>2. \A k \in m + 1 .. n : k \notin Newlines
    BY <2>1 DEF Newlines
  <2>3. e.line = 1 + HowMany(Newlines, n)
    BY DEF LineInv
  <2> HIDE DEF m, n
  <2>4. HowMany(Newlines, n) = HowMany(Newlines, m)
    BY <2>1, <2>2, HowManyPastRun
  <2>5. e.line = 1 + HowMany(Newlines, m)
    BY <2>3, <2>4
  <2> QED  BY <2>5 DEF m
<1>3. ASSUME NEW l \in CodeLines, HowMany(CodeLines, l - 1) = HowMany(CodeLines, cur - 1)
      PROVE  e.line = 1 + HowMany(Newlines, l - 1)
  <2>1. l = cur
    BY <1>1, <1>3, LinesDiffer
  <2> QED  BY <1>2, <2>1
<1>4. HowMany(CodeLines, Len(src)) # HowMany(CodeLines, cur - 1)
  BY <1>1, LineIsNotLast
<1> QED  BY <1>3, <1>4 DEF PlacedAt

(* A token past the last line. *)
LEMMA AtTheEnd ==
    ASSUME LineInv, AtEnd(i), NEW e, e.line = line
    PROVE  PlacedAt(e, HowMany(CodeLines, Len(src)))
<1>1. IInv /\ Len(src) \in Nat /\ i - 1 = Len(src)
  BY DEF LineInv, IInv, AtEnd
<1>2. e.line = 1 + HowMany(Newlines, Len(src))
  BY <1>1 DEF LineInv
<1>3. \A l \in CodeLines : HowMany(CodeLines, l - 1) # HowMany(CodeLines, Len(src))
  BY <1>1, LineIsNotLast
<1> QED  BY <1>2, <1>3 DEF PlacedAt

(* Tokens added on a line, of which only the last one may end it. *)
LEMMA PlacedContinues ==
    ASSUME NEW s, Placed(s), NEW t, Continues(s, t),
           \A k \in Len(s) + 1 .. Len(t) :
              /\ PlacedAt(t[k], Number(s, "newline", Len(s)))
              /\ k < Len(t) => t[k].kind # "newline"
    PROVE  Placed(t)
<1>1. /\ Len(s) \in Nat /\ Len(t) \in Nat /\ Len(s) <= Len(t)
      /\ DOMAIN t = 1 .. Len(t) /\ \A k \in 1 .. Len(s) : t[k] = s[k]
  BY SeqShape DEF Continues
<1>2. \A n \in 0 .. Len(s) : Number(t, "newline", n) = Number(s, "newline", n)
  BY NumbersContinue
<1>3. ASSUME NEW n \in 1 .. Len(s)
      PROVE  PlacedAt(t[n], Number(t, "newline", n - 1))
  <2>1. n - 1 \in 0 .. Len(s) /\ t[n] = s[n]
    BY <1>1
  <2>2. Number(t, "newline", n - 1) = Number(s, "newline", n - 1)
    BY <1>2, <2>1
  <2> QED  BY <2>1, <2>2 DEF Placed
<1>4. ASSUME NEW n \in Len(s) + 1 .. Len(t)
      PROVE  PlacedAt(t[n], Number(t, "newline", n - 1))
  <2> DEFINE m == n - 1
             L == Len(s)
  <2>1. m \in Nat /\ L \in Nat /\ L <= m /\ L \in 0 .. Len(s)
        /\ \A k \in L + 1 .. m : k \in Len(s) + 1 .. Len(t) /\ k < Len(t)
    BY <1>1
  <2>2. \A k \in L + 1 .. m : k \notin OfKind(t, "newline")
    BY <2>1 DEF OfKind
  <2>3. Number(t, "newline", L) = Number(s, "newline", L)
    BY <1>2, <2>1
  <2> HIDE DEF m
  <2>4. Number(t, "newline", m) = Number(t, "newline", L)
    BY <2>1, <2>2, HowManyPastRun DEF Number
  <2>5. Number(t, "newline", m) = Number(s, "newline", Len(s))
    BY <2>3, <2>4
  <2>6. PlacedAt(t[n], Number(s, "newline", Len(s)))
    OBVIOUS
  <2>7. PlacedAt(t[n], Number(t, "newline", m))
    BY <2>5, <2>6
  <2> QED  BY <2>7 DEF m
<1>5. \A n \in 1 .. Len(t) : n \in 1 .. Len(s) \/ n \in Len(s) + 1 .. Len(t)
  BY <1>1
<1> QED  BY <1>3, <1>4, <1>5 DEF Placed

LEMMA SamePlacing ==
    ASSUME src' = src, NEW s, Placed(s), toks' = s
    PROVE  Placed(toks)'
<1>1. CodeLines' = CodeLines /\ Newlines' = Newlines
  BY SameText DEF Newlines
<1>2. \A t, over : PlacedAt(t, over)' <=> PlacedAt(t, over)
  BY <1>1 DEF PlacedAt
<1>3. Placed(s)'
  BY <1>2 DEF Placed
<1> QED  BY <1>3 DEF Placed

(* A token of the line the scanner is on. *)
LEMMA OnTheCurrentLine ==
    ASSUME TokenInv, CodeStarts \/ (phase = "lexing" /\ at_line_start = FALSE),
           NEW e, e.line = line
    PROVE  PlacedAt(e, Number(toks, "newline", Len(toks)))
<1>1. LayoutInv /\ LineInv
  BY DEF TokenInv
<1>2. \E cur \in CodeLines : \E b : Sits(cur, i, indents, toks, b)
  <2>1. CASE CodeStarts
    BY <1>1, <2>1, CodeLineIs
  <2>2. CASE phase = "lexing" /\ at_line_start = FALSE
    <3>1. PICK cur \in Nat : Sits(cur, i, indents, toks, FALSE)
      BY <1>1, <2>2, CurrentLine
    <3>2. cur \in CodeLines
      BY <3>1 DEF Sits
    <3> QED  BY <3>1, <3>2
  <2> QED  BY <2>1, <2>2
<1>3. PICK cur \in CodeLines : \E b : Sits(cur, i, indents, toks, b)
  BY <1>2
<1>4. /\ cur <= i /\ \A k \in cur .. i - 1 : src[k] # "\n"
      /\ Number(toks, "newline", Len(toks)) = HowMany(CodeLines, cur - 1)
  BY <1>3 DEF Sits
<1>5. PlacedAt(e, HowMany(CodeLines, cur - 1))
  BY <1>1, <1>4, OnItsLine
<1> QED  BY <1>4, <1>5

LEMMA OneMorePlaced ==
    ASSUME TokenInv, CodeStarts \/ (phase = "lexing" /\ at_line_start = FALSE),
           NEW e, e.line = line, NEW s, s = Append(toks, e)
    PROVE  Placed(s)
<1>1. IInv /\ IsSeq(toks) /\ Len(toks) \in Nat
  BY SeqShape DEF TokenInv, LayoutInv, IInv, Sound
<1>2. Continues(toks, s) /\ Len(s) = Len(toks) + 1 /\ s[Len(toks) + 1] = e
  BY <1>1, GoesOn, AppendSeq
<1>3. PlacedAt(e, Number(toks, "newline", Len(toks)))
  BY OnTheCurrentLine
<1>4. \A k \in Len(toks) + 1 .. Len(s) : k = Len(toks) + 1 /\ ~(k < Len(s))
  BY <1>1, <1>2
<1>5. Placed(toks)
  BY DEF TokenInv
<1> QED  BY <1>2, <1>3, <1>4, <1>5, PlacedContinues

LEMMA DedentsPlaced ==
    ASSUME TokenInv, Dedent, NEW s, toks' = s
    PROVE  Placed(s)
<1>1. /\ CodeStarts /\ LineStart /\ phase = "lexing"
      /\ IInv /\ IsSeq(toks) /\ Len(toks) \in Nat
  BY SeqShape DEF Dedent, CodeStarts, LineStart, TokenInv, LayoutInv, IInv, Sound
<1> DEFINE t == Dedents(Len(indents) - Kept(Width))
<1>2. s = toks \o t
  BY DEF Dedent
<1>3. Len(indents) - Kept(Width) \in Nat
  <2>1. IsStack(indents) /\ Width \in Nat
    BY <1>1, MarginIs DEF IInv
  <2>2. Kept(Width) \in 1 .. Len(indents)
    BY <2>1, StackShrinks
  <2>3. Len(indents) \in Nat
    BY <2>1 DEF IsStack
  <2> QED  BY <2>2, <2>3
<1>4. IsSeq(t) /\ \A m \in 1 .. Len(t) : t[m].kind = "dedent" /\ t[m].line = line
  BY <1>3, DedentsAre, DedentsAreStamped
<1> HIDE DEF t
<1>5. /\ IsSeq(s) /\ Len(s) = Len(toks) + Len(t) /\ Len(t) \in Nat
      /\ \A k \in 1 .. Len(toks) : s[k] = toks[k]
      /\ \A k \in Len(toks) + 1 .. Len(toks) + Len(t) : s[k] = t[k - Len(toks)]
  BY <1>1, <1>2, <1>4, ConcatSeq, SeqShape
<1>6. Continues(toks, s)
  BY <1>1, <1>5 DEF Continues
<1>7. ASSUME NEW k \in Len(toks) + 1 .. Len(s)
      PROVE  s[k].line = line /\ s[k].kind # "newline"
  <2>1. k - Len(toks) \in 1 .. Len(t)
    BY <1>1, <1>5
  <2>2. s[k].kind = "dedent" /\ s[k].line = line
    BY <1>4, <1>5, <2>1
  <2> QED  BY <2>2
<1>8. \A k \in Len(toks) + 1 .. Len(s) : PlacedAt(s[k], Number(toks, "newline", Len(toks)))
  BY <1>1, <1>7, OnTheCurrentLine
<1>9. Placed(toks)
  BY DEF TokenInv
<1> QED  BY <1>6, <1>7, <1>8, <1>9, PlacedContinues

LEMMA EndPlaced ==
    ASSUME TokenInv, Finish, NEW s, toks' = s
    PROVE  Placed(s)
<1>1. /\ phase = "lexing" /\ AtEnd(i) /\ LineInv /\ LayoutInv /\ IInv /\ Placed(toks)
      /\ at_line_start \in BOOLEAN /\ IsSeq(toks)
  BY DEF Finish, TokenInv, LayoutInv, IInv, Sound
<1>2. PICK closed : closed = toks \o Closing
  OBVIOUS
<1>3. /\ IsSeq(closed)
      /\ Number(closed, "newline", Len(closed)) = HowMany(CodeLines, Len(src))
  BY <1>1, <1>2, LastLineEnds
<1>4. /\ Continues(closed, s)
      /\ \A k \in Len(closed) + 1 .. Len(s) : s[k].kind # "newline" /\ s[k].line = line
  BY <1>1, <1>2, <1>3, FinishAdds
<1>5. Placed(closed)
  <2>1. CASE at_line_start
    <3>1. Closing = <<>> /\ toks \in Seq(Range(toks))
      BY <1>1, <2>1 DEF Closing, IsSeq
    <3>2. closed = toks
      BY <1>2, <3>1
    <3> QED  BY <1>1, <3>2
  <2>2. CASE ~at_line_start
    <3> DEFINE e == Layout("newline")
    <3>1. e.line = line
      BY TokenLines DEF Layout
    <3>2. Closing = <<e>>
      BY <2>2 DEF Closing
    <3> HIDE DEF e
    <3>3. closed = Append(toks, e)
      BY <1>1, <1>2, <3>2, AppendIsOneMore
    <3>4. at_line_start = FALSE
      BY <1>1, <2>2
    <3> QED  BY <1>1, <3>1, <3>3, <3>4, OneMorePlaced
  <2> QED  BY <2>1, <2>2
<1>6. \A k \in Len(closed) + 1 .. Len(s) : PlacedAt(s[k], Number(closed, "newline", Len(closed)))
  BY <1>1, <1>3, <1>4, AtTheEnd
<1> QED  BY <1>4, <1>5, <1>6, PlacedContinues

LEMMA TokenInvPreserved == TokenInv /\ [Next]_vars => TokenInv'
<1> SUFFICES ASSUME TokenInv, [Next]_vars PROVE TokenInv'
  OBVIOUS
<1>1. LayoutInv' /\ LineInv' /\ Placed(toks) /\ at_line_start \in BOOLEAN
  BY LayoutInvPreserved, LineInvPreserved DEF TokenInv, LayoutInv, IInv
<1>2. src' = src
  BY DEF Next, vars, TabInIndent, SkipLine, Indent, Dedent, SkipSpace, SkipComment,
         Newline, Word, Integer, Operator, BadChar, Finish, Fail, Take, TakeTwo, TakeOne
<1>3. PICK s : toks' = s
  OBVIOUS
<1>4. CASE toks' = toks
  BY <1>1, <1>2, <1>4, SamePlacing DEF TokenInv
<1>5. CASE Indent
  <2>1. PICK e : e = Layout("indent")
    OBVIOUS
  <2>2. CodeStarts /\ s = Append(toks, e) /\ e.line = line
    BY <1>3, <1>5, <2>1, TokenLines DEF Indent, Layout
  <2>3. Placed(s)
    BY <2>2, OneMorePlaced
  <2> QED  BY <1>1, <1>2, <1>3, <2>3, SamePlacing DEF TokenInv
<1>6. CASE Dedent
  BY <1>1, <1>2, <1>3, <1>6, DedentsPlaced, SamePlacing DEF TokenInv
<1>7. CASE Newline \/ Word \/ Integer \/ Operator
  <2>1. phase = "lexing" /\ at_line_start = FALSE
    BY <1>1, <1>7 DEF Newline, Word, Integer, Operator, Inside
  <2>2. \E kind, text : toks' = Append(toks, Token(kind, text))
    BY <1>7 DEF Newline, Layout, Word, Integer, Operator, TakeTwo, TakeOne, Take
  <2>3. PICK kind, text : toks' = Append(toks, Token(kind, text))
    BY <2>2
  <2>4. PICK e : e = Token(kind, text)
    OBVIOUS
  <2>5. s = Append(toks, e) /\ e.line = line
    BY <1>3, <2>3, <2>4, TokenLines
  <2>6. Placed(s)
    BY <2>1, <2>5, OneMorePlaced
  <2> QED  BY <1>1, <1>2, <1>3, <2>6, SamePlacing DEF TokenInv
<1>8. CASE Finish
  BY <1>1, <1>2, <1>3, <1>8, EndPlaced, SamePlacing DEF TokenInv
<1>9. CASE TabInIndent \/ SkipLine \/ SkipSpace \/ SkipComment \/ BadChar \/ UNCHANGED vars
  <2>1. toks' = toks
    BY <1>9 DEF TabInIndent, SkipLine, SkipSpace, SkipComment, BadChar, Fail, vars
  <2> QED  BY <1>4, <2>1
<1> QED  BY <1>5, <1>6, <1>7, <1>8, <1>9 DEF Next

LEMMA TokensLieOnLines == TokenInv => TokensOnTheirLines
<1> SUFFICES ASSUME TokenInv PROVE TokensOnTheirLines
  OBVIOUS
<1>1. /\ IInv /\ IsSeq(toks) /\ Len(toks) \in Nat /\ DOMAIN toks = 1 .. Len(toks)
      /\ Placed(toks)
  BY SeqShape DEF TokenInv, LayoutInv, IInv, Sound
<1>2. /\ Len(src) \in Nat /\ DOMAIN src = 1 .. Len(src)
      /\ CodeLines \subseteq 1 .. Len(src)
  BY <1>1, Position, LinesAre
<1>3. ASSUME NEW p \in 1 .. Len(src) + 1
      PROVE  LineNumber(p) = 1 + HowMany(Newlines, p - 1)
  <2>1. {k \in 1 .. p - 1 : src[k] = "\n"} = {k \in 1 .. p - 1 : k \in Newlines}
    BY <1>2 DEF Newlines
  <2> QED  BY <2>1 DEF LineNumber, HowMany
<1>4. ASSUME NEW l \in CodeLines
      PROVE  Cardinality({m \in CodeLines : m < l}) = HowMany(CodeLines, l - 1)
  <2>1. \A m \in CodeLines : m < l <=> m \in 1 .. l - 1
    BY <1>2
  <2>2. {m \in CodeLines : m < l} = {k \in 1 .. l - 1 : k \in CodeLines}
    BY <2>1
  <2> QED  BY <2>2 DEF HowMany
<1>5. HowMany(CodeLines, Len(src)) = Cardinality(CodeLines)
  BY <1>1, LinesCounted
<1>6. LineNumber(Len(src) + 1) = 1 + HowMany(Newlines, Len(src))
  <2>1. Len(src) + 1 \in 1 .. Len(src) + 1 /\ Len(src) + 1 - 1 = Len(src)
    BY <1>2
  <2> QED  BY <1>3, <2>1
<1>7. \A l \in CodeLines : LineNumber(l) = 1 + HowMany(Newlines, l - 1)
  <2>1. \A l \in CodeLines : l \in 1 .. Len(src) + 1
    BY <1>2
  <2> QED  BY <1>3, <2>1
<1>8. ASSUME NEW n \in DOMAIN toks
      PROVE  LET over == Count("newline", n - 1)
             IN  /\ \A l \in CodeLines :
                       Cardinality({m \in CodeLines : m < l}) = over
                           => toks[n].line = LineNumber(l)
                 /\ Cardinality(CodeLines) = over
                       => toks[n].line = LineNumber(Len(src) + 1)
  <2>1. n \in 1 .. Len(toks) /\ n - 1 \in 0 .. Len(toks)
    BY <1>1
  <2>2. Count("newline", n - 1) = Number(toks, "newline", n - 1)
    BY <1>1, <2>1, CountIsNumber
  <2>3. PlacedAt(toks[n], Number(toks, "newline", n - 1))
    BY <1>1, <2>1 DEF Placed
  <2> QED  BY <1>4, <1>5, <1>6, <1>7, <2>2, <2>3 DEF PlacedAt
<1> QED  BY <1>8 DEF TokensOnTheirLines

(* Whatever the source and however long its literals, every token carries  *)
(* the line its text is on, counted in the source, every error the line it *)
(* is found on, and every literal the int64_t that its digits wrap to      *)
(* (lexer.cc:93, 103-107, 128, 145-158, 246-252): neither blank lines,     *)
(* comments nor a missing newline shift a token, and reducing modulo 2^64  *)
(* digit by digit loses nothing.                                           *)
THEOREM TokensAreAccurate == Spec => []TokensAccurate
<1>1. Init => TokenInv
  <2> SUFFICES ASSUME Init PROVE TokenInv
    OBVIOUS
  <2>1. LayoutInv /\ LineInv
    BY LayoutOfInit, TypeInvAtFirst DEF TypeInv
  <2>2. Len(toks) = 0
    BY DEF Init
  <2> QED  BY <2>1, <2>2 DEF TokenInv, Placed
<1>2. Spec => []TokenInv
  BY <1>1, TokenInvPreserved, PTL DEF Spec
<1>3. TypeInv /\ TokenInv => TokensAccurate
  <2> SUFFICES ASSUME TypeInv, TokenInv PROVE TokensAccurate
    OBVIOUS
  <2>1. LineIsTrue
    BY LineInvIsTrue DEF TypeInv, LineInv
  <2>2. \A n \in DOMAIN toks : toks[n] \in TokenSet
    BY DEF TypeInv
  <2>3. LiteralsWrap
    BY <2>2 DEF LiteralsWrap, TokenSet
  <2> QED  BY <2>1, <2>3, TokensLieOnLines DEF TokensAccurate
<1> QED  BY <1>2, <1>3, TypeInvariance, PTL
=============================================================================
