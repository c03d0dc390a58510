--------------------------- MODULE CompileProofs ---------------------------
(***************************************************************************)
(* A compilation, at its two ends.  What it takes in: when the worklist    *)
(* stops it has found exactly the reachable functions, each of them once,  *)
(* for every call graph.  What comes out of it, as far as it is straight   *)
(* code, for words of any width: the code of every operator computes what  *)
(* the tree walker computes, mov_imm64 leaves its constant, a prologue     *)
(* makes the frame that sema laid out, an epilogue gives the caller back   *)
(* its own, the arguments of a call arrive, print prints its own, and the  *)
(* stub of a division by zero ends the process.                            *)
(***************************************************************************)
EXTENDS HotSet, Machine, Ast, SequenceTheorems, TLAPS

-----------------------------------------------------------------------------
(* The worklist: its inductive invariant *)

WorkTypes ==
    /\ body \in [Func -> Seq(Func)]
    /\ root \in Func
    /\ found \in Seq(Func)
    /\ seen \in SUBSET Func
    /\ work \in Seq(Func)
    /\ callees \in Seq(Func)

(* A function has been seen when it was found or waits to be. *)
SeenIsFoundOrWaiting ==
    /\ seen = Elems(found) \cup Elems(work)
    /\ root \in seen

(* Nothing is seen, or about to be looked at, that the root cannot reach. *)
OnlyReachable == seen \cup Elems(callees) \subseteq Reachable(calls, root)

(* The calls of a function that was found are seen, or next in the loop. *)
CallsAreSeen == \A f \in Elems(found) : CallsOf(f) \subseteq seen \cup Elems(callees)

(* No function waits twice, nor waits once it has been found. *)
NothingTwice ==
    /\ FoundOnce
    /\ \A i, j \in 1 .. Len(work) : work[i] = work[j] => i = j
    /\ Elems(found) \cap Elems(work) = {}

WorkInv ==
    /\ WorkTypes
    /\ SeenIsFoundOrWaiting
    /\ OnlyReachable
    /\ CallsAreSeen
    /\ NothingTwice

-----------------------------------------------------------------------------
(* Facts about the operators *)

LEMMA AppendElems ==
    ASSUME NEW s \in Seq(Func), NEW e \in Func
    PROVE  /\ Append(s, e) \in Seq(Func)
           /\ Elems(Append(s, e)) = Elems(s) \cup {e}
           /\ (e \notin Elems(s) /\ \A i, j \in 1 .. Len(s) : s[i] = s[j] => i = j) =>
                 \A i, j \in 1 .. Len(Append(s, e)) :
                    Append(s, e)[i] = Append(s, e)[j] => i = j
<1> DEFINE n == Len(s)
           t == Append(s, e)
<1>1. /\ t \in Seq(Func)
      /\ Len(t) = n + 1
      /\ \A i \in 1 .. n : t[i] = s[i]
      /\ t[n + 1] = e
  BY AppendProperties
<1>2. n \in Nat /\ 1 .. n + 1 = (1 .. n) \cup {n + 1}
  BY LenProperties
<1>3. Elems(s) = {s[i] : i \in 1 .. n} /\ Elems(t) = {t[i] : i \in 1 .. Len(t)}
  BY DEF Elems
<1> HIDE DEF n, t
<1>4. Elems(t) = Elems(s) \cup {e}
  BY <1>1, <1>2, <1>3
<1>5. ASSUME e \notin Elems(s), \A i, j \in 1 .. n : s[i] = s[j] => i = j
      PROVE  \A i, j \in 1 .. Len(t) : t[i] = t[j] => i = j
  BY <1>1, <1>2, <1>3, <1>5
<1> QED
  BY <1>1, <1>4, <1>5 DEF n, t

(* The back of a worklist without repetitions, and the rest of it. *)
LEMMA PopBack ==
    ASSUME NEW s \in Seq(Func), s # <<>>,
           \A i, j \in 1 .. Len(s) : s[i] = s[j] => i = j
    PROVE  LET t == SubSeq(s, 1, Len(s) - 1)
               e == s[Len(s)]
           IN  /\ e \in Func
               /\ t \in Seq(Func)
               /\ Elems(s) = Elems(t) \cup {e}
               /\ e \notin Elems(t)
               /\ \A i, j \in 1 .. Len(t) : t[i] = t[j] => i = j
<1> DEFINE n == Len(s)
           t == SubSeq(s, 1, n - 1)
           e == s[n]
<1>1. n \in Nat \ {0} /\ \A i \in 1 .. n : s[i] \in Func
  BY LenProperties, EmptySeq, ElementOfSeq
<1>2. /\ t \in Seq(Func)
      /\ Len(t) = IF 1 <= n - 1 THEN n - 1 - 1 + 1 ELSE 0
      /\ \A i \in 1 .. n - 1 - 1 + 1 : t[i] = s[1 + i - 1]
  BY <1>1, SubSeqProperties
<1>3. Elems(s) = {s[i] : i \in 1 .. n} /\ Elems(t) = {t[i] : i \in 1 .. Len(t)}
  BY DEF Elems
<1>4. \A i, j \in 1 .. n : s[i] = s[j] => i = j
  OBVIOUS
<1> HIDE DEF n, t
<1>5. /\ Len(t) = n - 1
      /\ \A i \in 1 .. n - 1 : t[i] = s[i]
      /\ 1 .. n = (1 .. n - 1) \cup {n}
  BY <1>1, <1>2
<1>6. Elems(s) = Elems(t) \cup {e} /\ e \notin Elems(t) /\ e \in Func
  BY <1>1, <1>3, <1>4, <1>5
<1>7. \A i, j \in 1 .. Len(t) : t[i] = t[j] => i = j
  BY <1>1, <1>4, <1>5
<1> QED
  BY <1>2, <1>6, <1>7 DEF n, t

LEMMA HeadTailElems ==
    ASSUME NEW s \in Seq(Func), s # <<>>
    PROVE  /\ Head(s) \in Func
           /\ Tail(s) \in Seq(Func)
           /\ Elems(s) = Elems(Tail(s)) \cup {Head(s)}
<1> DEFINE n == Len(s)
           t == Tail(s)
<1>1. /\ n \in Nat \ {0}
      /\ Head(s) = s[1]
      /\ Head(s) \in Func
      /\ t \in Seq(Func)
      /\ Len(t) = n - 1
      /\ \A i \in 1 .. Len(t) : t[i] = s[i + 1]
  BY EmptySeq, HeadTailProperties
<1>2. Elems(s) = {s[i] : i \in 1 .. n} /\ Elems(t) = {t[i] : i \in 1 .. Len(t)}
  BY DEF Elems
<1> HIDE DEF n, t
<1>3. Elems(s) \subseteq Elems(t) \cup {Head(s)}
  <2> SUFFICES ASSUME NEW i \in 1 .. n
               PROVE  s[i] \in Elems(t) \cup {Head(s)}
    BY <1>2
  <2>1. CASE i = 1
    BY <1>1, <2>1
  <2>2. CASE i # 1
    <3>1. i - 1 \in 1 .. Len(t) /\ i - 1 + 1 = i
      BY <1>1, <2>2
    <3>2. t[i - 1] = s[i]
      BY <1>1, <3>1
    <3> QED
      BY <1>2, <3>1, <3>2
  <2> QED
    BY <2>1, <2>2
<1>4. Elems(t) \cup {Head(s)} \subseteq Elems(s)
  BY <1>1, <1>2
<1> QED
  BY <1>1, <1>3, <1>4 DEF t

(* The call graph of a program, and the facts about Reachable used below. *)
LEMMA ReachableFacts ==
    ASSUME body \in [Func -> Seq(Func)], root \in Func
    PROVE  /\ calls \in CallGraphs
           /\ \A f \in Func : calls[f] = CallsOf(f)
           /\ root \in Reachable(calls, root)
           /\ Reachable(calls, root) \subseteq Func
           /\ \A f \in Reachable(calls, root) : CallsOf(f) \subseteq Reachable(calls, root)
           /\ \A S \in SUBSET Func :
                 (root \in S /\ CallClosed(calls, S)) => Reachable(calls, root) \subseteq S
<1>1. \A f \in Func : CallsOf(f) \subseteq Func
  BY ElementOfSeq DEF CallsOf
<1>2. /\ calls \in CallGraphs
      /\ \A f \in Func : calls[f] = CallsOf(f)
  BY <1>1 DEF calls, CallGraphs
<1>3. /\ root \in Reachable(calls, root)
      /\ Reachable(calls, root) \subseteq Func
      /\ \A S \in SUBSET Func :
            (root \in S /\ CallClosed(calls, S)) => Reachable(calls, root) \subseteq S
  BY DEF Reachable
<1>4. ASSUME NEW f \in Reachable(calls, root), NEW g \in CallsOf(f)
      PROVE  g \in Reachable(calls, root)
  <2>1. f \in Func /\ g \in Func /\ g \in calls[f]
    BY <1>1, <1>2, <1>3, <1>4
  <2>2. ASSUME NEW S \in SUBSET Func, root \in S, CallClosed(calls, S)
        PROVE  g \in S
    BY <1>4, <2>1, <2>2 DEF Reachable, CallClosed
  <2> QED
    BY <2>1, <2>2 DEF Reachable
<1> QED
  BY <1>2, <1>3, <1>4

-----------------------------------------------------------------------------
(* The loop preserves the invariant *)

LEMMA EmptyElems == Elems(<<>>) = {}
  BY EmptySeq DEF Elems

LEMMA PopPreserves ==
    ASSUME WorkInv, Pop
    PROVE  WorkInv'
<1> DEFINE fn == work[Len(work)]
           rest == SubSeq(work, 1, Len(work) - 1)
<1>1. /\ callees = <<>> /\ work # <<>>
      /\ found' = Append(found, fn)
      /\ work' = rest
      /\ callees' = body[fn]
      /\ UNCHANGED <<body, root, seen>>
  BY DEF Pop
<1>2. /\ fn \in Func
      /\ rest \in Seq(Func)
      /\ Elems(work) = Elems(rest) \cup {fn}
      /\ fn \notin Elems(rest)
      /\ \A i, j \in 1 .. Len(rest) : rest[i] = rest[j] => i = j
  BY <1>1, PopBack DEF WorkInv, WorkTypes, NothingTwice
<1> HIDE DEF fn, rest
<1>3. fn \notin Elems(found)
  BY <1>2 DEF WorkInv, NothingTwice
<1>4. /\ found' \in Seq(Func)
      /\ Elems(found') = Elems(found) \cup {fn}
      /\ \A i, j \in 1 .. Len(found') : found'[i] = found'[j] => i = j
  BY <1>1, <1>2, <1>3, AppendElems DEF WorkInv, WorkTypes, NothingTwice, FoundOnce
<1>5. WorkTypes'
  BY <1>1, <1>2, <1>4 DEF WorkInv, WorkTypes
<1>6. SeenIsFoundOrWaiting'
  <2>1. Elems(found)' = Elems(found') /\ Elems(work)' = Elems(work')
    BY DEF Elems
  <2> QED
    BY <1>1, <1>2, <1>4, <2>1 DEF WorkInv, SeenIsFoundOrWaiting
<1>7. Elems(callees') = CallsOf(fn) /\ Elems(callees) = {}
  BY <1>1, EmptyElems DEF Elems, CallsOf
<1>8. OnlyReachable'
  <2>1. fn \in Reachable(calls, root)
    BY <1>2 DEF WorkInv, OnlyReachable, SeenIsFoundOrWaiting
  <2>2. CallsOf(fn) \subseteq Reachable(calls, root)
    BY <2>1, ReachableFacts DEF WorkInv, WorkTypes
  <2>3. calls' = calls
    BY <1>1 DEF calls, CallsOf
  <2> QED
    BY <1>1, <1>7, <2>2, <2>3 DEF WorkInv, OnlyReachable, Elems
<1>9. CallsAreSeen'
  <2> SUFFICES ASSUME NEW f \in Elems(found) \cup {fn}
               PROVE  CallsOf(f) \subseteq seen \cup CallsOf(fn)
    <3>1. Elems(found)' = Elems(found) \cup {fn} /\ Elems(callees)' = CallsOf(fn)
      BY <1>4, <1>7 DEF Elems
    <3> QED
      BY <1>1, <3>1 DEF CallsAreSeen, CallsOf
  <2> QED
    BY <1>7 DEF WorkInv, CallsAreSeen
<1>10. NothingTwice'
  <2>1. Elems(found') \cap Elems(work') = {}
    BY <1>1, <1>2, <1>4 DEF WorkInv, NothingTwice
  <2> QED
    BY <1>1, <1>2, <1>4, <2>1 DEF NothingTwice, FoundOnce, Elems
<1> QED
  BY <1>5, <1>6, <1>8, <1>9, <1>10 DEF WorkInv

LEMMA VisitPreserves ==
    ASSUME WorkInv, Visit
    PROVE  WorkInv'
<1> DEFINE callee == Head(callees)
<1>1. /\ callees # <<>>
      /\ callees' = Tail(callees)
      /\ UNCHANGED <<body, root, found>>
  BY DEF Visit
<1>2. /\ callee \in Func
      /\ callees' \in Seq(Func)
      /\ Elems(callees) = Elems(callees') \cup {callee}
  BY <1>1, HeadTailElems DEF WorkInv, WorkTypes
<1>3. /\ seen' = seen \cup {callee}
      /\ work' \in Seq(Func)
      /\ Elems(work') \cup Elems(found) = seen'
      /\ Elems(found) \cap Elems(work') = {}
      /\ \A i, j \in 1 .. Len(work') : work'[i] = work'[j] => i = j
  <2>1. CASE callee \in seen
    BY <2>1 DEF Visit, WorkInv, WorkTypes, SeenIsFoundOrWaiting, NothingTwice
  <2>2. CASE callee \notin seen
    <3>1. seen' = seen \cup {callee} /\ work' = Append(work, callee)
      BY <2>2 DEF Visit
    <3>2. callee \notin Elems(work) /\ callee \notin Elems(found)
      BY <2>2 DEF WorkInv, SeenIsFoundOrWaiting
    <3>3. /\ work' \in Seq(Func)
          /\ Elems(work') = Elems(work) \cup {callee}
          /\ \A i, j \in 1 .. Len(work') : work'[i] = work'[j] => i = j
      BY <1>2, <3>1, <3>2, AppendElems DEF WorkInv, WorkTypes, NothingTwice
    <3> QED
      BY <3>1, <3>2, <3>3 DEF WorkInv, SeenIsFoundOrWaiting, NothingTwice
  <2> QED
    BY <2>1, <2>2
<1> HIDE DEF callee
<1>4. WorkTypes'
  BY <1>1, <1>2, <1>3 DEF WorkInv, WorkTypes
<1>5. SeenIsFoundOrWaiting'
  <2>1. Elems(found)' = Elems(found) /\ Elems(work)' = Elems(work')
    BY <1>1 DEF Elems
  <2> QED
    BY <1>1, <1>3, <2>1 DEF WorkInv, SeenIsFoundOrWaiting
<1>6. OnlyReachable' /\ CallsAreSeen'
  <2>1. /\ calls' = calls
        /\ \A f : CallsOf(f)' = CallsOf(f)
        /\ Elems(callees)' = Elems(callees')
        /\ Elems(found)' = Elems(found)
    BY <1>1 DEF calls, CallsOf, Elems
  <2>2. seen' \cup Elems(callees') = seen \cup Elems(callees)
    BY <1>2, <1>3
  <2> QED
    BY <1>1, <2>1, <2>2 DEF WorkInv, OnlyReachable, CallsAreSeen
<1>7. NothingTwice'
  <2>1. Elems(found)' = Elems(found) /\ Elems(work)' = Elems(work')
    BY <1>1 DEF Elems
  <2> QED
    BY <1>1, <1>3, <2>1 DEF WorkInv, NothingTwice, FoundOnce
<1> QED
  BY <1>4, <1>5, <1>6, <1>7 DEF WorkInv

LEMMA WorkAtFirst == Init => WorkInv
<1> SUFFICES ASSUME Init PROVE WorkInv
  OBVIOUS
<1>1. WorkTypes
  BY BodiesAreCalls, EmptySeq DEF Init, WorkTypes
<1>2. Elems(<<>>) = {} /\ Elems(<<root>>) = {root}
  BY EmptyElems DEF Elems
<1>3. SeenIsFoundOrWaiting /\ CallsAreSeen /\ NothingTwice
  <2>1. Len(<<>>) = 0 /\ Len(<<root>>) = 1
    OBVIOUS
  <2> QED
    BY <1>2, <2>1 DEF Init, SeenIsFoundOrWaiting, CallsAreSeen, NothingTwice, FoundOnce
<1>4. OnlyReachable
  BY <1>1, <1>2, ReachableFacts DEF Init, OnlyReachable, WorkTypes
<1> QED
  BY <1>1, <1>3, <1>4 DEF WorkInv

(* Every state of every run of the worklist satisfies the invariant. *)
THEOREM WorkInvariance == Spec => []WorkInv
<1>1. WorkInv /\ [Next]_vars => WorkInv'
  <2> SUFFICES ASSUME WorkInv, [Next]_vars PROVE WorkInv'
    OBVIOUS
  <2>1. CASE UNCHANGED vars
    <3>1. /\ calls' = calls
          /\ \A f : CallsOf(f)' = CallsOf(f)
          /\ Elems(callees)' = Elems(callees)
          /\ Elems(found)' = Elems(found)
          /\ Elems(work)' = Elems(work)
      BY <2>1 DEF vars, calls, CallsOf, Elems
    <3> QED
      BY <2>1, <3>1 DEF vars, WorkInv, WorkTypes, SeenIsFoundOrWaiting,
                        OnlyReachable, CallsAreSeen, NothingTwice, FoundOnce
  <2> QED
    BY <2>1, PopPreserves, VisitPreserves DEF Next
<1> QED
  BY <1>1, WorkAtFirst, PTL DEF Spec

LEMMA SeqOfElems ==
    ASSUME NEW s \in Seq(Func), NEW S, Elems(s) \subseteq S
    PROVE  s \in Seq(S)
<1>1. Len(s) \in Nat /\ s = [i \in 1 .. Len(s) |-> s[i]]
  BY LenProperties
<1>2. \A i \in 1 .. Len(s) : s[i] \in S
  BY DEF Elems
<1>3. s \in [1 .. Len(s) -> S]
  BY <1>1, <1>2
<1> QED
  BY <1>1, <1>3, SeqDef

(* Whatever is found or waits has been marked, so that nothing is lost to  *)
(* a later look at the marks.                                              *)
THEOREM WorklistTyped == Spec => []TypeOK
<1>1. WorkInv => TypeOK
  BY SeqOfElems DEF WorkInv, WorkTypes, SeenIsFoundOrWaiting, TypeOK
<1> QED
  BY <1>1, WorkInvariance, PTL

(* When the worklist is empty, what was found is what the root reaches. *)
THEOREM WorklistFindsReachable == Spec => []FindsReachable
<1>1. WorkInv => FindsReachable
  <2> SUFFICES ASSUME WorkInv, Done
               PROVE  Elems(found) = Reachable(calls, root)
    BY DEF FindsReachable
  <2>1. Elems(work) = {} /\ Elems(callees) = {}
    BY EmptyElems DEF Done
  <2>2. Elems(found) = seen /\ root \in seen /\ seen \in SUBSET Func
    BY <2>1 DEF WorkInv, SeenIsFoundOrWaiting, WorkTypes
  <2>3. CallClosed(calls, seen)
    <3> SUFFICES ASSUME NEW f \in seen PROVE calls[f] \subseteq seen
      BY DEF CallClosed
    <3>1. calls[f] = CallsOf(f)
      BY <2>2, ReachableFacts DEF WorkInv, WorkTypes
    <3> QED
      BY <2>1, <2>2, <3>1 DEF WorkInv, CallsAreSeen
  <2>4. Reachable(calls, root) \subseteq seen
    BY <2>2, <2>3, ReachableFacts DEF WorkInv, WorkTypes
  <2> QED
    BY <2>2, <2>4 DEF WorkInv, OnlyReachable
<1> QED
  BY <1>1, WorkInvariance, PTL

(* No function is found, and so labelled and emitted, twice. *)
THEOREM WorklistFindsOnce == Spec => []FoundOnce
<1>1. WorkInv => FoundOnce
  BY DEF WorkInv, NothingTwice
<1> QED
  BY <1>1, WorkInvariance, PTL

-----------------------------------------------------------------------------
(* Words *)

LEMMA Halves ==
    /\ ChunkSize \in Nat /\ ChunkSize >= 2
    /\ Modulus \in Nat /\ Modulus >= 16
    /\ MinInt \in Int /\ Modulus = -2 * MinInt
    /\ Word = MinInt .. -MinInt - 1
<1>1. ChunkSize \in Nat /\ ChunkSize >= 2
  BY ChunkIsEven
<1> DEFINE square == ChunkSize * ChunkSize
<1>2. square \in Nat /\ square >= 4
  BY <1>1
<1>3. Modulus = square * square
  BY <1>1 DEF Modulus
<1>4. PICK half \in Nat : ChunkSize = 2 * half
  <2>1. ChunkSize \div 2 \in Nat /\ ChunkSize = 2 * (ChunkSize \div 2)
    BY <1>1, ChunkIsEven
  <2> QED  BY <2>1
<1>5. Modulus \in Nat /\ Modulus >= 16
  <2> HIDE DEF square
  <2> QED  BY <1>2, <1>3
<1>6. PICK n \in Nat : Modulus = 2 * n
  <2> DEFINE n == half * (ChunkSize * square)
  <2>1. n \in Nat
    BY <1>1, <1>2, <1>4
  <2>2. Modulus = 2 * n
    BY <1>1, <1>4 DEF Modulus
  <2> QED  BY <2>1, <2>2
<1>7. MinInt = -n
  BY <1>6 DEF MinInt
<1> QED  BY <1>1, <1>5, <1>6, <1>7 DEF Word

(* The quotient and the remainder are the only ones. *)
LEMMA ModIs ==
    ASSUME NEW m \in Nat \ {0}, NEW n \in Int, NEW q \in Int, NEW r \in 0 .. m - 1,
           n = m * q + r
    PROVE  n % m = r /\ n \div m = q
<1>1. n % m \in 0 .. m - 1 /\ n \div m \in Int /\ n = (m * (n \div m)) + (n % m)
  OBVIOUS
<1> DEFINE d == q - (n \div m)
           e == (n % m) - r
<1>2. d \in Int /\ e \in Int /\ m * d = e /\ -m < e /\ e < m
  BY <1>1
<1>3. d = 0
  <2> HIDE DEF d, e
  <2>1. CASE d >= 1
    <3>1. m * d >= m
      BY <1>2, <2>1
    <3> QED  BY <1>2, <3>1
  <2>2. CASE d <= -1
    <3>1. m * d <= -m
      BY <1>2, <2>2
    <3> QED  BY <1>2, <3>1
  <2> QED  BY <1>2, <2>1, <2>2
<1> QED  BY <1>1, <1>2, <1>3

(* Wrap gives the word that differs by a multiple of the modulus. *)
LEMMA WrapIs ==
    ASSUME NEW w \in Word, NEW k \in Int, NEW n \in Int, n = w + k * Modulus
    PROVE  Wrap(n) = w
<1>1. Modulus \in Nat \ {0} /\ MinInt \in Int /\ Modulus = -2 * MinInt /\ w \in MinInt .. -MinInt - 1
  BY Halves
<1> DEFINE over == n - MinInt
           rest == w - MinInt
<1>2. over \in Int /\ rest \in 0 .. Modulus - 1 /\ over = Modulus * k + rest
  BY <1>1
<1>3. over % Modulus = rest
  <2> HIDE DEF over, rest
  <2> QED  BY <1>1, <1>2, ModIs
<1> QED  BY <1>1, <1>3 DEF Wrap

LEMMA WrapNear ==
    ASSUME NEW w \in Word
    PROVE  Wrap(w) = w /\ Wrap(w + Modulus) = w /\ Wrap(w - Modulus) = w
<1>1. w \in Int /\ Modulus \in Int
  BY Halves
<1>2. \A k \in Int, n \in Int : n = w + k * Modulus => Wrap(n) = w
  BY WrapIs
<1>3. w = w + 0 * Modulus /\ w + Modulus = w + 1 * Modulus /\ w - Modulus = w + (-1) * Modulus
  BY <1>1
<1>4. 0 \in Int /\ 1 \in Int /\ -1 \in Int /\ w + Modulus \in Int /\ w - Modulus \in Int
  BY <1>1
<1> QED
  <2> HIDE DEF Modulus
  <2>1. Wrap(w) = w
    BY <1>1, <1>2, <1>3, <1>4
  <2>2. Wrap(w + Modulus) = w
    BY <1>2, <1>3, <1>4
  <2>3. Wrap(w - Modulus) = w
    BY <1>2, <1>3, <1>4
  <2> QED  BY <2>1, <2>2, <2>3

LEMMA WrapIsWord == ASSUME NEW n \in Int PROVE Wrap(n) \in Word
<1>1. Modulus \in Nat \ {0} /\ MinInt \in Int /\ Modulus = -2 * MinInt /\ Word = MinInt .. -MinInt - 1
  BY Halves
<1>2. (n - MinInt) % Modulus \in 0 .. Modulus - 1
  BY <1>1
<1> QED  BY <1>1, <1>2 DEF Wrap

-----------------------------------------------------------------------------
(* Division: the quotient rounds toward zero and only MinInt / -1 is too   *)
(* large for a word, and the remainder is smaller than the divisor.        *)

LEMMA QuotientIs ==
    ASSUME NEW v \in Word, NEW w \in Word, w # 0
    PROVE  \E q \in Nat, r \in Nat :
               /\ Magnitude(v) = q * Magnitude(w) + r
               /\ r < Magnitude(w)
               /\ Truncated(v, w) = IF (v < 0) = (w < 0) THEN q ELSE -q
<1> DEFINE m == Magnitude(v)
           n == Magnitude(w)
           q == m \div n
           r == m % n
<1>1. m \in Nat /\ n \in Nat \ {0}
  BY Halves DEF Magnitude
<1>2. q \in Nat /\ r \in Nat /\ r < n /\ m = q * n + r
  <2> HIDE DEF m, n
  <2>1. q \in Int /\ r \in 0 .. n - 1 /\ m = (n * q) + r
    BY <1>1
  <2>2. q >= 0
    BY <1>1
  <2> QED  BY <1>1, <2>1, <2>2
<1>3. Truncated(v, w) = IF (v < 0) = (w < 0) THEN q ELSE -q
  BY DEF Truncated
<1> QED  BY <1>2, <1>3

LEMMA TruncatedWord ==
    ASSUME NEW v \in Word, NEW w \in Word, w # 0, ~(v = MinInt /\ w = -1)
    PROVE  Truncated(v, w) \in Word
<1>1. MinInt \in Int /\ MinInt <= -8 /\ Word = MinInt .. -MinInt - 1
  BY Halves
<1>2. PICK q \in Nat, r \in Nat :
          /\ Magnitude(v) = q * Magnitude(w) + r
          /\ Truncated(v, w) = IF (v < 0) = (w < 0) THEN q ELSE -q
  BY QuotientIs
<1>3. Magnitude(v) \in Nat /\ Magnitude(v) <= -MinInt /\ Magnitude(w) \in Nat \ {0}
  BY <1>1 DEF Magnitude
<1>4. q * Magnitude(w) <= -MinInt
  BY <1>2, <1>3, <1>1
<1>5. q <= -MinInt
  BY <1>1, <1>3, <1>4
<1>6. CASE (v < 0) # (w < 0)
  BY <1>1, <1>2, <1>5, <1>6
<1>7. CASE (v < 0) = (w < 0) /\ v # MinInt
  <2>1. Magnitude(v) <= -MinInt - 1
    BY <1>1, <1>7 DEF Magnitude
  <2>2. q * Magnitude(w) <= -MinInt - 1
    BY <1>2, <1>3, <1>1, <2>1
  <2>3. q <= -MinInt - 1
    BY <1>1, <1>3, <2>2
  <2> QED  BY <1>1, <1>2, <1>7, <2>3
<1>8. CASE (v < 0) = (w < 0) /\ v = MinInt
  <2>1. Magnitude(w) >= 2
    BY <1>1, <1>8 DEF Magnitude
  <2>2. 2 * q <= -MinInt
    BY <1>1, <1>3, <1>4, <2>1
  <2>3. q <= -MinInt - 1
    BY <1>1, <2>2
  <2> QED  BY <1>1, <1>2, <1>8, <2>3
<1> QED  BY <1>6, <1>7, <1>8

LEMMA TruncatedMinInt == Truncated(MinInt, -1) = -MinInt
<1>1. MinInt \in Int /\ MinInt <= -8
  BY Halves
<1> DEFINE m == -MinInt
<1>2. m \in Nat /\ m = 1 * m + 0
  BY <1>1
<1>3. m \div 1 = m
  <2> HIDE DEF m
  <2>1. m \in Int /\ 1 \in Nat \ {0} /\ 0 \in 0 .. 1 - 1
    BY <1>2
  <2> QED  BY <1>2, <2>1, ModIs
<1>4. \A n \in Int : n < 0 => Magnitude(n) = -n
  BY DEF Magnitude
<1>5. Magnitude(MinInt) = m /\ Magnitude(-1) = 1
  BY <1>1, <1>4
<1> QED  BY <1>1, <1>3, <1>5 DEF Truncated

LEMMA RemainderWord ==
    ASSUME NEW v \in Word, NEW w \in Word, w # 0
    PROVE  v - Truncated(v, w) * w \in Word
<1>1. MinInt \in Int /\ MinInt <= -8 /\ Word = MinInt .. -MinInt - 1
  BY Halves
<1>2. PICK q \in Nat, r \in Nat :
          /\ Magnitude(v) = q * Magnitude(w) + r
          /\ r < Magnitude(w)
          /\ Truncated(v, w) = IF (v < 0) = (w < 0) THEN q ELSE -q
  BY QuotientIs
<1>3. Magnitude(w) <= -MinInt /\ Magnitude(w) \in Nat
  BY <1>1 DEF Magnitude
<1> DEFINE p == q * Magnitude(w)
<1>4. Truncated(v, w) * w = IF v < 0 THEN -p ELSE p
  <2>1. v \in Int /\ w \in Int /\ q \in Int
    BY <1>1
  <2>2. CASE w < 0
    BY <1>2, <2>1, <2>2 DEF Magnitude
  <2>3. CASE ~(w < 0)
    BY <1>2, <2>1, <2>3 DEF Magnitude
  <2> QED  BY <2>2, <2>3
<1>5. p \in Int /\ Magnitude(v) = p + r
  BY <1>2, <1>3
<1> HIDE DEF p
<1>6. v - Truncated(v, w) * w = IF v < 0 THEN -r ELSE r
  BY <1>1, <1>2, <1>4, <1>5 DEF Magnitude
<1> QED  BY <1>1, <1>2, <1>3, <1>6

-----------------------------------------------------------------------------
(* The arithmetic of the processor is the arithmetic of the tree walker *)

LEMMA SdivIsDiv ==
    ASSUME NEW v \in Word, NEW w \in Word, w # 0
    PROVE  Wrap(Truncated(v, w)) = trunc_div(v, w)
<1>1. MinInt \in Int /\ Modulus = -2 * MinInt /\ MinInt \in Word
  BY Halves
<1>2. CASE v = MinInt /\ w = -1
  <2>1. Truncated(v, w) = MinInt + Modulus
    BY <1>1, <1>2, TruncatedMinInt
  <2>2. Wrap(Truncated(v, w)) = MinInt
    BY <1>1, <2>1, WrapNear
  <2> QED  BY <1>2, <2>2 DEF trunc_div
<1>3. CASE ~(v = MinInt /\ w = -1)
  BY <1>3, TruncatedWord, WrapNear DEF trunc_div
<1> QED  BY <1>2, <1>3

LEMMA MsubIsMod ==
    ASSUME NEW v \in Word, NEW w \in Word, w # 0
    PROVE  Wrap(v - trunc_div(v, w) * w) = trunc_mod(v, w)
<1>1. MinInt \in Int /\ Modulus = -2 * MinInt /\ Word = MinInt .. -MinInt - 1 /\ 0 \in Word
  BY Halves
<1>2. CASE v = MinInt /\ w = -1
  <2>1. v - trunc_div(v, w) * w = 0 - Modulus
    BY <1>1, <1>2 DEF trunc_div
  <2>2. Wrap(v - trunc_div(v, w) * w) = 0
    BY <1>1, <2>1, WrapNear
  <2> QED  BY <1>2, <2>2 DEF trunc_mod
<1>3. CASE ~(v = MinInt /\ w = -1)
  <2>1. trunc_div(v, w) = Truncated(v, w)
    BY <1>3 DEF trunc_div
  <2> QED  BY <1>3, <2>1, RemainderWord, WrapNear DEF trunc_mod
<1> QED  BY <1>2, <1>3

LEMMA NegIsNeg == ASSUME NEW v \in Word PROVE Wrap(0 - v) = wrap_neg(v)
<1>1. MinInt \in Int /\ Modulus = -2 * MinInt /\ Word = MinInt .. -MinInt - 1 /\ MinInt \in Word
  BY Halves
<1>2. CASE v = MinInt
  <2>1. 0 - v = MinInt + Modulus
    BY <1>1, <1>2
  <2> QED  BY <1>1, <1>2, <2>1, WrapNear DEF wrap_neg
<1>3. CASE v # MinInt
  <2>1. 0 - v \in Word /\ 0 - v = -v
    BY <1>1, <1>3
  <2> QED  BY <1>3, <2>1, WrapNear DEF wrap_neg
<1> QED  BY <1>2, <1>3

(* A signed comparison reads N = V, which is right across an overflow too. *)
LEMMA FlagsCompare ==
    ASSUME NEW v \in Word, NEW w \in Word
    PROVE  (Wrap(v - w) < 0) = (v - w \notin Word) <=> v >= w
<1>1. MinInt \in Int /\ MinInt < 0 /\ Modulus = -2 * MinInt /\ Word = MinInt .. -MinInt - 1
  BY Halves
<1>2. CASE v - w \in Word
  <2>1. Wrap(v - w) = v - w
    BY <1>2, WrapNear
  <2> QED  BY <1>1, <1>2, <2>1
<1>3. CASE v - w > -MinInt - 1
  <2> DEFINE d == v - w - Modulus
  <2>1. d \in Word /\ v - w = d + Modulus
    BY <1>1, <1>3
  <2>2. Wrap(v - w) = d
    BY <2>1, WrapNear
  <2> QED  BY <1>1, <1>3, <2>2
<1>4. CASE v - w < MinInt
  <2> DEFINE d == v - w + Modulus
  <2>1. d \in Word /\ v - w = d - Modulus
    BY <1>1, <1>4
  <2>2. Wrap(v - w) = d
    BY <2>1, WrapNear
  <2> QED  BY <1>1, <1>4, <2>2
<1> QED  BY <1>1, <1>2, <1>3, <1>4

-----------------------------------------------------------------------------
(* The instructions: which action of the processor runs each of them *)

Full == x = [r \in Registers |-> x[r]]

LEMMA Acting ==
    /\ Step => end = "running" /\ Defined /\ Allowed
    /\ Step /\ Here.op \in {"movz", "movk"} => Move
    /\ Step /\ Here.op \in Arith => Compute
    /\ Step /\ Here.op = "subs" => Compare
    /\ Step /\ Here.op = "csinc" => Select
    /\ Step /\ Here.op \in {"addi", "subi"} => MoveAddress
    /\ Step /\ Here.op \in Stores => Store
    /\ Step /\ Here.op \in Loads => Load
    /\ Step /\ Here.op \in {"b", "bl", "cbz", "cbnz"} => Branch
    /\ Step /\ Here.op = "ret" => Ret
<1>1. /\ Move => At({"movz", "movk"})
      /\ Compute => At(Arith)
      /\ Compare => At({"subs"})
      /\ Select => At({"csinc"})
      /\ MoveAddress => At({"addi", "subi"})
      /\ Store => At(Stores)
      /\ Load => At(Loads)
      /\ Branch => At({"b", "bl", "cbz", "cbnz"})
      /\ Ret => At({"ret"})
      /\ HostPrint => At({"blr"})
      /\ HostAbort => At({"blr"})
  BY DEF Move, Compute, Compare, Select, MoveAddress, Store, Load, Branch, Ret,
         HostPrint, HostAbort
<1> QED  BY <1>1 DEF Step, At, Arith, Stores, Loads

-----------------------------------------------------------------------------
(* Operators *)

(* These instructions stand in the code, from base on. *)
Placed(is, base) ==
    /\ Len(code) \in Nat
    /\ base + Len(is) <= Len(code)
    /\ \A k \in 1 .. Len(is) : code[base + k] = is[k]

(* One of them runs. *)
StepIn(is, base) == Step /\ pc - base \in 0 .. Len(is) - 1

(* The operands where gen_binary leaves them, before the operation's code. *)
OperandsIn(op, base, zero, v, w) ==
    /\ Placed(OperationCode(op, zero), base)
    /\ pc = base
    /\ end = "running"
    /\ Full
    /\ x[X1] = v
    /\ x[X0] = w

(* The code never faults; behind it is the result of the tree walker, which *)
(* does not divide by zero; and only a division by zero goes to the stub.  *)
Computes(op, base, zero, v, w) ==
    LET size == Len(OperationCode(op, zero))
    IN  /\ pc < base + size => Defined /\ Allowed
        /\ pc = base + size => x[X0] = Combine(op, v, w) /\ (op \in Divisions => w # 0)
        /\ pc > base + size => pc = base + zero /\ op \in Divisions /\ w = 0

LEMMA Joined ==
    ASSUME NEW i, NEW j, NEW k
    PROVE  /\ <<>> \o <<i>> = <<i>>
           /\ <<>> \o <<i, j>> = <<i, j>>
           /\ <<i>> \o <<j>> = <<i, j>>
           /\ <<i>> \o <<j, k>> = <<i, j, k>>
<1>1. <<>> \o <<i>> = <<i>>
  OBVIOUS
<1>2. <<>> \o <<i, j>> = <<i, j>>
  OBVIOUS
<1> DEFINE S == {i, j, k}
<1>0. <<i>> \in Seq(S) /\ <<j>> \in Seq(S) /\ <<j, k>> \in Seq(S)
      /\ <<i, j>> \in Seq(S) /\ <<i, j, k>> \in Seq(S)
  OBVIOUS
<1> HIDE DEF S
<1>3. <<i>> \o <<j>> = <<i, j>>
  <2> DEFINE s == <<i>> \o <<j>>
  <2>1. s \in Seq(S) /\ Len(s) = 2 /\ s[1] = i /\ s[2] = j
    BY <1>0, ConcatProperties
  <2> HIDE DEF s
  <2>2. \A n \in 1 .. Len(s) : s[n] = <<i, j>>[n]
    BY <2>1
  <2> QED  BY <1>0, <2>1, <2>2, SeqEqual DEF s
<1>4. <<i>> \o <<j, k>> = <<i, j, k>>
  <2> DEFINE s == <<i>> \o <<j, k>>
  <2>1. s \in Seq(S) /\ Len(s) = 3 /\ s[1] = i /\ s[2] = j /\ s[3] = k
    BY <1>0, ConcatProperties
  <2> HIDE DEF s
  <2>2. \A n \in 1 .. Len(s) : s[n] = <<i, j, k>>[n]
    BY <2>1
  <2> QED  BY <1>0, <2>1, <2>2, SeqEqual DEF s
<1> QED  BY <1>1, <1>2, <1>3, <1>4

LEMMA Listings ==
    ASSUME NEW zero
    PROVE  /\ OperationCode("Add", zero) = <<add_reg(X0, X1, X0)>>
           /\ OperationCode("Sub", zero) = <<sub_reg(X0, X1, X0)>>
           /\ OperationCode("Mul", zero) = <<mul(X0, X1, X0)>>
           /\ OperationCode("Div", zero) = <<cbz(X0, zero), sdiv(X0, X1, X0)>>
           /\ OperationCode("Mod", zero) =
                  <<cbz(X0, zero), sdiv(X2, X1, X0), msub(X0, X2, X0, X1)>>
           /\ \A op \in {"Eq", "Ne", "Lt", "Le", "Gt", "Ge"} :
                  OperationCode(op, zero) = <<cmp(X1, X0), cset(X0, Cond(op))>>
<1>1. /\ OperationCode("Add", zero) = <<>> \o <<add_reg(X0, X1, X0)>>
      /\ OperationCode("Sub", zero) = <<>> \o <<sub_reg(X0, X1, X0)>>
      /\ OperationCode("Mul", zero) = <<>> \o <<mul(X0, X1, X0)>>
  BY DEF OperationCode, BinaryCode, Divisions
<1>2. OperationCode("Div", zero) = <<cbz(X0, zero)>> \o <<sdiv(X0, X1, X0)>>
  BY DEF OperationCode, BinaryCode, Divisions
<1>3. OperationCode("Mod", zero)
          = <<cbz(X0, zero)>> \o <<sdiv(X2, X1, X0), msub(X0, X2, X0, X1)>>
  BY DEF OperationCode, BinaryCode, Divisions
<1>4. \A op \in {"Eq", "Ne", "Lt", "Le", "Gt", "Ge"} :
          OperationCode(op, zero) = <<>> \o <<cmp(X1, X0), cset(X0, Cond(op))>>
  BY DEF OperationCode, BinaryCode, Divisions
<1> QED  BY <1>1, <1>2, <1>3, <1>4, Joined

(* A step changes no more than x0, the scratch register and the flags: the *)
(* frame, the expression stack and what has been printed stay.             *)
Keeps ==
    /\ UNCHANGED <<code, sp, mem, out, end>>
    /\ \A r \in Registers \ {X0, X2} : x'[r] = x[r]

(* What cmp leaves of two words. *)
Compared(v, w) == [N |-> Wrap(v - w) < 0, Z |-> v - w = 0, V |-> v - w \notin Word]

(* The stages of the code, which are inductive. *)
Computing(op, base, zero, v, w) ==
    /\ Placed(OperationCode(op, zero), base)
    /\ end = "running"
    /\ Full
    /\ \/ pc = base /\ x[X1] = v /\ x[X0] = w
       \/ pc = base + 1 /\ op \in Divisions /\ x[X1] = v /\ x[X0] = w /\ w # 0
       \/ pc = base + 1 /\ op \in Comparisons /\ flags = Compared(v, w)
       \/ /\ pc = base + 2 /\ op = "Mod"
          /\ x[X1] = v /\ x[X0] = w /\ w # 0 /\ x[X2] = trunc_div(v, w)
       \/ /\ pc = base + Len(OperationCode(op, zero))
          /\ x[X0] = Combine(op, v, w) /\ (op \in Divisions => w # 0)
       \/ pc = base + zero /\ op \in Divisions /\ w = 0

LEMMA Consuming ==
    ASSUME NEW i
    PROVE  /\ i.op \in {"add", "sub", "subs", "sdiv"} => Consumed(i) = {Zr(i.rn), Zr(i.rm)}
           /\ i.op \in {"madd", "msub"} => Consumed(i) = {Zr(i.rn), Zr(i.rm), Zr(i.ra)}
           /\ i.op = "movk" => Consumed(i) = {x[i.rd]}
           /\ i.op = "csinc" => Consumed(i) = {flags}
           /\ i.op \in {"addi", "subi"} => Consumed(i) = {Sr(i.rn)}
           /\ i.op \in Stores => Consumed(i) = {Sr(i.rn)}
           /\ i.op \in Loads => Consumed(i) = {Sr(i.rn)}
           /\ i.op = "cbz" => Consumed(i) = {Zr(i.rt)}
           /\ i.op = "ret" => Consumed(i) = {x[LR]}
           /\ i.op = "movz" => Consumed(i) = {}
  BY DEF Consumed, Stores, Loads

(* What add, sub, mul, msub and sdiv make of the registers. *)
LEMMA ComputeSets ==
    ASSUME Step, Here.op \in Arith, Full, Here.rd \in Registers
    PROVE  /\ pc' = pc + 1
           /\ UNCHANGED <<code, sp, flags, mem, out, end>>
           /\ Full'
           /\ \A r \in Registers \ {Here.rd} : x'[r] = x[r]
           /\ Here.op = "add" => x'[Here.rd] = Wrap(Zr(Here.rn) + Zr(Here.rm))
           /\ Here.op = "sub" => x'[Here.rd] = Wrap(Zr(Here.rn) - Zr(Here.rm))
           /\ Here.op = "madd" => x'[Here.rd] = Wrap(Zr(Here.ra) + Zr(Here.rn) * Zr(Here.rm))
           /\ Here.op = "msub" => x'[Here.rd] = Wrap(Zr(Here.ra) - Zr(Here.rn) * Zr(Here.rm))
           /\ Here.op = "sdiv" /\ Zr(Here.rm) # 0 =>
                  x'[Here.rd] = Wrap(Truncated(Zr(Here.rn), Zr(Here.rm)))
<1> DEFINE n == Zr(Here.rn)
           m == Zr(Here.rm)
           a == Zr(Here.ra)
           value == CASE Here.op = "add" -> Wrap(n + m)
                      [] Here.op = "sub" -> Wrap(n - m)
                      [] Here.op = "madd" -> Wrap(a + n * m)
                      [] Here.op = "msub" -> Wrap(a - n * m)
                      [] Here.op = "sdiv" -> IF m = 0 THEN 0 ELSE Wrap(Truncated(n, m))
<1>1. Compute
  BY Acting
<1>2. x' = [x EXCEPT ![Here.rd] = value]
  BY <1>1 DEF Compute, Set
<1>3. pc' = pc + 1 /\ UNCHANGED <<code, sp, flags, mem, out, end>>
  BY <1>1 DEF Compute, NextPc
<1>4. Full' /\ x'[Here.rd] = value /\ \A r \in Registers \ {Here.rd} : x'[r] = x[r]
  <2> HIDE DEF value
  <2> QED  BY <1>2 DEF Full
<1> HIDE DEF n, m, a
<1>5. /\ Here.op = "add" => value = Wrap(n + m)
      /\ Here.op = "sub" => value = Wrap(n - m)
      /\ Here.op = "madd" => value = Wrap(a + n * m)
      /\ Here.op = "msub" => value = Wrap(a - n * m)
      /\ Here.op = "sdiv" /\ m # 0 => value = Wrap(Truncated(n, m))
  OBVIOUS
<1> HIDE DEF value
<1> QED  BY <1>3, <1>4, <1>5 DEF n, m, a

(* cbz goes on, or away when its register holds zero. *)
LEMMA BranchGoes ==
    ASSUME Step, Here.op = "cbz"
    PROVE  /\ pc' = IF Zr(Here.rt) = 0 THEN pc + Here.to ELSE pc + 1
           /\ UNCHANGED <<code, x, sp, flags, mem, out, end>>
<1>1. Branch
  BY Acting
<1> QED  BY <1>1 DEF Branch

LEMMA AtWord ==
    ASSUME NEW w \in Word
    PROVE  w \in Int /\ w # Junk
  BY Halves, JunkIsNoValue

(* One instruction: add, sub and mul. *)
LEMMA SimpleStep ==
    ASSUME NEW op \in {"Add", "Sub", "Mul"}, NEW base \in Nat, NEW zero \in Nat, zero > 3,
           NEW v \in Word, NEW w \in Word,
           Computing(op, base, zero, v, w)
    PROVE  /\ Computes(op, base, zero, v, w)
           /\ StepIn(OperationCode(op, zero), base) => Computing(op, base, zero, v, w)' /\ Keeps
<1> DEFINE i == IF op = "Add" THEN add_reg(X0, X1, X0)
                ELSE IF op = "Sub" THEN sub_reg(X0, X1, X0) ELSE mul(X0, X1, X0)
<1>1. OperationCode(op, zero) = <<i>> /\ Len(OperationCode(op, zero)) = 1
  BY Listings
<1>2. op \notin Divisions /\ op \notin Comparisons /\ op # "Mod"
  BY DEF Divisions, Comparisons
<1>3. CASE pc = base
  <2>1. Here = i /\ x[X1] = v /\ x[X0] = w /\ pc \in 0 .. Len(code) - 1
    BY <1>1, <1>2, <1>3 DEF Here, Computing, Placed
  <2>2. Zr(Here.rn) = v /\ Zr(Here.rm) = w /\ Here.op \in {"add", "sub", "madd"}
        /\ (Here.op = "madd" => Zr(Here.ra) = 0) /\ Here.rd = X0 /\ X0 \in Registers
    BY <2>1 DEF Zr, add_reg, sub_reg, mul, X0, X1, XZR, Registers
  <2>3. Defined
    <3>1. Consumed(Here) \subseteq {v, w, 0}
      BY <2>2, Consuming
    <3>2. Junk \notin {v, w, 0}
      BY AtWord, JunkIsNoValue
    <3> QED  BY <2>1, <3>1, <3>2 DEF Defined
  <2>4. Allowed
    BY <2>2 DEF Allowed, Touched, Pairs, Stores, Loads
  <2>5. ASSUME Step
        PROVE  Computing(op, base, zero, v, w)' /\ Keeps
    <3>1. pc' = base + 1 /\ Full' /\ Keeps
      BY <1>3, <2>2, <2>5, ComputeSets DEF Computing, Arith, Keeps
    <3>2. x'[X0] = Combine(op, v, w)
      <4>1. 0 + v * w = v * w
        BY AtWord
      <4>2. CASE op = "Add"
        BY <2>1, <2>2, <2>5, <4>2, ComputeSets DEF Computing, Arith, Combine, wrap_add, add_reg
      <4>3. CASE op = "Sub"
        BY <2>1, <2>2, <2>5, <4>3, ComputeSets DEF Computing, Arith, Combine, wrap_sub, sub_reg
      <4>4. CASE op = "Mul"
        BY <2>1, <2>2, <2>5, <4>1, <4>4, ComputeSets DEF Computing, Arith, Combine, wrap_mul, mul
      <4> QED  BY <4>2, <4>3, <4>4
    <3> QED  BY <1>1, <1>2, <3>1, <3>2 DEF Computing, Keeps, Placed
  <2> QED  BY <1>1, <1>3, <2>3, <2>4, <2>5 DEF Computes, StepIn
<1>4. CASE pc # base
  <2>1. pc = base + 1 /\ x[X0] = Combine(op, v, w)
    BY <1>1, <1>2, <1>4 DEF Computing
  <2>2. ~StepIn(OperationCode(op, zero), base)
    BY <1>1, <2>1 DEF StepIn
  <2> QED  BY <1>1, <1>2, <2>1, <2>2 DEF Computes
<1> QED  BY <1>3, <1>4

(* Where an instruction neither touches memory nor leaves the code. *)
LEMMA Harmless ==
    ASSUME Here.op \in Arith \cup {"subs", "csinc", "movz", "movk", "cbz"}
    PROVE  Allowed
<1>1. Here.op \notin Pairs \cup Stores \cup Loads
  BY DEF Arith, Pairs, Stores, Loads
<1>2. Touched(Here) = {}
  BY <1>1 DEF Touched
<1>3. Here.op \notin {"bl", "blr", "str_pre", "ldr_post", "stp_pre", "ldp_post"}
  BY DEF Arith
<1> QED  BY <1>2, <1>3 DEF Allowed

(* The test of a divisor. *)
LEMMA DivisorStep ==
    ASSUME NEW op \in Divisions, NEW base \in Nat, NEW zero \in Nat, zero > 3,
           NEW v \in Word, NEW w \in Word,
           Computing(op, base, zero, v, w), pc = base
    PROVE  Defined /\ Allowed /\ (Step => Computing(op, base, zero, v, w)' /\ Keeps)
<1> DEFINE is == OperationCode(op, zero)
<1>1. pc \in 0 .. Len(code) - 1 /\ Here = cbz(X0, zero) /\ x[X0] = w /\ x[X1] = v
  <2>1. is = <<cbz(X0, zero), sdiv(X0, X1, X0)>>
        \/ is = <<cbz(X0, zero), sdiv(X2, X1, X0), msub(X0, X2, X0, X1)>>
    BY Listings DEF Divisions
  <2>2. Len(is) \in Nat \ {0} /\ is[1] = cbz(X0, zero)
    BY <2>1
  <2>3. op \notin Comparisons
    BY DEF Divisions, Comparisons
  <2> HIDE DEF is
  <2>4. Placed(is, base)
    BY DEF Computing, is
  <2>5. pc \in 0 .. Len(code) - 1 /\ Here = cbz(X0, zero)
    BY <2>2, <2>4 DEF Here, Placed
  <2>6. x[X0] = w /\ x[X1] = v
    BY <2>2, <2>3 DEF Computing, is
  <2> QED  BY <2>5, <2>6
<1>2. Here.op = "cbz" /\ Here.to = zero /\ Zr(Here.rt) = w
  BY <1>1 DEF cbz, Zr, X0, XZR
<1>3. Consumed(Here) = {w} /\ Junk # w
  BY <1>2, Consuming, AtWord
<1>4. Defined
  BY <1>1, <1>3 DEF Defined
<1>5. Allowed
  BY <1>2, Harmless
<1>6. ASSUME Step
      PROVE  Computing(op, base, zero, v, w)' /\ Keeps
  <2>1. pc' = IF w = 0 THEN base + zero ELSE base + 1
    BY <1>2, <1>6, BranchGoes
  <2>2. UNCHANGED <<code, x, end>> /\ Full' /\ Keeps
    BY <1>2, <1>6, BranchGoes DEF Full, Computing, Keeps
  <2> QED  BY <1>1, <2>1, <2>2 DEF Computing, Placed
<1> QED  BY <1>4, <1>5, <1>6

(* sdiv, and the first half of a remainder. *)
LEMMA QuotientStep ==
    ASSUME NEW op \in Divisions, NEW base \in Nat, NEW zero \in Nat, zero > 3,
           NEW v \in Word, NEW w \in Word,
           Computing(op, base, zero, v, w), pc = base + 1
    PROVE  Defined /\ Allowed /\ (Step => Computing(op, base, zero, v, w)' /\ Keeps)
<1> DEFINE i == IF op = "Div" THEN sdiv(X0, X1, X0) ELSE sdiv(X2, X1, X0)
<1>1. /\ Len(OperationCode(op, zero)) = (IF op = "Div" THEN 2 ELSE 3)
      /\ pc \in 0 .. Len(code) - 1 /\ Here = i
  <2>1. /\ Len(OperationCode(op, zero)) = (IF op = "Div" THEN 2 ELSE 3)
        /\ OperationCode(op, zero)[2] = i
    BY Listings DEF Divisions
  <2> QED  BY <2>1 DEF Computing, Here, Placed
<1>2. x[X0] = w /\ x[X1] = v /\ w # 0
  BY <1>1 DEF Computing, Divisions, Comparisons
<1>3. /\ Here.op = "sdiv" /\ Zr(Here.rn) = v /\ Zr(Here.rm) = w
      /\ Here.rd = (IF op = "Div" THEN X0 ELSE X2) /\ Here.rd \in Registers
  BY <1>1, <1>2 DEF sdiv, Zr, X0, X1, X2, XZR, Registers
<1>4. Consumed(Here) = {v, w} /\ Junk \notin {v, w}
  BY <1>3, Consuming, AtWord
<1>5. Defined
  BY <1>1, <1>4 DEF Defined
<1>6. Allowed
  BY <1>3, Harmless DEF Arith
<1>7. ASSUME Step
      PROVE  Computing(op, base, zero, v, w)' /\ Keeps
  <2>1. Wrap(Truncated(v, w)) = trunc_div(v, w)
    BY <1>2, SdivIsDiv
  <2>2. /\ pc' = base + 2 /\ Full' /\ UNCHANGED <<code, sp, mem, out, end>>
        /\ x'[Here.rd] = trunc_div(v, w)
        /\ \A r \in Registers \ {Here.rd} : x'[r] = x[r]
    BY <1>2, <1>3, <1>7, <2>1, ComputeSets DEF Computing, Arith
  <2>3. Keeps
    BY <1>3, <2>2 DEF Keeps
  <2>4. CASE op = "Div"
    <3>1. x'[X0] = Combine(op, v, w)
      BY <1>3, <2>2, <2>4 DEF Combine
    <3> QED  BY <1>1, <1>2, <2>2, <2>3, <2>4, <3>1 DEF Computing, Placed
  <2>5. CASE op = "Mod"
    <3>1. x'[X2] = trunc_div(v, w) /\ x'[X0] = w /\ x'[X1] = v
      BY <1>2, <1>3, <2>2, <2>5 DEF X0, X1, X2, Registers
    <3> QED  BY <1>2, <2>2, <2>3, <2>5, <3>1 DEF Computing, Placed
  <2> QED  BY <2>3, <2>4, <2>5 DEF Divisions
<1> QED  BY <1>5, <1>6, <1>7

(* msub, the second half of a remainder. *)
LEMMA RemainderStep ==
    ASSUME NEW base \in Nat, NEW zero \in Nat, zero > 3, NEW v \in Word, NEW w \in Word,
           Computing("Mod", base, zero, v, w), pc = base + 2
    PROVE  Defined /\ Allowed /\ (Step => Computing("Mod", base, zero, v, w)' /\ Keeps)
<1> DEFINE is == OperationCode("Mod", zero)
<1>1. Len(is) = 3 /\ pc \in 0 .. Len(code) - 1 /\ Here = msub(X0, X2, X0, X1)
  <2>1. Len(is) = 3 /\ is[3] = msub(X0, X2, X0, X1)
    BY Listings
  <2> HIDE DEF is
  <2>2. Placed(is, base)
    BY DEF Computing, is
  <2> QED  BY <2>1, <2>2 DEF Here, Placed
<1>2. x[X0] = w /\ x[X1] = v /\ x[X2] = trunc_div(v, w) /\ w # 0
  <2>1. "Mod" \notin Comparisons
    BY DEF Comparisons
  <2> HIDE DEF is
  <2> QED  BY <1>1, <2>1 DEF Computing, is
<1>3. /\ Here.op = "msub" /\ Zr(Here.rn) = trunc_div(v, w) /\ Zr(Here.rm) = w
      /\ Zr(Here.ra) = v /\ Here.rd = X0 /\ Here.rd \in Registers
  BY <1>1, <1>2 DEF msub, Zr, X0, X1, X2, XZR, Registers
<1>4. trunc_div(v, w) \in Word
  BY <1>2, TruncatedWord, Halves DEF trunc_div
<1>5. Consumed(Here) = {trunc_div(v, w), w, v} /\ Junk \notin {trunc_div(v, w), w, v}
  BY <1>3, <1>4, Consuming, AtWord
<1>6. Defined
  BY <1>1, <1>5 DEF Defined
<1>7. Allowed
  BY <1>3, Harmless DEF Arith
<1>8. ASSUME Step
      PROVE  Computing("Mod", base, zero, v, w)' /\ Keeps
  <2>1. Wrap(v - trunc_div(v, w) * w) = trunc_mod(v, w)
    BY <1>2, MsubIsMod
  <2>2. /\ pc' = base + 3 /\ Full' /\ Keeps
        /\ x'[X0] = trunc_mod(v, w)
    BY <1>3, <1>8, <2>1, ComputeSets DEF Computing, Arith, Keeps
  <2>3. Combine("Mod", v, w) = trunc_mod(v, w)
    BY DEF Combine
  <2> QED  BY <1>1, <1>2, <2>2, <2>3 DEF Computing, Keeps, Placed
<1> QED  BY <1>6, <1>7, <1>8

(* cset reads the inverted condition, and so the opposite of the operator. *)
LEMMA InvertedIsOpposite ==
    ASSUME NEW op \in Comparisons, NEW v \in Word, NEW w \in Word, flags = Compared(v, w)
    PROVE  Combine(op, v, w) = IF Holds(Inverted(Cond(op))) THEN 0 ELSE 1
<1>1. (flags.Z <=> v = w) /\ (flags.N = flags.V <=> v >= w)
  <2>1. v \in Int /\ w \in Int
    BY AtWord
  <2>2. flags.Z <=> v - w = 0
    BY DEF Compared
  <2>3. flags.N = flags.V <=> (Wrap(v - w) < 0) = (v - w \notin Word)
    BY DEF Compared
  <2>4. v - w = 0 <=> v = w
    BY <2>1
  <2> QED  BY <2>2, <2>3, <2>4, FlagsCompare
<1>2. /\ Inverted(Cond("Eq")) = 1 /\ Inverted(Cond("Ne")) = 0
      /\ Inverted(Cond("Ge")) = 11 /\ Inverted(Cond("Lt")) = 10
      /\ Inverted(Cond("Gt")) = 13 /\ Inverted(Cond("Le")) = 12
  BY DEF Inverted, Cond
<1>3. /\ Holds(0) <=> flags.Z
      /\ Holds(1) <=> ~flags.Z
      /\ Holds(10) <=> (flags.N = flags.V)
      /\ Holds(11) <=> ~(flags.N = flags.V)
      /\ Holds(12) <=> (~flags.Z /\ flags.N = flags.V)
      /\ Holds(13) <=> ~(~flags.Z /\ flags.N = flags.V)
  <2> DEFINE z == flags.Z
             g == (flags.N = flags.V)
  <2>1. z \in BOOLEAN /\ g \in BOOLEAN
    BY DEF Compared
  <2>2. \A c \in Int :
            /\ c \div 2 = 0 /\ c % 2 = 0 => (Holds(c) <=> z)
            /\ c \div 2 = 0 /\ c % 2 # 0 => (Holds(c) <=> ~z)
            /\ c \div 2 = 5 /\ c % 2 = 0 => (Holds(c) <=> g)
            /\ c \div 2 = 5 /\ c % 2 # 0 => (Holds(c) <=> ~g)
            /\ c \div 2 = 6 /\ c % 2 = 0 => (Holds(c) <=> ~z /\ g)
            /\ c \div 2 = 6 /\ c % 2 # 0 => (Holds(c) <=> ~(~z /\ g))
    BY <2>1 DEF Holds
  <2>3. /\ 0 \div 2 = 0 /\ 1 \div 2 = 0 /\ 10 \div 2 = 5 /\ 11 \div 2 = 5
        /\ 12 \div 2 = 6 /\ 13 \div 2 = 6
        /\ 0 % 2 = 0 /\ 1 % 2 # 0 /\ 10 % 2 = 0 /\ 11 % 2 # 0 /\ 12 % 2 = 0 /\ 13 % 2 # 0
    OBVIOUS
  <2>4. (Holds(0) <=> z) /\ (Holds(1) <=> ~z)
    BY <2>1, <2>2, <2>3
  <2>5. (Holds(10) <=> g) /\ (Holds(11) <=> ~g)
    BY <2>1, <2>2, <2>3
  <2>6. (Holds(12) <=> (~z /\ g)) /\ (Holds(13) <=> ~(~z /\ g))
    BY <2>1, <2>2, <2>3
  <2> QED  BY <2>4, <2>5, <2>6 DEF z, g
<1>4. v \in Int /\ w \in Int
  BY AtWord
<1>5. /\ Holds(0) <=> v = w
      /\ Holds(1) <=> v # w
      /\ Holds(10) <=> v >= w
      /\ Holds(11) <=> v < w
      /\ Holds(12) <=> v > w
      /\ Holds(13) <=> v <= w
  BY <1>1, <1>3, <1>4
<1>6. CASE op = "Eq"
  BY <1>2, <1>5, <1>6 DEF Combine, FromBool
<1>7. CASE op = "Ne"
  BY <1>2, <1>5, <1>7 DEF Combine, FromBool
<1>8. CASE op = "Lt"
  BY <1>2, <1>4, <1>5, <1>8 DEF Combine, FromBool
<1>9. CASE op = "Le"
  BY <1>2, <1>4, <1>5, <1>9 DEF Combine, FromBool
<1>10. CASE op = "Gt"
  BY <1>2, <1>4, <1>5, <1>10 DEF Combine, FromBool
<1>11. CASE op = "Ge"
  BY <1>2, <1>4, <1>5, <1>11 DEF Combine, FromBool
<1> QED  BY <1>6, <1>7, <1>8, <1>9, <1>10, <1>11 DEF Comparisons

(* cmp of two registers. *)
LEMMA CompareStep ==
    ASSUME NEW n \in Word, NEW m \in Word, pc \in 0 .. Len(code) - 1,
           Here.op = "subs", Zr(Here.rn) = n, Zr(Here.rm) = m
    PROVE  /\ Defined /\ Allowed
           /\ Step => /\ pc' = pc + 1
                      /\ flags' = Compared(n, m)
                      /\ UNCHANGED <<code, x, sp, mem, out, end>>
<1>1. Consumed(Here) = {n, m} /\ Junk \notin {n, m}
  BY Consuming, AtWord
<1>2. Defined /\ Allowed
  BY <1>1, Harmless DEF Defined
<1>3. ASSUME Step
      PROVE  pc' = pc + 1 /\ flags' = Compared(n, m) /\ UNCHANGED <<code, x, sp, mem, out, end>>
  <2>1. Compare
    BY <1>3, Acting
  <2> QED  BY <2>1 DEF Compare, Compared, NextPc
<1> QED  BY <1>2, <1>3

(* cset of a register, behind it. *)
LEMMA SelectStep ==
    ASSUME NEW n \in Word, NEW m \in Word, pc \in 0 .. Len(code) - 1, Full,
           NEW op \in Comparisons, Here = cset(X0, Cond(op)), flags = Compared(n, m)
    PROVE  /\ Defined /\ Allowed
           /\ Step => /\ pc' = pc + 1
                      /\ x'[X0] = Combine(op, n, m)
                      /\ \A r \in Registers \ {X0} : x'[r] = x[r]
                      /\ Full'
                      /\ UNCHANGED <<code, sp, flags, mem, out, end>>
<1>1. Here.op = "csinc" /\ Here.rd = X0 /\ Here.cond = Inverted(Cond(op))
      /\ Zr(Here.rn) = 0 /\ Zr(Here.rm) = 0
  BY DEF cset, Zr, XZR
<1>2. flags \in [N : BOOLEAN, Z : BOOLEAN, V : BOOLEAN]
  BY DEF Compared
<1>3. Consumed(Here) = {flags} /\ Junk # flags
  BY <1>1, <1>2, Consuming, JunkIsNoValue
<1>4. Defined /\ Allowed
  BY <1>1, <1>3, Harmless DEF Defined
<1>5. ASSUME Step
      PROVE  /\ pc' = pc + 1 /\ x'[X0] = Combine(op, n, m) /\ Full'
             /\ \A r \in Registers \ {X0} : x'[r] = x[r]
             /\ UNCHANGED <<code, sp, flags, mem, out, end>>
  <2>1. Select
    BY <1>1, <1>5, Acting
  <2>2. Wrap(0 + 1) = 1
    <3>1. 1 \in Word /\ 0 + 1 = 1
      BY Halves
    <3> QED  BY <3>1, WrapNear
  <2>3. x' = [x EXCEPT ![X0] = IF Holds(Inverted(Cond(op))) THEN 0 ELSE Wrap(0 + 1)]
    BY <1>1, <2>1 DEF Select, Set
  <2>4. x' = [x EXCEPT ![X0] = Combine(op, n, m)]
    BY <2>2, <2>3, InvertedIsOpposite
  <2>5. pc' = pc + 1 /\ UNCHANGED <<code, sp, flags, mem, out, end>>
    BY <2>1 DEF Select, NextPc
  <2>6. X0 \in Registers
    BY DEF X0, Registers
  <2> QED  BY <2>4, <2>5, <2>6 DEF Full
<1> QED  BY <1>4, <1>5

LEMMA ComparisonStep ==
    ASSUME NEW op \in Comparisons, NEW base \in Nat, NEW zero \in Nat, zero > 3,
           NEW v \in Word, NEW w \in Word,
           Computing(op, base, zero, v, w), pc < base + 2
    PROVE  Defined /\ Allowed /\ (Step => Computing(op, base, zero, v, w)' /\ Keeps)
<1> DEFINE is == OperationCode(op, zero)
<1>1. Len(is) = 2 /\ is[1] = cmp(X1, X0) /\ is[2] = cset(X0, Cond(op))
      /\ op \notin Divisions /\ op # "Mod"
  BY Listings DEF Comparisons, Divisions
<1>4. Placed(is, base) /\ Full /\ end = "running"
  BY DEF Computing
<1> HIDE DEF is
<1>2. CASE pc = base
  <2>0. x[X1] = v /\ x[X0] = w /\ Here = cmp(X1, X0) /\ pc \in 0 .. Len(code) - 1
    BY <1>1, <1>2, <1>4 DEF Computing, Placed, Here, is
  <2>1. Here.op = "subs" /\ Zr(Here.rn) = v /\ Zr(Here.rm) = w
    BY <2>0 DEF cmp, Zr, X0, X1, XZR
  <2>2. Defined /\ Allowed
        /\ (Step => pc' = base + 1 /\ flags' = Compared(v, w) /\ UNCHANGED <<code, x, end>> /\ Keeps)
    BY <1>2, <2>0, <2>1, CompareStep DEF Keeps
  <2> QED  BY <1>1, <1>2, <1>4, <2>2 DEF Computing, Full, Placed, is
<1>3. CASE pc = base + 1
  <2>1. Here = cset(X0, Cond(op)) /\ flags = Compared(v, w) /\ pc \in 0 .. Len(code) - 1
    BY <1>1, <1>3, <1>4 DEF Here, Computing, Placed, is
  <2>2. Defined /\ Allowed
        /\ (Step => pc' = base + 2 /\ x'[X0] = Combine(op, v, w) /\ Full' /\ Keeps)
    BY <1>3, <1>4, <2>1, SelectStep DEF Keeps
  <2> QED  BY <1>1, <1>3, <1>4, <2>2 DEF Computing, Keeps, Placed, is
<1> QED  BY <1>1, <1>2, <1>3 DEF Computing, is

(* Every stage is free of faults, and leads to a stage. *)
LEMMA StagesFollow ==
    ASSUME NEW op \in Arithmetic \cup Comparisons, NEW base \in Nat,
           NEW zero \in Nat, zero > 3, NEW v \in Word, NEW w \in Word,
           Computing(op, base, zero, v, w)
    PROVE  /\ Computes(op, base, zero, v, w)
           /\ ([StepIn(OperationCode(op, zero), base)]_machine
                  => Computing(op, base, zero, v, w)' /\ [Keeps]_machine)
<1> DEFINE is == OperationCode(op, zero)
<1>1. UNCHANGED machine => Computing(op, base, zero, v, w)'
  BY DEF machine, Computing, Full, Placed
<1>2. CASE op \in {"Add", "Sub", "Mul"}
  BY <1>1, <1>2, SimpleStep
<1>3. CASE op \in Divisions
  <2>1. Len(is) = (IF op = "Div" THEN 2 ELSE 3) /\ op \notin Comparisons
    BY <1>3, Listings DEF Divisions, Comparisons
  <2> HIDE DEF is
  <2>2. CASE pc < base + Len(is)
    <3>1. pc = base \/ pc = base + 1 \/ (pc = base + 2 /\ op = "Mod")
      BY <1>3, <2>1, <2>2 DEF Computing, Divisions, is
    <3>2. Defined /\ Allowed /\ (Step => Computing(op, base, zero, v, w)' /\ Keeps)
      BY <1>3, <3>1, DivisorStep, QuotientStep, RemainderStep
    <3>3. Computes(op, base, zero, v, w)
      BY <2>1, <2>2, <3>1, <3>2 DEF Computes, is
    <3> QED  BY <1>1, <3>2, <3>3 DEF StepIn
  <2>3. CASE ~(pc < base + Len(is))
    <3>1. ~StepIn(is, base)
      <4>1. pc \in Int
        BY <2>1 DEF Computing, is
      <4> QED  BY <2>1, <2>3, <4>1 DEF StepIn
    <3>2. Computes(op, base, zero, v, w)
      BY <1>3, <2>1, <2>3 DEF Computing, Computes, Divisions, is
    <3> QED  BY <1>1, <3>1, <3>2 DEF is
  <2> QED  BY <2>2, <2>3
<1>4. CASE op \in Comparisons
  <2>1. Len(is) = 2 /\ op \notin Divisions /\ op # "Mod"
    BY <1>4, Listings DEF Divisions, Comparisons
  <2> HIDE DEF is
  <2>2. CASE pc < base + 2
    <3>1. Defined /\ Allowed /\ (Step => Computing(op, base, zero, v, w)' /\ Keeps)
      BY <1>4, <2>2, ComparisonStep
    <3>2. pc = base \/ pc = base + 1
      BY <2>1, <2>2 DEF Computing, is
    <3>3. Computes(op, base, zero, v, w)
      BY <2>1, <3>1, <3>2 DEF Computes, is
    <3> QED  BY <1>1, <3>1, <3>3 DEF StepIn
  <2>3. CASE ~(pc < base + 2)
    <3>1. pc = base + 2 /\ x[X0] = Combine(op, v, w)
      BY <2>1, <2>3 DEF Computing, is
    <3>2. ~StepIn(is, base)
      BY <2>1, <3>1 DEF StepIn
    <3> QED  BY <1>1, <2>1, <3>1, <3>2 DEF Computes, is
  <2> QED  BY <2>2, <2>3
<1> QED  BY <1>2, <1>3, <1>4 DEF Arithmetic, Divisions

(* For words of any width and every pair of them: the code gen_binary emits *)
(* for an operator leaves in x0 what eval_binary makes of the operands, or  *)
(* goes to the stub exactly when that would stop the program, and no        *)
(* instruction of it faults, depends on a value nobody put there, or        *)
(* changes more than x0, the scratch register x2 and the flags.             *)
THEOREM OperatorsAgree ==
    ASSUME NEW op \in Arithmetic \cup Comparisons, NEW base \in Nat,
           NEW zero \in Nat, zero > 3, NEW v \in Word, NEW w \in Word
    PROVE  OperandsIn(op, base, zero, v, w) /\ [][StepIn(OperationCode(op, zero), base)]_machine
               => []Computes(op, base, zero, v, w) /\ [][Keeps]_machine
<1>1. OperandsIn(op, base, zero, v, w) => Computing(op, base, zero, v, w)
  BY DEF OperandsIn, Computing
<1>2. Computing(op, base, zero, v, w) /\ [StepIn(OperationCode(op, zero), base)]_machine
          => Computing(op, base, zero, v, w)' /\ [Keeps]_machine
  BY StagesFollow
<1>3. Computing(op, base, zero, v, w) => Computes(op, base, zero, v, w)
  BY StagesFollow
<1> QED  BY <1>1, <1>2, <1>3, PTL

-----------------------------------------------------------------------------
(* The unary operators *)

OperandIn(op, base, v) ==
    /\ Placed(UnaryCode(op), base)
    /\ pc = base
    /\ end = "running"
    /\ Full
    /\ x[X0] = v

Applies(op, base, v) ==
    LET size == Len(UnaryCode(op))
    IN  /\ pc - base \in 0 .. size
        /\ pc < base + size => Defined /\ Allowed
        /\ pc = base + size => x[X0] = Apply(op, v)

Applying(op, base, v) ==
    /\ Placed(UnaryCode(op), base)
    /\ end = "running"
    /\ Full
    /\ \/ pc = base /\ x[X0] = v
       \/ pc = base + 1 /\ op = "Not" /\ flags = Compared(v, 0)
       \/ pc = base + Len(UnaryCode(op)) /\ x[X0] = Apply(op, v)

LEMMA NegStep ==
    ASSUME NEW base \in Nat, NEW v \in Word, Applying("Neg", base, v), pc = base
    PROVE  Defined /\ Allowed /\ (Step => Applying("Neg", base, v)' /\ Keeps)
<1> DEFINE is == UnaryCode("Neg")
<1>1. is = <<neg(X0, X0)>> /\ Len(is) = 1 /\ is[1] = neg(X0, X0)
  BY DEF UnaryCode
<1> HIDE DEF is
<1>2. Placed(is, base) /\ Full /\ x[X0] = v
  BY <1>1 DEF Applying, is
<1>3. pc \in 0 .. Len(code) - 1 /\ Here = neg(X0, X0)
  BY <1>1, <1>2 DEF Placed, Here
<1>4. Here.op = "sub" /\ Zr(Here.rn) = 0 /\ Zr(Here.rm) = v /\ Here.rd = X0 /\ X0 \in Registers
  BY <1>2, <1>3 DEF neg, sub_reg, Zr, X0, XZR, Registers
<1>5. Consumed(Here) = {0, v} /\ Junk \notin {0, v}
  BY <1>4, Consuming, AtWord, JunkIsNoValue
<1>6. Defined /\ Allowed
  BY <1>3, <1>4, <1>5, Harmless DEF Defined, Arith
<1>7. ASSUME Step
      PROVE  Applying("Neg", base, v)' /\ Keeps
  <2>1. pc' = base + 1 /\ Full' /\ Keeps /\ x'[X0] = Wrap(0 - v)
    BY <1>2, <1>4, <1>7, ComputeSets DEF Arith, Keeps
  <2>2. x'[X0] = Apply("Neg", v)
    BY <2>1, NegIsNeg DEF Apply
  <2>3. Placed(is, base)' /\ end' = "running"
    BY <1>2, <2>1 DEF Placed, Keeps, Applying
  <2> QED  BY <1>1, <2>1, <2>2, <2>3 DEF Applying, is
<1> QED  BY <1>6, <1>7

LEMMA NotStep ==
    ASSUME NEW base \in Nat, NEW v \in Word, Applying("Not", base, v), pc < base + 2
    PROVE  Defined /\ Allowed /\ (Step => Applying("Not", base, v)' /\ Keeps)
<1> DEFINE is == UnaryCode("Not")
<1>1. Len(is) = 2 /\ is[1] = cmp(X0, XZR) /\ is[2] = cset(X0, Cond("Eq"))
  BY DEF UnaryCode
<1> HIDE DEF is
<1>2. Placed(is, base) /\ Full /\ end = "running"
  BY DEF Applying, is
<1>3. 0 \in Word
  BY Halves
<1>4. Combine("Eq", v, 0) = Apply("Not", v)
  BY DEF Combine, Apply
<1>5. CASE pc = base
  <2>1. x[X0] = v /\ Here = cmp(X0, XZR) /\ pc \in 0 .. Len(code) - 1
    BY <1>1, <1>2, <1>5 DEF Applying, Placed, Here, is
  <2>2. Here.op = "subs" /\ Zr(Here.rn) = v /\ Zr(Here.rm) = 0
    BY <2>1 DEF cmp, Zr, X0, XZR
  <2>3. /\ Defined /\ Allowed
        /\ Step => pc' = base + 1 /\ flags' = Compared(v, 0) /\ UNCHANGED <<code, x, end>> /\ Keeps
    BY <1>3, <1>5, <2>1, <2>2, CompareStep DEF Keeps
  <2> QED  BY <1>1, <1>2, <2>3 DEF Applying, Placed, Full, is
<1>6. CASE pc = base + 1
  <2>1. flags = Compared(v, 0) /\ Here = cset(X0, Cond("Eq")) /\ pc \in 0 .. Len(code) - 1
    BY <1>1, <1>2, <1>6 DEF Applying, Placed, Here, is
  <2>2. "Eq" \in Comparisons
    BY DEF Comparisons
  <2>3. /\ Defined /\ Allowed
        /\ Step => pc' = base + 2 /\ x'[X0] = Apply("Not", v) /\ Full' /\ Keeps
    BY <1>2, <1>3, <1>4, <1>6, <2>1, <2>2, SelectStep DEF Keeps
  <2> QED  BY <1>1, <1>2, <2>3 DEF Applying, Placed, Keeps, is
<1> QED  BY <1>1, <1>5, <1>6 DEF Applying, is

LEMMA ApplyingFollows ==
    ASSUME NEW op \in {"Neg", "Not"}, NEW base \in Nat, NEW v \in Word, Applying(op, base, v)
    PROVE  /\ Applies(op, base, v)
           /\ ([StepIn(UnaryCode(op), base)]_machine => Applying(op, base, v)' /\ [Keeps]_machine)
<1> DEFINE is == UnaryCode(op)
<1>1. Len(is) = IF op = "Neg" THEN 1 ELSE 2
  BY DEF UnaryCode
<1> HIDE DEF is
<1>2. UNCHANGED machine => Applying(op, base, v)'
  BY DEF machine, Applying, Full, Placed
<1>3. pc \in Int /\ pc - base \in 0 .. Len(is)
  BY <1>1 DEF Applying, is
<1>4. CASE pc < base + Len(is)
  <2>1. Defined /\ Allowed /\ (Step => Applying(op, base, v)' /\ Keeps)
    <3>1. CASE op = "Neg"
      BY <1>1, <1>3, <1>4, <3>1, NegStep
    <3>2. CASE op = "Not"
      BY <1>1, <1>4, <3>2, NotStep
    <3> QED  BY <3>1, <3>2
  <2>2. Applies(op, base, v)
    BY <1>1, <1>3, <1>4, <2>1 DEF Applies, is
  <2> QED  BY <1>2, <2>1, <2>2 DEF StepIn
<1>5. CASE ~(pc < base + Len(is))
  <2>1. pc = base + Len(is) /\ ~StepIn(is, base)
    BY <1>1, <1>3, <1>5 DEF StepIn
  <2>2. x[X0] = Apply(op, v)
    BY <1>1, <2>1 DEF Applying, is
  <2>3. Applies(op, base, v)
    BY <1>1, <1>3, <2>1, <2>2 DEF Applies, is
  <2> QED  BY <1>2, <2>1, <2>3 DEF is
<1> QED  BY <1>4, <1>5

(* The same for the code gen_unary emits behind its operand: the negation  *)
(* of the smallest word wraps as wrap_neg says, and not gives 1 or 0.      *)
THEOREM UnariesAgree ==
    ASSUME NEW op \in {"Neg", "Not"}, NEW base \in Nat, NEW v \in Word
    PROVE  OperandIn(op, base, v) /\ [][StepIn(UnaryCode(op), base)]_machine
               => []Applies(op, base, v) /\ [][Keeps]_machine
<1>1. OperandIn(op, base, v) => Applying(op, base, v)
  BY DEF OperandIn, Applying
<1>2. Applying(op, base, v) /\ [StepIn(UnaryCode(op), base)]_machine
          => Applying(op, base, v)' /\ [Keeps]_machine
  BY ApplyingFollows
<1>3. Applying(op, base, v) => Applies(op, base, v)
  BY ApplyingFollows
<1> QED  BY <1>1, <1>2, <1>3, PTL

-----------------------------------------------------------------------------
(* Constants *)

(* What the chunks of a value below a given one make together. *)
Low(value, hw) ==
    CASE hw = 0 -> 0
      [] hw = 1 -> Chunk(value, 0)
      [] hw = 2 -> Chunk(value, 0) + Chunk(value, 1) * Shift(1)
      [] hw = 3 -> Chunk(value, 0) + Chunk(value, 1) * Shift(1) + Chunk(value, 2) * Shift(2)
      [] hw = 4 -> value % Modulus

(* Digits of a number in any base, two and three at a time. *)
LEMMA Digits ==
    ASSUME NEW s \in Nat, s >= 2, NEW u \in Nat, u < s * s * s * s
    PROVE  /\ u \div 1 = u
           /\ u \div (s * s) = (u \div s) \div s
           /\ u \div (s * s * s) = ((u \div s) \div s) \div s
           /\ ((u \div s) \div s) \div s \in 0 .. s - 1
<1> DEFINE p == u \div s
           q == p \div s
           r == q \div s
           c == u % s
           d == p % s
           e == q % s
<1>1. p \in Int /\ c \in 0 .. s - 1 /\ u = s * p + c /\ p >= 0
  OBVIOUS
<1>2. q \in Int /\ d \in 0 .. s - 1 /\ p = s * q + d /\ q >= 0
  <2> HIDE DEF p
  <2> QED  BY <1>1
<1>3. r \in Int /\ e \in 0 .. s - 1 /\ q = s * r + e /\ r >= 0
  <2> HIDE DEF q
  <2> QED  BY <1>2
<1> HIDE DEF p, q, r, c, d, e
<1>4. u \div 1 = u
  <2>1. 1 \in Nat \ {0} /\ u \in Int /\ 0 \in 0 .. 1 - 1 /\ u = 1 * u + 0
    OBVIOUS
  <2> QED  BY <2>1, ModIs
<1> DEFINE ss == s * s
           sss == s * s * s
<1>5. ss \in Nat \ {0} /\ sss \in Nat \ {0} /\ sss = ss * s
  OBVIOUS
<1>6. u \div ss = q
  <2> DEFINE rem == s * d + c
  <2>1. rem \in 0 .. ss - 1
    <3>1. s * d <= s * (s - 1) /\ s * d >= 0
      BY <1>2
    <3>2. s * (s - 1) = ss - s
      OBVIOUS
    <3> HIDE DEF ss
    <3> QED  BY <1>1, <1>2, <1>5, <3>1, <3>2
  <2>2. u = ss * q + rem
    <3>1. s * p = s * (s * q) + s * d
      BY <1>1, <1>2
    <3> QED  BY <1>1, <1>2, <3>1
  <2> HIDE DEF rem, ss
  <2> QED  BY <1>2, <1>5, <2>1, <2>2, ModIs
<1>7. u \div sss = r
  <2> DEFINE rem == ss * e + s * d + c
  <2>1. rem \in 0 .. sss - 1
    <3>1. s * d <= s * (s - 1) /\ s * d >= 0
      BY <1>2
    <3>2. s * (s - 1) = ss - s
      OBVIOUS
    <3>3. ss * e <= ss * (s - 1) /\ ss * e >= 0
      <4> HIDE DEF ss
      <4> QED  BY <1>3, <1>5
    <3>4. ss * (s - 1) = sss - ss
      OBVIOUS
    <3> HIDE DEF ss, sss
    <3> QED  BY <1>1, <1>2, <1>3, <1>5, <3>1, <3>2, <3>3, <3>4
  <2>2. u = sss * r + rem
    <3>1. s * p = s * (s * q) + s * d
      BY <1>1, <1>2
    <3>2. ss * q = ss * (s * r) + ss * e
      BY <1>2, <1>3
    <3> QED  BY <1>1, <1>2, <1>3, <3>1, <3>2
  <2> HIDE DEF rem, sss
  <2> QED  BY <1>3, <1>5, <2>1, <2>2, ModIs
<1>8. r < s
  <2>1. sss * r <= u
    <3>1. s * q <= p
      BY <1>2
    <3>2. s * p <= u
      BY <1>1
    <3>3. s * r <= q
      BY <1>3
    <3>4. ss * (s * r) <= ss * q
      <4> HIDE DEF ss
      <4> QED  BY <1>2, <1>3, <1>5, <3>3
    <3>5. s * (s * q) <= s * p
      BY <1>1, <1>2, <3>1
    <3> QED  BY <1>1, <1>2, <1>3, <3>2, <3>4, <3>5
  <2>2. u < sss * s
    OBVIOUS
  <2> HIDE DEF sss
  <2>3. CASE r >= s
    <3>1. sss * r >= sss * s
      BY <1>3, <1>5, <2>3
    <3> QED  BY <1>3, <1>5, <2>1, <2>2, <3>1
  <2> QED  BY <1>3, <2>3
<1> QED  BY <1>3, <1>4, <1>6, <1>7, <1>8 DEF p, q, r

(* The chunks of a word are its digits. *)
LEMMA ChunksAddUp ==
    ASSUME NEW value \in Int, NEW hw \in 0 .. 3
    PROVE  /\ Chunk(value, hw) \in 0 .. ChunkSize - 1
           /\ Shift(hw) \in Nat \ {0}
           /\ Low(value, hw) \in 0 .. Shift(hw) - 1
           /\ Low(value, hw + 1) = Low(value, hw) + Chunk(value, hw) * Shift(hw)
           /\ Low(value, hw + 1) \in 0 .. Modulus - 1
<1> DEFINE s == ChunkSize
           u == value % Modulus
           p == u \div s
           q == p \div s
           r == q \div s
           c == u % s
           d == p % s
           e == q % s
           ss == s * s
           sss == s * s * s
<1>1. s \in Nat /\ s >= 2 /\ Modulus = s * s * s * s /\ Modulus \in Nat \ {0}
  BY Halves DEF Modulus
<1>2. u \in Nat /\ u < s * s * s * s
  BY <1>1
<1>3. u \div 1 = u /\ u \div ss = q /\ u \div sss = r /\ r \in 0 .. s - 1
  <2> HIDE DEF s, u
  <2> QED  BY <1>1, <1>2, Digits
<1>4. /\ p \in Int /\ c \in 0 .. s - 1 /\ u = s * p + c
      /\ q \in Int /\ d \in 0 .. s - 1 /\ p = s * q + d
      /\ e \in 0 .. s - 1 /\ q = s * r + e
  <2> HIDE DEF s, u
  <2>1. p \in Int /\ c \in 0 .. s - 1 /\ u = s * p + c
    BY <1>1, <1>2
  <2>2. q \in Int /\ d \in 0 .. s - 1 /\ p = s * q + d
    <3> HIDE DEF p
    <3> QED  BY <1>1, <2>1
  <2>3. e \in 0 .. s - 1 /\ q = s * r + e
    <3> HIDE DEF q
    <3> QED  BY <1>1, <2>2
  <2> QED  BY <2>1, <2>2, <2>3
<1>5. r % s = r
  <2> HIDE DEF s, r
  <2> QED  BY <1>1, <1>3
<1>6. /\ Shift(0) = 1 /\ Shift(1) = s /\ Shift(2) = ss /\ Shift(3) = sss
  BY DEF Shift
<1>7. /\ Chunk(value, 0) = c /\ Chunk(value, 1) = d
      /\ Chunk(value, 2) = e /\ Chunk(value, 3) = r
  BY <1>3, <1>5, <1>6 DEF Chunk
<1> HIDE DEF s, u, p, q, r, c, d, e, ss, sss
<1>8. /\ Low(value, 0) = 0 /\ Low(value, 1) = c /\ Low(value, 2) = c + d * s
      /\ Low(value, 3) = c + d * s + e * ss /\ Low(value, 4) = u
  BY <1>6, <1>7 DEF Low, u
<1>9. u = c + d * s + e * ss + r * sss
  <2>1. s * p = s * (s * q) + s * d
    BY <1>1, <1>4
  <2>2. ss * q = ss * (s * r) + ss * e
    BY <1>1, <1>3, <1>4 DEF ss
  <2> QED  BY <1>1, <1>3, <1>4, <2>1, <2>2 DEF ss, sss
<1>10. /\ s \in Nat \ {0} /\ ss \in Nat \ {0} /\ sss \in Nat \ {0}
       /\ c \in 0 .. s - 1 /\ c + d * s \in 0 .. ss - 1
       /\ c + d * s + e * ss \in 0 .. sss - 1
       /\ ss <= sss /\ s <= ss /\ sss <= Modulus
  <2>1. ss \in Nat \ {0} /\ sss = ss * s /\ sss \in Nat \ {0} /\ Modulus = sss * s
    BY <1>1 DEF ss, sss
  <2>2. d * s <= (s - 1) * s /\ d * s >= 0 /\ (s - 1) * s = ss - s
    BY <1>1, <1>4 DEF ss
  <2>3. e * ss <= (s - 1) * ss /\ e * ss >= 0 /\ (s - 1) * ss = sss - ss
    BY <1>1, <1>4, <2>1
  <2>4. s <= ss
    BY <1>1 DEF ss
  <2>5. ss <= sss
    BY <1>1, <2>1
  <2>6. sss <= Modulus
    BY <1>1, <2>1
  <2>7. d * s \in Int /\ e * ss \in Int
    BY <1>1, <1>4, <2>1
  <2> QED  BY <1>1, <1>4, <2>1, <2>2, <2>3, <2>4, <2>5, <2>6, <2>7
<1>11. d * s \in Int /\ e * ss \in Int /\ u \in 0 .. Modulus - 1
  BY <1>1, <1>2, <1>4, <1>10
<1>12. CASE hw = 0
  BY <1>4, <1>6, <1>7, <1>8, <1>10, <1>1, <1>12 DEF s
<1>13. CASE hw = 1
  BY <1>4, <1>6, <1>7, <1>8, <1>10, <1>11, <1>1, <1>13 DEF s
<1>14. CASE hw = 2
  BY <1>4, <1>6, <1>7, <1>8, <1>10, <1>11, <1>1, <1>14 DEF s
<1>15. CASE hw = 3
  BY <1>3, <1>6, <1>7, <1>8, <1>9, <1>10, <1>11, <1>1, <1>15 DEF s
<1> QED  BY <1>12, <1>13, <1>14, <1>15

(* From a word to its representative in 0 .. Modulus - 1 and back. *)
LEMMA Unsigned ==
    /\ \A w \in Word : w % Modulus = IF w < 0 THEN w + Modulus ELSE w
    /\ \A w \in Word : Wrap(w % Modulus) = w
    /\ \A u \in 0 .. Modulus - 1 : Wrap(u) % Modulus = u
<1>1. Modulus \in Nat \ {0} /\ MinInt \in Int /\ Modulus = -2 * MinInt /\ Word = MinInt .. -MinInt - 1
  BY Halves
<1>2. ASSUME NEW w \in Word
      PROVE  w % Modulus = (IF w < 0 THEN w + Modulus ELSE w)
  <2>1. w \in Int /\ 0 \in Int /\ -1 \in Int
    BY <1>1
  <2>2. CASE w < 0
    <3>1. w + Modulus \in 0 .. Modulus - 1 /\ w = Modulus * (-1) + (w + Modulus)
      BY <1>1, <2>1, <2>2
    <3> QED  BY <1>1, <2>1, <2>2, <3>1, ModIs
  <2>3. CASE ~(w < 0)
    <3>1. w \in 0 .. Modulus - 1 /\ w = Modulus * 0 + w
      BY <1>1, <2>1, <2>3
    <3> QED  BY <1>1, <2>1, <2>3, <3>1, ModIs
  <2> QED  BY <2>2, <2>3
<1>3. ASSUME NEW w \in Word
      PROVE  Wrap(w % Modulus) = w
  BY <1>2, WrapNear
<1>4. ASSUME NEW u \in 0 .. Modulus - 1
      PROVE  Wrap(u) % Modulus = u
  <2>1. CASE u \in Word
    <3>1. Wrap(u) = u /\ u >= 0 /\ u \in Int
      BY <1>1, <2>1, WrapNear
    <3> QED  BY <1>2, <2>1, <3>1
  <2>2. CASE u \notin Word
    <3> DEFINE w == u - Modulus
    <3>1. w \in Word /\ w < 0 /\ u = w + Modulus
      BY <1>1, <2>2
    <3> HIDE DEF w
    <3>2. Wrap(u) = w
      BY <3>1, WrapNear
    <3> QED  BY <1>2, <3>1, <3>2
  <2> QED  BY <2>1, <2>2
<1> QED  BY <1>2, <1>3, <1>4

(* How many instructions the chunks below a given one take. *)
Takes(value, hw) == IF Chunk(value, hw) = 0 THEN 0 ELSE 1
Emitted(value, hw) ==
    CASE hw = 0 -> 0
      [] hw = 1 -> Takes(value, 0)
      [] hw = 2 -> Takes(value, 0) + Takes(value, 1)
      [] hw = 3 -> Takes(value, 0) + Takes(value, 1) + Takes(value, 2)
      [] hw = 4 -> Takes(value, 0) + Takes(value, 1) + Takes(value, 2) + Takes(value, 3)

LEMMA EmittedCounts ==
    ASSUME NEW value
    PROVE  /\ Emitted(value, 0) = 0
           /\ \A hw \in 0 .. 3 : Emitted(value, hw + 1) = Emitted(value, hw) + Takes(value, hw)
           /\ \A hw \in 0 .. 4 : Emitted(value, hw) \in 0 .. hw
           /\ \A hw \in 0 .. 3 : Emitted(value, hw) = 0
                  <=> \A k \in 0 .. hw - 1 : Chunk(value, k) = 0
  BY DEF Emitted, Takes

(* The instruction for a chunk that is not zero. *)
MoveFor(rd, value, hw) ==
    IF Emitted(value, hw) = 0 THEN movz(rd, Chunk(value, hw), hw)
    ELSE movk(rd, Chunk(value, hw), hw)

LEMMA OneMore ==
    ASSUME NEW S, NEW s \in Seq(S), NEW t \in Seq(S)
    PROVE  /\ s \o t \in Seq(S) /\ Len(s) \in Nat /\ Len(t) \in Nat
           /\ Len(s \o t) = Len(s) + Len(t)
           /\ \A k \in 1 .. Len(s) : (s \o t)[k] = s[k]
           /\ Len(t) # 0 => (s \o t)[Len(s) + 1] = t[1]
<1>1. Len(s) \in Nat /\ Len(t) \in Nat
  OBVIOUS
<1>2. \A k \in 1 .. Len(s) : k \in 1 .. Len(s) + Len(t) /\ k <= Len(s)
  BY <1>1
<1>3. Len(t) # 0 => Len(s) + 1 \in 1 .. Len(s) + Len(t) /\ ~(Len(s) + 1 <= Len(s))
                    /\ Len(s) + 1 - Len(s) = 1
  BY <1>1
<1> QED  BY <1>1, <1>2, <1>3, ConcatProperties

LEMMA MovesListed ==
    ASSUME NEW rd, NEW value
    PROVE  LET is == mov_imm64(rd, value)
           IN  /\ Emitted(value, 4) = 0 => is = <<movz(rd, 0, 0)>>
               /\ Emitted(value, 4) # 0 =>
                      /\ Len(is) = Emitted(value, 4)
                      /\ \A hw \in 0 .. 3 : Chunk(value, hw) # 0 =>
                             is[Emitted(value, hw) + 1] = MoveFor(rd, value, hw)
<1> DEFINE M(hw) == MoveChunk(rd, value, hw)
           I(hw) == MoveFor(rd, value, hw)
           S == {I(0), I(1), I(2), I(3)}
           T(hw) == Takes(value, hw)
           m1 == M(0) \o M(1)
           m2 == m1 \o M(2)
           moves == m2 \o M(3)
<1>1. \A hw \in 0 .. 3 : M(hw) = IF T(hw) = 0 THEN <<>> ELSE <<I(hw)>>
  BY EmittedCounts DEF MoveChunk, MoveFor, Takes
<1>2. \A hw \in 0 .. 3 : I(hw) \in S /\ T(hw) \in 0 .. 1
  BY DEF Takes
<1>3. \A hw \in 0 .. 3 : /\ M(hw) \in Seq(S) /\ Len(M(hw)) = T(hw)
                         /\ T(hw) # 0 => M(hw)[1] = I(hw)
  <2> SUFFICES ASSUME NEW hw \in 0 .. 3
               PROVE  /\ M(hw) \in Seq(S) /\ Len(M(hw)) = T(hw)
                      /\ T(hw) # 0 => M(hw)[1] = I(hw)
    OBVIOUS
  <2> DEFINE i == I(hw)
  <2>1. i \in S /\ T(hw) \in 0 .. 1 /\ M(hw) = IF T(hw) = 0 THEN <<>> ELSE <<i>>
    BY <1>1, <1>2
  <2> HIDE DEF M, i, S, T
  <2>2. CASE T(hw) = 0
    BY <2>1, <2>2, EmptySeq
  <2>3. CASE T(hw) # 0
    <3>1. M(hw) = <<i>> /\ T(hw) = 1
      BY <2>1, <2>3
    <3> QED  BY <2>1, <3>1 DEF i
  <2> QED  BY <2>2, <2>3
<1> HIDE DEF M, I, S, T
<1>4. /\ m1 \in Seq(S) /\ Len(m1) = T(0) + T(1)
      /\ T(0) # 0 => m1[1] = I(0)
      /\ T(1) # 0 => m1[T(0) + 1] = I(1)
  BY <1>2, <1>3, OneMore
<1> HIDE DEF m1
<1>5. /\ m2 \in Seq(S) /\ Len(m2) = T(0) + T(1) + T(2)
      /\ T(0) # 0 => m2[1] = I(0)
      /\ T(1) # 0 => m2[T(0) + 1] = I(1)
      /\ T(2) # 0 => m2[T(0) + T(1) + 1] = I(2)
  <2>1. /\ m1 \in Seq(S) /\ M(2) \in Seq(S) /\ Len(M(2)) = T(2)
        /\ T(0) \in 0 .. 1 /\ T(1) \in 0 .. 1 /\ T(2) \in 0 .. 1
        /\ T(2) # 0 => M(2)[1] = I(2)
    BY <1>2, <1>3, <1>4
  <2>2. /\ m2 \in Seq(S) /\ Len(m2) = Len(m1) + T(2)
        /\ \A k \in 1 .. Len(m1) : m2[k] = m1[k]
        /\ T(2) # 0 => m2[Len(m1) + 1] = M(2)[1]
    BY <2>1, OneMore
  <2>3. /\ T(0) # 0 => 1 \in 1 .. Len(m1)
        /\ T(1) # 0 => T(0) + 1 \in 1 .. Len(m1)
        /\ Len(m1) + 1 = T(0) + T(1) + 1
    BY <1>4, <2>1
  <2> QED  BY <1>4, <2>1, <2>2, <2>3
<1> HIDE DEF m2
<1>6. /\ moves \in Seq(S) /\ Len(moves) = T(0) + T(1) + T(2) + T(3)
      /\ T(0) # 0 => moves[1] = I(0)
      /\ T(1) # 0 => moves[T(0) + 1] = I(1)
      /\ T(2) # 0 => moves[T(0) + T(1) + 1] = I(2)
      /\ T(3) # 0 => moves[T(0) + T(1) + T(2) + 1] = I(3)
  <2>1. /\ m2 \in Seq(S) /\ M(3) \in Seq(S) /\ Len(M(3)) = T(3)
        /\ T(0) \in 0 .. 1 /\ T(1) \in 0 .. 1 /\ T(2) \in 0 .. 1 /\ T(3) \in 0 .. 1
        /\ T(3) # 0 => M(3)[1] = I(3)
    BY <1>2, <1>3, <1>5
  <2>2. /\ moves \in Seq(S) /\ Len(moves) = Len(m2) + T(3)
        /\ \A k \in 1 .. Len(m2) : moves[k] = m2[k]
        /\ T(3) # 0 => moves[Len(m2) + 1] = M(3)[1]
    BY <2>1, OneMore
  <2>3. /\ T(0) # 0 => 1 \in 1 .. Len(m2)
        /\ T(1) # 0 => T(0) + 1 \in 1 .. Len(m2)
        /\ T(2) # 0 => T(0) + T(1) + 1 \in 1 .. Len(m2)
        /\ Len(m2) + 1 = T(0) + T(1) + T(2) + 1
    BY <1>5, <2>1
  <2> QED  BY <1>5, <2>1, <2>2, <2>3
<1>7. mov_imm64(rd, value) = IF moves = <<>> THEN <<movz(rd, 0, 0)>> ELSE moves
  BY DEF mov_imm64, moves, m1, m2, M
<1> HIDE DEF moves
<1>8. moves = <<>> <=> Emitted(value, 4) = 0
  BY <1>2, <1>6, EmptySeq DEF Emitted, T
<1>9. \A hw \in 0 .. 3 : Chunk(value, hw) # 0 => moves[Emitted(value, hw) + 1] = I(hw)
  <2>1. \A hw \in 0 .. 3 : Chunk(value, hw) # 0 => T(hw) # 0
    BY DEF T, Takes
  <2>2. /\ Emitted(value, 0) = 0 /\ Emitted(value, 1) = T(0)
        /\ Emitted(value, 2) = T(0) + T(1) /\ Emitted(value, 3) = T(0) + T(1) + T(2)
    BY DEF Emitted, T
  <2>3. T(0) + 1 \in Int
    BY <1>2
  <2> QED  BY <1>2, <1>6, <2>1, <2>2
<1>10. Len(moves) = Emitted(value, 4)
  BY <1>6 DEF Emitted, T
<1> QED  BY <1>7, <1>8, <1>9, <1>10 DEF I

(* Before the first of the moves of a constant. *)
ConstantDue(rd, value, base) ==
    /\ Placed(mov_imm64(rd, value), base)
    /\ pc = base
    /\ end = "running"
    /\ Full

Loads64(rd, value, base) ==
    LET size == Len(mov_imm64(rd, value))
    IN  /\ pc - base \in 0 .. size
        /\ pc < base + size => Defined /\ Allowed
        /\ pc = base + size => x[rd] = value

KeepsBut(rd) ==
    /\ UNCHANGED <<code, sp, flags, mem, out, end>>
    /\ \A r \in Registers \ {rd} : x'[r] = x[r]

(* The register holds the chunks that the moves so far have written. *)
Assembling(rd, value, base) ==
    /\ Placed(mov_imm64(rd, value), base)
    /\ end = "running"
    /\ Full
    /\ \/ \E hw \in 0 .. 4 :
              /\ pc = base + Emitted(value, hw)
              /\ Emitted(value, hw) # 0 => x[rd] = Wrap(Low(value, hw))
       \/ Emitted(value, 4) = 0 /\ pc = base + 1 /\ x[rd] = value

(* A move into a register that holds nothing at the chunk or above it. *)
LEMMA MoveSets ==
    ASSUME NEW rd \in Registers, NEW imm \in Nat, NEW hw \in 0 .. 3,
           NEW low \in 0 .. Shift(hw) - 1, Full, pc \in 0 .. Len(code) - 1,
           \/ Here = movz(rd, imm, hw) /\ low = 0
           \/ Here = movk(rd, imm, hw) /\ low < Modulus /\ x[rd] = Wrap(low)
    PROVE  /\ Defined /\ Allowed
           /\ Step => /\ pc' = pc + 1 /\ Full' /\ KeepsBut(rd)
                      /\ x'[rd] = Wrap(low + imm * Shift(hw))
<1>1. /\ Here.op \in {"movz", "movk"} /\ Here.rd = rd /\ Here.imm = imm /\ Here.hw = hw
      /\ Here.op = "movz" => low = 0
      /\ Here.op = "movk" => x[rd] = Wrap(low) /\ low < Modulus
  BY DEF movz, movk
<1>2. low \in Int /\ Shift(hw) \in Nat \ {0} /\ ChunkSize \in Nat \ {0} /\ Modulus \in Nat
  <2>1. 0 \in Int
    OBVIOUS
  <2>2. Shift(hw) \in Nat \ {0}
    BY <2>1, ChunksAddUp
  <2> QED  BY <2>2, Halves
<1>3. Defined
  <2>1. CASE Here.op = "movz"
    <3>1. Consumed(Here) = {}
      BY <2>1, Consuming
    <3> QED  BY <3>1 DEF Defined
  <2>2. CASE Here.op = "movk"
    <3>1. x[rd] \in Word
      BY <1>1, <1>2, <2>2, WrapIsWord
    <3>2. Consumed(Here) = {x[rd]} /\ x[rd] # Junk
      BY <1>1, <2>2, <3>1, Consuming, AtWord
    <3> QED  BY <3>2 DEF Defined
  <2> QED  BY <1>1, <2>1, <2>2
<1>4. Allowed
  BY <1>1, Harmless
<1>5. ASSUME Step
      PROVE  /\ pc' = pc + 1 /\ Full' /\ KeepsBut(rd)
             /\ x'[rd] = Wrap(low + imm * Shift(hw))
  <2>1. Move
    BY <1>1, <1>5, Acting
  <2> DEFINE old == IF Here.op = "movz" THEN 0 ELSE x[rd] % Modulus
             chunk == (old \div Shift(hw)) % ChunkSize
  <2>2. x' = [x EXCEPT ![rd] = Wrap(old + (imm - chunk) * Shift(hw))]
    BY <1>1, <2>1 DEF Move, Set
  <2>3. old = low
    <3>1. CASE Here.op = "movz"
      BY <1>1, <3>1
    <3>2. CASE Here.op = "movk"
      <4>1. low \in 0 .. Modulus - 1 /\ x[rd] = Wrap(low)
        BY <1>1, <1>2, <3>2
      <4> QED  BY <3>2, <4>1, Unsigned
    <3> QED  BY <1>1, <3>1, <3>2
  <2>4. chunk = 0
    <3>1. 0 \in Int /\ low = Shift(hw) * 0 + low
      BY <1>2
    <3>2. low \div Shift(hw) = 0
      BY <1>2, <3>1, ModIs
    <3>3. 0 % ChunkSize = 0
      BY <1>2
    <3> QED  BY <2>3, <3>2, <3>3
  <2> HIDE DEF old, chunk
  <2>5. x' = [x EXCEPT ![rd] = Wrap(low + imm * Shift(hw))]
    <3>1. imm - 0 = imm
      OBVIOUS
    <3> QED  BY <2>2, <2>3, <2>4, <3>1
  <2>6. pc' = pc + 1 /\ UNCHANGED <<code, sp, flags, mem, out, end>>
    BY <2>1 DEF Move, NextPc
  <2> QED  BY <2>5, <2>6 DEF Full, KeepsBut
<1> QED  BY <1>3, <1>4, <1>5

LEMMA ZeroAddsNothing ==
    ASSUME NEW value \in Int, NEW hw \in 0 .. 3, Chunk(value, hw) = 0
    PROVE  Low(value, hw + 1) = Low(value, hw)
<1>1. /\ Shift(hw) \in Nat /\ Low(value, hw) \in 0 .. Shift(hw) - 1
      /\ Low(value, hw + 1) = Low(value, hw) + 0 * Shift(hw)
  BY ChunksAddUp
<1> QED  BY <1>1

(* The chunk whose instruction is next. *)
LEMMA NextChunk ==
    ASSUME NEW value \in Int, NEW hw \in 0 .. 4, Emitted(value, hw) # Emitted(value, 4)
    PROVE  \E k \in 0 .. 3 : /\ Chunk(value, k) # 0
                             /\ Emitted(value, k) = Emitted(value, hw)
                             /\ Low(value, k) = Low(value, hw)
<1> DEFINE E(k) == Emitted(value, k)
           L(k) == Low(value, k)
           c(k) == Chunk(value, k)
<1>1. /\ E(1) = E(0) + Takes(value, 0) /\ E(2) = E(1) + Takes(value, 1)
      /\ E(3) = E(2) + Takes(value, 2) /\ E(4) = E(3) + Takes(value, 3)
      /\ E(0) \in Int /\ E(1) \in Int /\ E(2) \in Int /\ E(3) \in Int /\ E(4) \in Int
  BY EmittedCounts
<1>2. \A k \in 0 .. 3 : c(k) = 0 => Takes(value, k) = 0
  BY DEF Takes
<1>3. /\ L(1) = L(0) + c(0) * Shift(0) /\ L(2) = L(1) + c(1) * Shift(1)
      /\ L(3) = L(2) + c(2) * Shift(2) /\ L(4) = L(3) + c(3) * Shift(3)
      /\ \A k \in 0 .. 3 : L(k) \in Int /\ Shift(k) \in Int
  <2>1. 0 \in 0 .. 3 /\ 1 \in 0 .. 3 /\ 2 \in 0 .. 3 /\ 3 \in 0 .. 3
        /\ 0 + 1 = 1 /\ 1 + 1 = 2 /\ 2 + 1 = 3 /\ 3 + 1 = 4
    OBVIOUS
  <2>2. ASSUME NEW k \in 0 .. 3
        PROVE  L(k + 1) = L(k) + c(k) * Shift(k) /\ L(k) \in Int /\ Shift(k) \in Int
    <3>1. /\ Shift(k) \in Nat \ {0} /\ Low(value, k) \in 0 .. Shift(k) - 1
          /\ Low(value, k + 1) = Low(value, k) + Chunk(value, k) * Shift(k)
      BY ChunksAddUp
    <3> QED  BY <3>1
  <2> HIDE DEF L, c
  <2> QED  BY <2>1, <2>2
<1> HIDE DEF E, L, c
<1>4. /\ c(0) = 0 => E(1) = E(0) /\ L(1) = L(0)
      /\ c(1) = 0 => E(2) = E(1) /\ L(2) = L(1)
      /\ c(2) = 0 => E(3) = E(2) /\ L(3) = L(2)
      /\ c(3) = 0 => E(4) = E(3)
  BY <1>1, <1>2, <1>3
<1>5. \E k \in 0 .. 3 : c(k) # 0 /\ E(k) = E(hw) /\ L(k) = L(hw)
  <2>1. E(hw) # E(4)
    BY DEF E
  <2>2. hw = 0 \/ hw = 1 \/ hw = 2 \/ hw = 3
    BY <2>1
  <2>3. /\ hw = 3 => c(3) # 0
        /\ hw = 2 => c(2) # 0 \/ (E(3) = E(hw) /\ L(3) = L(hw) /\ c(3) # 0)
    BY <1>4, <2>1
  <2>4. CASE hw \in {2, 3}
    BY <2>3, <2>4
  <2>5. CASE hw = 1
    BY <1>4, <2>1, <2>5
  <2>6. CASE hw = 0
    BY <1>4, <2>1, <2>6
  <2> QED  BY <2>2, <2>4, <2>5, <2>6
<1> QED  BY <1>5 DEF E, L, c

LEMMA AssemblingFollows ==
    ASSUME NEW rd \in Registers, NEW value \in Word, NEW base \in Nat,
           Assembling(rd, value, base)
    PROVE  /\ Loads64(rd, value, base)
           /\ ([StepIn(mov_imm64(rd, value), base)]_machine
                   => Assembling(rd, value, base)' /\ [KeepsBut(rd)]_machine)
<1> DEFINE is == mov_imm64(rd, value)
           E(hw) == Emitted(value, hw)
<1>1. UNCHANGED machine => Assembling(rd, value, base)'
  BY DEF machine, Assembling, Full, Placed
<1>2. value \in Int /\ Low(value, 4) = value % Modulus /\ Wrap(Low(value, 4)) = value
  BY AtWord, Unsigned DEF Low
<1>3. /\ \A hw \in 0 .. 4 : E(hw) \in Nat
      /\ \A hw \in 0 .. 3 : E(hw + 1) = E(hw) + Takes(value, hw)
      /\ E(0) = 0 /\ E(1) <= E(2) /\ E(2) <= E(3) /\ E(3) <= E(4) /\ E(0) <= E(1)
  BY EmittedCounts DEF Emitted, Takes
<1>4. Placed(is, base) /\ Full /\ end = "running"
  BY DEF Assembling
<1>5. CASE E(4) = 0
  <2>1. Len(is) = 1 /\ is[1] = movz(rd, 0, 0)
    BY <1>5, MovesListed
  <2> HIDE DEF is
  <2>2. \A hw \in 0 .. 4 : E(hw) = 0
    BY <1>3, <1>5
  <2>3. pc = base \/ (pc = base + 1 /\ x[rd] = value)
    BY <2>2 DEF Assembling
  <2>4. value = 0
    <3>1. \A hw \in 0 .. 3 : Chunk(value, hw) = 0
      BY <1>5 DEF Emitted, Takes
    <3>2. 3 \in 0 .. 3 /\ 2 \in 0 .. 3 /\ 1 \in 0 .. 3 /\ 0 \in 0 .. 3
          /\ 3 + 1 = 4 /\ 2 + 1 = 3 /\ 1 + 1 = 2 /\ 0 + 1 = 1
      OBVIOUS
    <3>3. \A hw \in 0 .. 3 : Low(value, hw + 1) = Low(value, hw)
      BY <1>2, <3>1, ZeroAddsNothing
    <3>4. Low(value, 4) = Low(value, 0)
      BY <3>2, <3>3
    <3>5. Low(value, 4) = 0
      BY <3>4 DEF Low
    <3>6. 0 \in Word
      BY Halves
    <3> QED  BY <1>2, <3>5, <3>6, WrapNear
  <2>5. CASE pc = base
    <3>1. pc \in 0 .. Len(code) - 1 /\ Here = movz(rd, 0, 0)
      BY <1>4, <2>1, <2>5 DEF Placed, Here
    <3>2. 0 \in 0 .. 3 /\ 0 \in Nat /\ 0 \in 0 .. Shift(0) - 1 /\ Shift(0) = 1
      BY DEF Shift
    <3>3. /\ Defined /\ Allowed
          /\ Step => pc' = pc + 1 /\ Full' /\ KeepsBut(rd) /\ x'[rd] = Wrap(0 + 0 * Shift(0))
      BY <1>4, <3>1, <3>2, MoveSets
    <3>4. Wrap(0 + 0 * Shift(0)) = value
      <4>1. 0 + 0 * Shift(0) = 0 /\ 0 \in Word
        BY <3>2, Halves
      <4> QED  BY <2>4, <4>1, WrapNear
    <3>5. Loads64(rd, value, base)
      BY <2>1, <2>5, <3>3 DEF Loads64, is
    <3>6. Step => Assembling(rd, value, base)' /\ KeepsBut(rd)
      BY <1>4, <1>5, <2>5, <3>3, <3>4 DEF Assembling, KeepsBut, Placed, is
    <3> QED  BY <1>1, <3>5, <3>6 DEF StepIn
  <2>6. CASE pc = base + 1 /\ x[rd] = value
    <3>1. ~StepIn(is, base) /\ Loads64(rd, value, base)
      BY <2>1, <2>6 DEF StepIn, Loads64, is
    <3> QED  BY <1>1, <3>1 DEF is
  <2> QED  BY <2>3, <2>5, <2>6
<1>6. CASE E(4) # 0
  <2>1. /\ Len(is) = E(4)
        /\ \A hw \in 0 .. 3 : Chunk(value, hw) # 0 => is[E(hw) + 1] = MoveFor(rd, value, hw)
    BY <1>6, MovesListed
  <2> HIDE DEF is
  <2>2. PICK hw \in 0 .. 4 : /\ pc = base + E(hw)
                             /\ E(hw) # 0 => x[rd] = Wrap(Low(value, hw))
    BY <1>6 DEF Assembling
  <2>3. E(hw) \in 0 .. E(4) /\ E(4) \in Nat
    BY <1>3
  <2>4. CASE E(hw) = E(4)
    <3>1. Low(value, hw) = Low(value, 4)
      <4>1. \A k \in 0 .. 3 : Takes(value, k) = 0 => Low(value, k + 1) = Low(value, k)
        <5>1. \A k \in 0 .. 3 : Takes(value, k) = 0 => Chunk(value, k) = 0
          BY DEF Takes
        <5> QED  BY <1>2, <5>1, ZeroAddsNothing
      <4>2. \A k \in 0 .. 3 : k >= hw => Takes(value, k) = 0
        <5>1. \A k \in 0 .. 3 : Takes(value, k) \in 0 .. 1
          BY DEF Takes
        <5>2. /\ E(1) = E(0) + Takes(value, 0) /\ E(2) = E(1) + Takes(value, 1)
              /\ E(3) = E(2) + Takes(value, 2) /\ E(4) = E(3) + Takes(value, 3)
          BY EmittedCounts
        <5> HIDE DEF E
        <5> QED  BY <1>3, <2>4, <5>1, <5>2
      <4>3. /\ hw <= 3 => Low(value, 4) = Low(value, 3)
            /\ hw <= 2 => Low(value, 3) = Low(value, 2)
            /\ hw <= 1 => Low(value, 2) = Low(value, 1)
            /\ hw <= 0 => Low(value, 1) = Low(value, 0)
        <5>1. 3 \in 0 .. 3 /\ 2 \in 0 .. 3 /\ 1 \in 0 .. 3 /\ 0 \in 0 .. 3
              /\ 3 + 1 = 4 /\ 2 + 1 = 3 /\ 1 + 1 = 2 /\ 0 + 1 = 1
          OBVIOUS
        <5> QED  BY <4>1, <4>2, <5>1
      <4> QED  BY <4>3
    <3>2. x[rd] = value /\ pc = base + Len(is)
      BY <1>2, <1>6, <2>1, <2>2, <2>4, <3>1
    <3>3. ~StepIn(is, base) /\ Loads64(rd, value, base)
      BY <2>1, <2>3, <3>2 DEF StepIn, Loads64, is
    <3> QED  BY <1>1, <3>3 DEF is
  <2>5. CASE E(hw) # E(4)
    <3>1. PICK k \in 0 .. 3 : Chunk(value, k) # 0 /\ E(k) = E(hw) /\ Low(value, k) = Low(value, hw)
      BY <1>2, <2>5, NextChunk
    <3> DEFINE imm == Chunk(value, k)
               low == Low(value, k)
    <3>2. /\ imm \in Nat /\ low \in 0 .. Shift(k) - 1
          /\ Low(value, k + 1) = low + imm * Shift(k)
      <4>1. /\ Chunk(value, k) \in 0 .. ChunkSize - 1
            /\ Low(value, k) \in 0 .. Shift(k) - 1
            /\ Low(value, k + 1) = Low(value, k) + Chunk(value, k) * Shift(k)
        BY <1>2, ChunksAddUp
      <4> QED  BY <4>1, Halves
    <3>3. low < Modulus /\ (E(k) = 0 => low = 0)
      <4>1. low \in 0 .. Modulus - 1 /\ (E(k) = 0 => low = 0)
        <5>1. CASE k = 0
          BY <5>1, Halves DEF Low
        <5>2. CASE k # 0
          <6> DEFINE j == k - 1
          <6>1. j \in 0 .. 3 /\ j + 1 = k
            BY <5>2
          <6>2. low \in 0 .. Modulus - 1
            BY <1>2, <6>1, ChunksAddUp
          <6>3. E(k) = 0 => low = 0
            <7>1. ASSUME E(k) = 0, NEW i \in 0 .. k - 1
                  PROVE  Low(value, i + 1) = Low(value, i)
              <8>1. Chunk(value, i) = 0 /\ i \in 0 .. 3
                BY <7>1, EmittedCounts
              <8> QED  BY <1>2, <8>1, ZeroAddsNothing
            <7>2. 2 + 1 = 3 /\ 1 + 1 = 2 /\ 0 + 1 = 1
              OBVIOUS
            <7>3. Low(value, 0) = 0
              BY DEF Low
            <7>4. E(k) = 0 => /\ k = 1 => Low(value, 1) = Low(value, 0)
                              /\ k = 2 => Low(value, 2) = Low(value, 1) /\ Low(value, 1) = Low(value, 0)
                              /\ k = 3 => /\ Low(value, 3) = Low(value, 2)
                                          /\ Low(value, 2) = Low(value, 1)
                                          /\ Low(value, 1) = Low(value, 0)
              BY <7>1, <7>2
            <7> QED  BY <5>2, <7>3, <7>4
          <6> QED  BY <6>2, <6>3
        <5> QED  BY <5>1, <5>2
      <4> QED  BY <4>1, Halves
    <3>4. pc \in 0 .. Len(code) - 1 /\ Here = MoveFor(rd, value, k)
      <4>1. E(hw) + 1 \in 1 .. Len(is) /\ is[E(hw) + 1] = MoveFor(rd, value, k)
        BY <2>1, <2>3, <2>5, <3>1
      <4> HIDE DEF E
      <4>2. code[base + (E(hw) + 1)] = MoveFor(rd, value, k)
        BY <1>4, <4>1 DEF Placed
      <4>3. base + E(hw) + 1 <= Len(code) /\ Len(code) \in Nat
        BY <1>4, <2>1, <2>3, <4>1 DEF Placed
      <4> QED  BY <2>2, <2>3, <4>2, <4>3 DEF Here
    <3>5. \/ Here = movz(rd, imm, k) /\ low = 0
          \/ Here = movk(rd, imm, k) /\ low < Modulus /\ x[rd] = Wrap(low)
      BY <2>2, <3>1, <3>3, <3>4 DEF MoveFor
    <3>6. /\ Defined /\ Allowed
          /\ Step => pc' = pc + 1 /\ Full' /\ KeepsBut(rd) /\ x'[rd] = Wrap(low + imm * Shift(k))
      <4> HIDE DEF imm, low
      <4> QED  BY <1>4, <3>2, <3>4, <3>5, MoveSets
    <3>7. E(k + 1) = E(hw) + 1 /\ k + 1 \in 0 .. 4
      BY <3>1, EmittedCounts DEF Takes
    <3>8. Loads64(rd, value, base)
      BY <2>1, <2>2, <2>3, <2>5, <3>6 DEF Loads64, is
    <3>9. ASSUME Step
          PROVE  Assembling(rd, value, base)' /\ KeepsBut(rd)
      <4>1. pc' = base + E(k + 1) /\ x'[rd] = Wrap(Low(value, k + 1))
        BY <2>2, <2>3, <3>2, <3>6, <3>7, <3>9
      <4>2. Placed(is, base)' /\ end' = "running" /\ Full'
        BY <1>4, <3>6, <3>9 DEF Placed, KeepsBut
      <4> QED  BY <3>6, <3>7, <3>9, <4>1, <4>2 DEF Assembling, is
    <3> QED  BY <1>1, <3>8, <3>9 DEF StepIn
  <2> QED  BY <2>4, <2>5
<1> QED  BY <1>5, <1>6

(* Every constant arrives: behind the code of mov_imm64, which skips the   *)
(* chunks of zero, the register holds the value whatever it held before,   *)
(* zero included, and nothing else has changed.                            *)
THEOREM ConstantsArrive ==
    ASSUME NEW rd \in Registers, NEW value \in Word, NEW base \in Nat
    PROVE  ConstantDue(rd, value, base) /\ [][StepIn(mov_imm64(rd, value), base)]_machine
               => []Loads64(rd, value, base) /\ [][KeepsBut(rd)]_machine
<1>1. ConstantDue(rd, value, base) => Assembling(rd, value, base)
  <2>1. Emitted(value, 0) = 0 /\ 0 \in 0 .. 4 /\ base + 0 = base
    BY EmittedCounts
  <2> QED  BY <2>1 DEF ConstantDue, Assembling
<1>2. Assembling(rd, value, base) /\ [StepIn(mov_imm64(rd, value), base)]_machine
          => Assembling(rd, value, base)' /\ [KeepsBut(rd)]_machine
  BY AssemblingFollows
<1>3. Assembling(rd, value, base) => Loads64(rd, value, base)
  BY AssemblingFollows
<1> QED  BY <1>1, <1>2, <1>3, PTL

-----------------------------------------------------------------------------
(* Frames *)

Remembers == mem = [a \in Addresses |-> mem[a]]

LEMMA StoreSets ==
    ASSUME Step, Here.op \in Stores
    PROVE  /\ pc' = pc + 1
           /\ mem' = [a \in Addresses |->
                         CASE a = Base(Here) -> Zr(Here.rt)
                           [] Here.op \in Pairs /\ a = Base(Here) + 8 -> Zr(Here.rt2)
                           [] OTHER -> mem[a]]
           /\ sp' = IF Here.op \in Before \cup After THEN sp + Here.imm ELSE sp
           /\ UNCHANGED <<code, x, flags, out, end>>
<1>1. Store
  BY Acting
<1> QED  BY <1>1 DEF Store, MovedSp, NextPc

LEMMA LoadSets ==
    ASSUME Step, Here.op \in Loads
    PROVE  /\ pc' = pc + 1
           /\ x' = [r \in Registers |->
                       CASE r = Here.rt -> mem[Base(Here)]
                         [] Here.op \in Pairs /\ r = Here.rt2 -> mem[Base(Here) + 8]
                         [] OTHER -> x[r]]
           /\ sp' = IF Here.op \in Before \cup After THEN sp + Here.imm ELSE sp
           /\ UNCHANGED <<code, flags, mem, out, end>>
<1>1. Load
  BY Acting
<1> QED  BY <1>1 DEF Load, MovedSp, NextPc

LEMMA AddressSets ==
    ASSUME Step, Here.op \in {"addi", "subi"}
    PROVE  /\ pc' = pc + 1
           /\ Here.rd = SP => UNCHANGED x
           /\ Here.rd # SP => UNCHANGED sp
           /\ Here.op = "addi" /\ Here.rd = SP => sp' = Sr(Here.rn) + Here.imm
           /\ Here.op = "subi" /\ Here.rd = SP => sp' = Sr(Here.rn) - Here.imm
           /\ Here.op = "addi" /\ Here.rd # SP =>
                  x' = [x EXCEPT ![Here.rd] = Sr(Here.rn) + Here.imm]
           /\ UNCHANGED <<code, flags, mem, out, end>>
<1>1. MoveAddress
  BY Acting
<1> QED  BY <1>1 DEF MoveAddress, Set, NextPc

(* A frame is large enough for its slots, and keeps sp aligned. *)
LEMMA FrameSize ==
    ASSUME NEW nslots \in Nat
    PROVE  /\ frame_size(nslots) \in Nat
           /\ frame_size(nslots) >= 8 * nslots
           /\ frame_size(nslots) < 8 * nslots + 16
           /\ \E k \in Nat : frame_size(nslots) = 16 * k
           /\ frame_size(nslots) > 0 <=> nslots > 0
<1> DEFINE n == nslots * 8 + 15
           k == n \div 16
<1>1. n \in Nat /\ k \in Int /\ n % 16 \in 0 .. 15 /\ n = 16 * k + (n % 16) /\ k >= 0
  OBVIOUS
<1>2. frame_size(nslots) = 16 * k
  <2>1. frame_size(nslots) = k * 16
    BY DEF frame_size
  <2> QED  BY <1>1, <2>1
<1>3. n = 8 * nslots + 15
  OBVIOUS
<1> HIDE DEF k, n
<1> QED  BY <1>1, <1>2, <1>3

(* The instructions of a prologue, one by one. *)
Opening(nslots) == IF nslots > 0 THEN 3 ELSE 2
Spill(nparams, slot) ==
    stur(IF slot < nparams THEN slot ELSE XZR, FP, slot_offset(slot))

LEMMA PrologueListed ==
    ASSUME NEW nparams \in Nat, NEW nslots \in Nat
    PROVE  LET is == Prologue(nparams, nslots)
               open == Opening(nslots)
           IN  /\ Len(is) = open + nslots
               /\ is[1] = stp_pre(FP, LR, SP, -16)
               /\ is[2] = add_imm(FP, SP, 0)
               /\ nslots > 0 => is[3] = sub_imm(SP, SP, frame_size(nslots))
               /\ \A slot \in 0 .. nslots - 1 : is[open + slot + 1] = Spill(nparams, slot)
<1> DEFINE i1 == stp_pre(FP, LR, SP, -16)
           i2 == add_imm(FP, SP, 0)
           i3 == sub_imm(SP, SP, frame_size(nslots))
           S == {i1, i2, i3} \cup {Spill(nparams, slot) : slot \in 0 .. nslots - 1}
           link == <<i1, i2>>
           frame == IF frame_size(nslots) > 0 THEN <<i3>> ELSE <<>>
           spills == [i \in 1 .. nslots |-> Spill(nparams, i - 1)]
           head == link \o frame
<1>1. link \in Seq(S) /\ Len(link) = 2 /\ link[1] = i1 /\ link[2] = i2
  OBVIOUS
<1>2. frame \in Seq(S) /\ Len(frame) = (IF nslots > 0 THEN 1 ELSE 0)
      /\ (nslots > 0 => frame[1] = i3)
  <2>1. CASE nslots > 0
    <3>1. frame = <<i3>> /\ i3 \in S
      BY <2>1, FrameSize
    <3> HIDE DEF i3, S, frame
    <3> QED  BY <2>1, <3>1
  <2>2. CASE ~(nslots > 0)
    <3>1. frame = <<>>
      BY <2>2, FrameSize
    <3> HIDE DEF S, frame
    <3> QED  BY <2>2, <3>1, EmptySeq
  <2> QED  BY <2>1, <2>2
<1>3. spills \in Seq(S) /\ Len(spills) = nslots
      /\ \A slot \in 0 .. nslots - 1 : spills[slot + 1] = Spill(nparams, slot)
  <2>1. \A i \in 1 .. nslots : i - 1 \in 0 .. nslots - 1
    OBVIOUS
  <2>2. spills \in [1 .. nslots -> S]
    BY <2>1
  <2>3. \A slot \in 0 .. nslots - 1 : slot + 1 \in 1 .. nslots /\ slot + 1 - 1 = slot
    OBVIOUS
  <2>4. \A slot \in 0 .. nslots - 1 : spills[slot + 1] = Spill(nparams, slot)
    BY <2>3
  <2> HIDE DEF S, spills
  <2> QED  BY <2>2, <2>4
<1>4. Prologue(nparams, nslots) = head \o spills
  <2>1. \A i \in 1 .. nslots : i <= nparams <=> i - 1 < nparams
    OBVIOUS
  <2>2. spills = [i \in 1 .. nslots |->
                     stur(IF i <= nparams THEN i - 1 ELSE XZR, FP, slot_offset(i - 1))]
    BY <2>1 DEF Spill
  <2> HIDE DEF spills
  <2> QED  BY <2>2 DEF Prologue
<1> HIDE DEF i1, i2, i3, S, link, frame, spills
<1>5. /\ head \in Seq(S) /\ Len(head) = Opening(nslots)
      /\ head[1] = i1 /\ head[2] = i2 /\ (nslots > 0 => head[3] = i3)
  <2>1. /\ head \in Seq(S) /\ Len(head) = Len(link) + Len(frame)
        /\ \A k \in 1 .. Len(link) : head[k] = link[k]
        /\ Len(frame) # 0 => head[Len(link) + 1] = frame[1]
    BY <1>1, <1>2, OneMore
  <2> QED  BY <1>1, <1>2, <2>1 DEF Opening
<1> HIDE DEF head
<1>6. Opening(nslots) \in {2, 3} /\ (nslots > 0 => Opening(nslots) = 3)
  BY DEF Opening
<1> DEFINE is == head \o spills
           open == Opening(nslots)
<1>7. /\ Len(is) = Len(head) + Len(spills)
      /\ \A k \in 1 .. Len(head) + Len(spills) :
             is[k] = IF k <= Len(head) THEN head[k] ELSE spills[k - Len(head)]
  BY <1>3, <1>5, ConcatProperties
<1> HIDE DEF is
<1>8. /\ Len(is) = open + nslots
      /\ is[1] = i1 /\ is[2] = i2 /\ (nslots > 0 => is[3] = i3)
  BY <1>3, <1>5, <1>6, <1>7
<1>9. \A slot \in 0 .. nslots - 1 : is[open + slot + 1] = Spill(nparams, slot)
  <2> HIDE DEF open
  <2>1. open \in 2 .. 3 /\ Len(head) = open
    BY <1>5, <1>6 DEF open
  <2>2. \A slot \in 0 .. nslots - 1 : /\ open + slot + 1 \in 1 .. open + nslots
                                      /\ ~(open + slot + 1 <= open)
                                      /\ open + slot + 1 - open = slot + 1
    BY <2>1
  <2>3. ASSUME NEW slot \in 0 .. nslots - 1
        PROVE  is[open + slot + 1] = spills[slot + 1]
    <3> DEFINE k == open + slot + 1
    <3>1. k \in 1 .. Len(head) + Len(spills) /\ ~(k <= Len(head)) /\ k - Len(head) = slot + 1
      BY <1>3, <2>1, <2>2
    <3> HIDE DEF k
    <3>2. is[k] = spills[slot + 1]
      BY <1>7, <3>1
    <3> QED  BY <3>2 DEF k
  <2> QED  BY <1>3, <2>3
<1> QED  BY <1>4, <1>8, <1>9 DEF i1, i2, i3, is

(* A call: the stack pointer, link and memory it comes with, its arguments *)
(* in x0 to x7, and room on the stack for a frame of so many slots.        *)
RoomFor(e, nslots) ==
    /\ \E t \in Nat : e.sp = 16 * t
    /\ e.sp >= 16 + frame_size(nslots)
    /\ e.sp <= 8 * StackWords

Entered(e, nparams, nslots, base) ==
    /\ Placed(Prologue(nparams, nslots), base)
    /\ pc = base
    /\ end = "running"
    /\ Full
    /\ Remembers
    /\ sp = e.sp /\ x[FP] = e.fp /\ x[LR] = e.lr /\ mem = e.mem
    /\ \A i \in 0 .. nparams - 1 : x[i] = e.args[i]

(* The caller's link at the frame pointer, its memory as it was, every slot *)
(* between the two pointers: the parameters first, the other locals zero.   *)
Linked(e) ==
    /\ mem[e.sp - 16] = e.fp
    /\ mem[e.sp - 8] = e.lr
    /\ \A a \in Addresses : a >= e.sp => mem[a] = e.mem[a]

Filled(e, nparams, slot) ==
    mem[x[FP] + slot_offset(slot)] = IF slot < nparams THEN e.args[slot] ELSE 0

FrameOf(e, nparams, nslots) ==
    /\ sp = e.sp - 16 - frame_size(nslots) /\ sp % 16 = 0
    /\ x[FP] = e.sp - 16
    /\ Linked(e)
    /\ \A slot \in 0 .. nslots - 1 :
           x[FP] + slot_offset(slot) \in sp .. x[FP] - 8 /\ Filled(e, nparams, slot)

MakesFrame(e, nparams, nslots, base) ==
    LET size == Len(Prologue(nparams, nslots))
    IN  /\ pc - base \in 0 .. size
        /\ pc < base + size => Defined /\ Allowed
        /\ pc = base + size => FrameOf(e, nparams, nslots)

(* The stages of a prologue. *)
Framing(e, nparams, nslots, base) ==
    /\ Placed(Prologue(nparams, nslots), base)
    /\ end = "running"
    /\ Full
    /\ Remembers
    /\ \A i \in 0 .. nparams - 1 : x[i] = e.args[i]
    /\ \/ /\ pc = base
          /\ sp = e.sp /\ x[FP] = e.fp /\ x[LR] = e.lr /\ mem = e.mem
       \/ pc = base + 1 /\ sp = e.sp - 16 /\ Linked(e)
       \/ pc = base + 2 /\ sp = e.sp - 16 /\ x[FP] = e.sp - 16 /\ Linked(e)
       \/ /\ pc \in Nat /\ pc - base - Opening(nslots) \in 0 .. nslots
          /\ sp = e.sp - 16 - frame_size(nslots) /\ x[FP] = e.sp - 16 /\ Linked(e)
          /\ \A slot \in 0 .. pc - base - Opening(nslots) - 1 : Filled(e, nparams, slot)

(* The words of a frame are addresses of the stack. *)
LEMMA FrameInStack ==
    ASSUME NEW nslots \in Nat, NEW e, RoomFor(e, nslots)
    PROVE  /\ e.sp \in Int /\ e.sp % 16 = 0 /\ (e.sp - 16) % 16 = 0
           /\ (e.sp - 16 - frame_size(nslots)) % 16 = 0
           /\ e.sp - 16 \in Addresses /\ e.sp - 8 \in Addresses
           /\ \A slot \in 0 .. nslots - 1 :
                  /\ slot_offset(slot) = -8 * slot - 8
                  /\ e.sp - 16 + slot_offset(slot) \in Addresses
                  /\ e.sp - 16 + slot_offset(slot)
                         \in e.sp - 16 - frame_size(nslots) .. e.sp - 24
<1>1. PICK t \in Nat : e.sp = 16 * t
  BY DEF RoomFor
<1>2. PICK k \in Nat : frame_size(nslots) = 16 * k
  BY FrameSize
<1>3. /\ 16 * t >= 16 + 16 * k /\ 16 * t <= 8 * StackWords /\ StackWords \in Nat
      /\ 16 * k >= 8 * nslots
  BY <1>1, <1>2, FrameSize, StackHasWords DEF RoomFor
<1>4. \A j \in Int : j >= 0 /\ j < StackWords => 8 * j \in Addresses
  BY <1>3 DEF Addresses
<1>5. e.sp - 16 = 8 * (2 * t - 2) /\ e.sp - 8 = 8 * (2 * t - 1)
  BY <1>1
<1>6. e.sp - 16 \in Addresses /\ e.sp - 8 \in Addresses
  <2>1. 2 * t - 2 \in Int /\ 2 * t - 2 >= 0 /\ 2 * t - 2 < StackWords
        /\ 2 * t - 1 \in Int /\ 2 * t - 1 >= 0 /\ 2 * t - 1 < StackWords
    BY <1>3
  <2> QED  BY <1>4, <1>5, <2>1
<1>7. ASSUME NEW slot \in 0 .. nslots - 1
      PROVE  /\ slot_offset(slot) = -8 * slot - 8
             /\ e.sp - 16 + slot_offset(slot) \in Addresses
             /\ e.sp - 16 + slot_offset(slot) \in e.sp - 16 - frame_size(nslots) .. e.sp - 24
  <2>1. slot_offset(slot) = -8 * slot - 8
    BY DEF slot_offset
  <2>2. e.sp - 16 + slot_offset(slot) = 8 * (2 * t - 3 - slot)
    BY <1>1, <2>1
  <2>3. 2 * t - 3 - slot \in Int /\ 2 * t - 3 - slot >= 0 /\ 2 * t - 3 - slot < StackWords
    BY <1>3
  <2>4. e.sp - 16 + slot_offset(slot) \in Addresses
    BY <1>4, <2>2, <2>3
  <2>5. 16 * t - 16 + (-8 * slot - 8) \in 16 * t - 16 - 16 * k .. 16 * t - 24
    BY <1>3
  <2>6. e.sp - 16 + slot_offset(slot) \in e.sp - 16 - frame_size(nslots) .. e.sp - 24
    BY <1>1, <1>2, <2>1, <2>5
  <2> QED  BY <2>1, <2>4, <2>6
<1>8. (16 * t) % 16 = 0 /\ (16 * t - 16) % 16 = 0 /\ (16 * t - 16 - 16 * k) % 16 = 0
  OBVIOUS
<1> QED  BY <1>1, <1>2, <1>6, <1>7, <1>8

(* The pair is saved, ... *)
LEMMA LinkStep ==
    ASSUME NEW nparams \in 0 .. 8, NEW nslots \in Nat, NEW e, RoomFor(e, nslots),
           NEW base \in Nat, Framing(e, nparams, nslots, base), pc = base
    PROVE  Defined /\ Allowed /\ (Step => Framing(e, nparams, nslots, base)')
<1> DEFINE is == Prologue(nparams, nslots)
<1>1. Len(is) \in Nat /\ Len(is) >= 2 /\ is[1] = stp_pre(FP, LR, SP, -16)
  <2>1. nparams \in Nat
    OBVIOUS
  <2>2. Len(is) = Opening(nslots) + nslots /\ is[1] = stp_pre(FP, LR, SP, -16)
    BY <2>1, PrologueListed
  <2> HIDE DEF is
  <2> QED  BY <2>2 DEF Opening
<1>2. Placed(is, base) /\ Full /\ Remembers
      /\ sp = e.sp /\ x[FP] = e.fp /\ x[LR] = e.lr /\ mem = e.mem
      /\ \A i \in 0 .. nparams - 1 : x[i] = e.args[i]
  BY DEF Framing, Opening
<1> HIDE DEF is
<1>3. pc \in 0 .. Len(code) - 1 /\ Here = stp_pre(FP, LR, SP, -16)
  BY <1>1, <1>2 DEF Placed, Here
<1>4. /\ Here.op = "stp_pre" /\ Here.op \in Stores /\ Here.op \in Pairs
      /\ Here.op \in Before /\ Here.op \notin After
      /\ Sr(Here.rn) = sp /\ Here.imm = -16
      /\ Zr(Here.rt) = e.fp /\ Zr(Here.rt2) = e.lr
  BY <1>2, <1>3 DEF stp_pre, Stores, Pairs, Before, After, Sr, Zr, FP, LR, SP, XZR
<1>5. /\ e.sp \in Int /\ e.sp % 16 = 0 /\ e.sp - 16 \in Addresses /\ e.sp - 8 \in Addresses
  BY FrameInStack
<1>6. Base(Here) = e.sp - 16 /\ Base(Here) + 8 = e.sp - 8
  BY <1>2, <1>4, <1>5 DEF Base
<1>7. Defined
  <2>1. Consumed(Here) = {sp}
    BY <1>4, Consuming
  <2> QED  BY <1>2, <1>3, <1>5, <2>1, JunkIsNoValue DEF Defined
<1>8. Allowed
  <2>1. Touched(Here) = {e.sp - 16, e.sp - 8}
    BY <1>4, <1>6 DEF Touched
  <2> QED  BY <1>2, <1>4, <1>5, <2>1 DEF Allowed
<1>9. ASSUME Step
      PROVE  Framing(e, nparams, nslots, base)'
  <2>1. /\ pc' = base + 1 /\ sp' = e.sp - 16
        /\ UNCHANGED <<code, x, end>>
        /\ mem' = [a \in Addresses |-> CASE a = e.sp - 16 -> e.fp
                                         [] a = e.sp - 8 -> e.lr
                                         [] OTHER -> mem[a]]
    BY <1>2, <1>4, <1>5, <1>6, <1>9, StoreSets
  <2>2. Linked(e)'
    BY <1>2, <1>5, <2>1 DEF Linked
  <2>3. Remembers'
    BY <2>1 DEF Remembers
  <2>4. Placed(is, base)' /\ Full' /\ end' = "running"
        /\ \A i \in 0 .. nparams - 1 : x'[i] = e.args[i]
    BY <1>2, <2>1 DEF Placed, Full, Framing
  <2> QED  BY <2>1, <2>2, <2>3, <2>4 DEF Framing, is
<1> QED  BY <1>7, <1>8, <1>9

(* ... the frame pointer set, ... *)
LEMMA PointerStep ==
    ASSUME NEW nparams \in 0 .. 8, NEW nslots \in Nat, NEW e, RoomFor(e, nslots),
           NEW base \in Nat, Framing(e, nparams, nslots, base), pc = base + 1
    PROVE  Defined /\ Allowed /\ (Step => Framing(e, nparams, nslots, base)')
<1> DEFINE is == Prologue(nparams, nslots)
<1>1. Len(is) \in Nat /\ Len(is) >= 2 /\ is[2] = add_imm(FP, SP, 0)
  <2>1. nparams \in Nat
    OBVIOUS
  <2>2. Len(is) = Opening(nslots) + nslots /\ is[2] = add_imm(FP, SP, 0)
    BY <2>1, PrologueListed
  <2> HIDE DEF is
  <2> QED  BY <2>2 DEF Opening
<1>2. /\ Placed(is, base) /\ Full /\ Remembers /\ end = "running"
      /\ sp = e.sp - 16 /\ Linked(e)
      /\ \A i \in 0 .. nparams - 1 : x[i] = e.args[i]
  <2>1. Opening(nslots) \in 2 .. 3
    BY DEF Opening
  <2> QED  BY <2>1 DEF Framing
<1> HIDE DEF is
<1>3. pc \in 0 .. Len(code) - 1 /\ Here = add_imm(FP, SP, 0)
  <2>1. 2 \in 1 .. Len(is) /\ pc + 1 = base + 2
    BY <1>1
  <2> QED  BY <1>1, <1>2, <2>1 DEF Placed, Here
<1>4. /\ Here.op = "addi" /\ Here.op \in {"addi", "subi"}
      /\ Here.rd = FP /\ Here.rd # SP /\ Here.imm = 0 /\ Sr(Here.rn) = sp
      /\ Here.op \notin Pairs /\ Here.op \notin Stores \cup Loads
  BY <1>3 DEF add_imm, Stores, Loads, Pairs, Sr, FP, SP
<1>5. e.sp \in Int /\ sp \in Int
  BY <1>2, FrameInStack
<1>6. Defined
  <2>1. Consumed(Here) = {sp}
    BY <1>4, Consuming
  <2> QED  BY <1>3, <1>5, <2>1, JunkIsNoValue DEF Defined
<1>7. Allowed
  BY <1>4 DEF Allowed, Touched
<1>8. ASSUME Step
      PROVE  Framing(e, nparams, nslots, base)'
  <2>1. /\ pc' = base + 2 /\ x' = [x EXCEPT ![FP] = e.sp - 16]
        /\ UNCHANGED <<code, sp, mem, end>>
    BY <1>2, <1>4, <1>5, <1>8, AddressSets
  <2>2. Linked(e)' /\ Remembers' /\ Placed(is, base)'
    BY <1>2, <2>1 DEF Linked, Remembers, Placed
  <2>3. Full' /\ x'[FP] = e.sp - 16 /\ \A i \in 0 .. nparams - 1 : x'[i] = e.args[i]
    <3>1. FP \in Registers /\ \A i \in 0 .. nparams - 1 : i \in Registers /\ i # FP
      BY DEF Registers, FP
    <3>2. x'[FP] = e.sp - 16 /\ \A i \in Registers : i # FP => x'[i] = x[i]
      BY <1>2, <2>1, <3>1 DEF Full
    <3>3. Full'
      BY <1>2, <2>1 DEF Full
    <3> QED  BY <1>2, <3>1, <3>2, <3>3
  <2> QED  BY <1>2, <2>1, <2>2, <2>3 DEF Framing, is
<1> QED  BY <1>6, <1>7, <1>8

(* ... the slots given room, if there are any, ... *)
LEMMA RoomStep ==
    ASSUME NEW nparams \in 0 .. 8, NEW nslots \in Nat, NEW e, RoomFor(e, nslots),
           NEW base \in Nat, Framing(e, nparams, nslots, base), pc = base + 2, nslots > 0
    PROVE  Defined /\ Allowed /\ (Step => Framing(e, nparams, nslots, base)')
<1> DEFINE is == Prologue(nparams, nslots)
           size == frame_size(nslots)
<1>1. Len(is) \in Nat /\ Len(is) >= 3 /\ is[3] = sub_imm(SP, SP, size)
  <2>1. nparams \in Nat
    OBVIOUS
  <2>2. Len(is) = Opening(nslots) + nslots /\ is[3] = sub_imm(SP, SP, size)
    BY <2>1, PrologueListed
  <2> HIDE DEF is
  <2> QED  BY <2>2 DEF Opening
<1>2. /\ Placed(is, base) /\ Full /\ Remembers /\ end = "running"
      /\ sp = e.sp - 16 /\ x[FP] = e.sp - 16 /\ Linked(e)
      /\ \A i \in 0 .. nparams - 1 : x[i] = e.args[i]
  <2>1. Opening(nslots) = 3
    BY DEF Opening
  <2> QED  BY <2>1 DEF Framing
<1> HIDE DEF is
<1>3. pc \in 0 .. Len(code) - 1 /\ Here = sub_imm(SP, SP, size)
  <2>1. 3 \in 1 .. Len(is) /\ pc + 1 = base + 3
    BY <1>1
  <2> QED  BY <1>1, <1>2, <2>1 DEF Placed, Here
<1>4. /\ Here.op = "subi" /\ Here.op \in {"addi", "subi"}
      /\ Here.rd = SP /\ Here.imm = size /\ Sr(Here.rn) = sp
      /\ Here.op \notin Pairs /\ Here.op \notin Stores \cup Loads
  BY <1>3 DEF sub_imm, Stores, Loads, Pairs, Sr, SP
<1>5. e.sp \in Int /\ sp \in Int /\ size \in Nat
  <2>1. e.sp \in Int
    BY FrameInStack
  <2>2. size \in Nat
    BY FrameSize
  <2> QED  BY <1>2, <2>1, <2>2
<1> HIDE DEF size
<1>6. Defined
  <2>1. Consumed(Here) = {sp}
    BY <1>4, Consuming
  <2> QED  BY <1>3, <1>5, <2>1, JunkIsNoValue DEF Defined
<1>7. Allowed
  BY <1>4 DEF Allowed, Touched
<1>8. ASSUME Step
      PROVE  Framing(e, nparams, nslots, base)'
  <2>1. /\ pc' = base + 3 /\ sp' = e.sp - 16 - size
        /\ UNCHANGED <<code, x, mem, end>>
    BY <1>2, <1>4, <1>5, <1>8, AddressSets
  <2>2. Linked(e)' /\ Remembers' /\ Placed(is, base)' /\ Full'
    BY <1>2, <2>1 DEF Linked, Remembers, Placed, Full
  <2>3. /\ pc' \in Nat /\ pc' - base - Opening(nslots) = 0
        /\ 0 \in 0 .. nslots
        /\ \A slot \in 0 .. 0 - 1 : Filled(e, nparams, slot)'
    BY <2>1 DEF Opening
  <2> QED  BY <1>2, <2>1, <2>2, <2>3 DEF Framing, is, size
<1> QED  BY <1>6, <1>7, <1>8

(* ... and the slots filled, one at a time. *)
LEMMA SpillStep ==
    ASSUME NEW nparams \in 0 .. 8, NEW nslots \in Nat, NEW e, RoomFor(e, nslots),
           NEW base \in Nat, Framing(e, nparams, nslots, base),
           NEW slot \in 0 .. nslots - 1, pc = base + Opening(nslots) + slot
    PROVE  Defined /\ Allowed /\ (Step => Framing(e, nparams, nslots, base)')
<1> DEFINE is == Prologue(nparams, nslots)
           open == Opening(nslots)
<1>0. open = 3 /\ nslots > 0
  BY DEF Opening
<1>1. Len(is) = 3 + nslots /\ is[3 + slot + 1] = Spill(nparams, slot)
  <2>1. nparams \in Nat
    OBVIOUS
  <2>2. /\ Len(is) = open + nslots
        /\ \A s \in 0 .. nslots - 1 : is[open + s + 1] = Spill(nparams, s)
    BY <2>1, PrologueListed
  <2> HIDE DEF is, open
  <2> QED  BY <1>0, <2>2
<1>2. /\ Placed(is, base) /\ Full /\ Remembers /\ end = "running"
      /\ sp = e.sp - 16 - frame_size(nslots) /\ x[FP] = e.sp - 16 /\ Linked(e)
      /\ \A i \in 0 .. nparams - 1 : x[i] = e.args[i]
      /\ \A s \in 0 .. slot - 1 : Filled(e, nparams, s)
  <2>1. pc - base - Opening(nslots) = slot /\ pc # base /\ pc # base + 1 /\ pc # base + 2
    BY <1>0
  <2> QED  BY <2>1 DEF Framing
<1> HIDE DEF is
<1>3. pc \in 0 .. Len(code) - 1 /\ Here = Spill(nparams, slot)
  <2> DEFINE k == 3 + slot + 1
  <2>1. k \in 1 .. Len(is) /\ pc + 1 = base + k /\ k \in Nat
    BY <1>0, <1>1
  <2>2. is[k] = Spill(nparams, slot)
    BY <1>1
  <2> HIDE DEF k
  <2>3. code[base + k] = is[k] /\ base + Len(is) <= Len(code)
    BY <1>2, <2>1 DEF Placed
  <2>4. Len(is) \in Nat /\ Len(code) \in Nat
    BY <1>1, <1>2 DEF Placed
  <2>5. pc \in 0 .. Len(code) - 1
    BY <1>0, <2>1, <2>3, <2>4
  <2> QED  BY <2>1, <2>2, <2>3, <2>5 DEF Here
<1>4. /\ Here.op = "stur" /\ Here.op \in Stores /\ Here.op \notin Pairs
      /\ Here.op \notin Before /\ Here.op \notin After
      /\ Here.rn = FP /\ Here.imm = slot_offset(slot)
      /\ Here.rt = IF slot < nparams THEN slot ELSE XZR
  BY <1>3 DEF Spill, stur, Stores, Pairs, Before, After
<1>5. Sr(Here.rn) = e.sp - 16
  BY <1>2, <1>4 DEF Sr, FP, SP
<1>6. Zr(Here.rt) = IF slot < nparams THEN e.args[slot] ELSE 0
  <2>1. CASE slot < nparams
    <3>1. slot \in 0 .. nparams - 1 /\ Here.rt = slot /\ slot # XZR
      BY <1>4, <2>1 DEF XZR
    <3> QED  BY <1>2, <2>1, <3>1 DEF Zr
  <2>2. CASE ~(slot < nparams)
    BY <1>4, <2>2 DEF Zr
  <2> QED  BY <2>1, <2>2
<1>7. /\ e.sp \in Int
      /\ slot_offset(slot) = -8 * slot - 8
      /\ e.sp - 16 + slot_offset(slot) \in Addresses
  BY FrameInStack
<1> DEFINE a == e.sp - 16 + slot_offset(slot)
<1>8. Base(Here) = a /\ e.sp - 16 \in Int
  BY <1>4, <1>5, <1>7 DEF Base
<1>9. Defined
  <2>1. Consumed(Here) = {e.sp - 16}
    BY <1>4, <1>5, Consuming
  <2> QED  BY <1>3, <1>8, <2>1, JunkIsNoValue DEF Defined
<1>10. Allowed
  <2>1. Touched(Here) = {a}
    BY <1>4, <1>8 DEF Touched
  <2> QED  BY <1>4, <1>7, <2>1 DEF Allowed
<1>11. ASSUME Step
       PROVE  Framing(e, nparams, nslots, base)'
  <2>1. /\ pc' = pc + 1 /\ UNCHANGED <<code, x, sp, end>>
        /\ mem' = [w \in Addresses |-> IF w = a THEN Zr(Here.rt) ELSE mem[w]]
    BY <1>4, <1>8, <1>11, StoreSets
  <2>2. a < e.sp - 16
    BY <1>7
  <2>3. Linked(e)'
    <3>1. e.sp - 16 \in Addresses /\ e.sp - 8 \in Addresses
      BY FrameInStack
    <3>2. e.sp - 16 # a /\ e.sp - 8 # a /\ \A w \in Addresses : w >= e.sp => w # a
      <4> HIDE DEF a
      <4>1. a \in Int /\ \A w \in Addresses : w \in Int
        BY <1>7, StackHasWords DEF Addresses, a
      <4> QED  BY <1>7, <2>2, <4>1
    <3> HIDE DEF a
    <3> QED  BY <1>2, <2>1, <3>1, <3>2 DEF Linked
  <2>4. Remembers' /\ Placed(is, base)' /\ Full' /\ end' = "running"
    BY <1>2, <2>1 DEF Remembers, Placed, Full
  <2>5. \A s \in 0 .. slot : Filled(e, nparams, s)'
    <3>1. ASSUME NEW s \in 0 .. slot - 1
          PROVE  Filled(e, nparams, s)'
      <4>1. s \in 0 .. nslots - 1 /\ s # slot
        OBVIOUS
      <4>2. slot_offset(s) = -8 * s - 8 /\ e.sp - 16 + slot_offset(s) \in Addresses
        BY <4>1, FrameInStack
      <4>3. e.sp - 16 + slot_offset(s) # a
        BY <1>7, <4>1, <4>2
      <4>4. mem[e.sp - 16 + slot_offset(s)] = IF s < nparams THEN e.args[s] ELSE 0
        BY <1>2 DEF Filled
      <4> HIDE DEF a
      <4> QED  BY <1>2, <2>1, <4>2, <4>3, <4>4 DEF Filled
    <3>2. Filled(e, nparams, slot)'
      BY <1>2, <1>6, <1>7, <2>1 DEF Filled
    <3>3. \A s \in 0 .. slot : s \in 0 .. slot - 1 \/ s = slot
      OBVIOUS
    <3> QED  BY <3>1, <3>2, <3>3
  <2>6. /\ pc' \in Nat /\ pc' - base - Opening(nslots) = slot + 1 /\ slot + 1 \in 0 .. nslots
        /\ slot + 1 - 1 = slot
    BY <1>0, <2>1
  <2>7. \A s \in 0 .. pc' - base - Opening(nslots) - 1 : Filled(e, nparams, s)'
    BY <2>5, <2>6
  <2>8. /\ sp' = e.sp - 16 - frame_size(nslots) /\ x'[FP] = e.sp - 16
        /\ \A i \in 0 .. nparams - 1 : x'[i] = e.args[i]
    BY <1>2, <2>1
  <2> QED  BY <2>3, <2>4, <2>6, <2>7, <2>8 DEF Framing, is
<1> QED  BY <1>9, <1>10, <1>11

LEMMA FramingFollows ==
    ASSUME NEW nparams \in 0 .. 8, NEW nslots \in Nat, NEW e, RoomFor(e, nslots),
           NEW base \in Nat, Framing(e, nparams, nslots, base)
    PROVE  /\ MakesFrame(e, nparams, nslots, base)
           /\ [StepIn(Prologue(nparams, nslots), base)]_machine
                  => Framing(e, nparams, nslots, base)'
<1> DEFINE is == Prologue(nparams, nslots)
           open == Opening(nslots)
<1>1. Len(is) = open + nslots
  <2>1. nparams \in Nat
    OBVIOUS
  <2> QED  BY <2>1, PrologueListed
<1>2. open \in 2 .. 3 /\ (open = 3 <=> nslots > 0)
  BY DEF Opening
<1>3. ASSUME UNCHANGED machine
      PROVE  Framing(e, nparams, nslots, base)'
  BY <1>3 DEF Framing, machine, Placed, Full, Remembers, Linked, Filled
<1> HIDE DEF is
<1>4. \/ pc = base
      \/ pc = base + 1
      \/ pc = base + 2 /\ nslots > 0
      \/ \E slot \in 0 .. nslots - 1 : pc = base + open + slot
      \/ pc = base + Len(is)
  <2>1. CASE pc - base - open \in 0 .. nslots /\ pc \in Nat
    <3> DEFINE slot == pc - base - open
    <3> HIDE DEF open
    <3>1. pc = base + open + slot
      BY <1>2, <2>1
    <3>2. slot \in 0 .. nslots - 1 \/ slot = nslots
      BY <2>1
    <3> HIDE DEF slot
    <3>3. base + open + nslots = base + Len(is)
      BY <1>1, <1>2
    <3> QED  BY <3>1, <3>2, <3>3
  <2>2. CASE pc = base + 2 /\ ~(nslots > 0)
    <3>1. nslots = 0 /\ open = 2
      BY <1>2, <2>2
    <3> QED  BY <1>1, <2>2, <3>1
  <2>3. \/ pc = base \/ pc = base + 1 \/ pc = base + 2
        \/ pc - base - open \in 0 .. nslots /\ pc \in Nat
    BY DEF Framing
  <2> QED  BY <2>1, <2>2, <2>3
<1>5. ASSUME \/ pc = base
             \/ pc = base + 1
             \/ pc = base + 2 /\ nslots > 0
             \/ \E slot \in 0 .. nslots - 1 : pc = base + open + slot
      PROVE  /\ Defined /\ Allowed /\ (Step => Framing(e, nparams, nslots, base)')
             /\ pc - base \in 0 .. Len(is) - 1
  <2>1. Defined /\ Allowed /\ (Step => Framing(e, nparams, nslots, base)')
    BY <1>5, LinkStep, PointerStep, RoomStep, SpillStep
  <2>2. pc - base \in 0 .. Len(is) - 1
    BY <1>1, <1>2, <1>5
  <2> QED  BY <2>1, <2>2
<1>6. ASSUME pc = base + Len(is)
      PROVE  FrameOf(e, nparams, nslots)
  <2>1. pc - base - open = nslots /\ pc # base /\ pc # base + 1
        /\ (pc = base + 2 => nslots = 0 /\ open = 2)
    BY <1>1, <1>2, <1>6
  <2>2. /\ sp = e.sp - 16 - frame_size(nslots) /\ x[FP] = e.sp - 16 /\ Linked(e)
        /\ \A slot \in 0 .. nslots - 1 : Filled(e, nparams, slot)
    <3>1. CASE pc = base + 2
      <4>1. frame_size(nslots) = 0 /\ nslots = 0
        <5>1. frame_size(nslots) \in Nat /\ ~(frame_size(nslots) > 0)
          BY <2>1, <3>1, FrameSize
        <5> QED  BY <2>1, <3>1, <5>1
      <4>2. e.sp \in Int
        BY FrameInStack
      <4> QED  BY <2>1, <3>1, <4>1, <4>2 DEF Framing
    <3>2. CASE pc # base + 2
      BY <2>1, <3>2 DEF Framing
    <3> QED  BY <3>1, <3>2
  <2>3. sp % 16 = 0 /\ e.sp \in Int
        /\ \A slot \in 0 .. nslots - 1 :
               e.sp - 16 + slot_offset(slot) \in e.sp - 16 - frame_size(nslots) .. e.sp - 24
    BY <2>2, FrameInStack
  <2>4. e.sp - 16 - 8 = e.sp - 24
    BY <2>3
  <2> QED  BY <2>2, <2>3, <2>4 DEF FrameOf
<1>7. CASE pc = base + Len(is)
  <2>1. pc - base = Len(is) /\ Len(is) \in Nat /\ base \in Nat
    BY <1>1, <1>2, <1>7
  <2>2. MakesFrame(e, nparams, nslots, base)
    BY <1>6, <1>7, <2>1 DEF MakesFrame, is
  <2>3. ~StepIn(is, base)
    BY <2>1 DEF StepIn
  <2> QED  BY <1>3, <2>2, <2>3 DEF is
<1>8. CASE pc # base + Len(is)
  <2>1. /\ Defined /\ Allowed /\ (Step => Framing(e, nparams, nslots, base)')
        /\ pc - base \in 0 .. Len(is) - 1
    BY <1>4, <1>5, <1>8
  <2>2. Len(is) \in Nat
    BY <1>1, <1>2
  <2>3. MakesFrame(e, nparams, nslots, base)
    BY <1>8, <2>1, <2>2 DEF MakesFrame, is
  <2> QED  BY <1>3, <2>1, <2>3 DEF StepIn, is
<1> QED  BY <1>7, <1>8

(* Every frame is made: behind the prologue of a function of up to eight   *)
(* parameters and any number of slots, each parameter is in its slot,      *)
(* every other slot is zero, the slots, distinct words, lie between an     *)
(* aligned sp and the saved link, and the caller's memory is untouched.    *)
THEOREM FramesAreMade ==
    ASSUME NEW nparams \in 0 .. 8, NEW nslots \in Nat, NEW e, RoomFor(e, nslots),
           NEW base \in Nat
    PROVE  Entered(e, nparams, nslots, base)
               /\ [][StepIn(Prologue(nparams, nslots), base)]_machine
               => []MakesFrame(e, nparams, nslots, base)
<1>1. Entered(e, nparams, nslots, base) => Framing(e, nparams, nslots, base)
  BY DEF Entered, Framing
<1>2. Framing(e, nparams, nslots, base) /\ [StepIn(Prologue(nparams, nslots), base)]_machine
          => Framing(e, nparams, nslots, base)'
  BY FramingFollows
<1>3. Framing(e, nparams, nslots, base) => MakesFrame(e, nparams, nslots, base)
  BY FramingFollows
<1> QED  BY <1>1, <1>2, <1>3, PTL

(* A frame to leave: x29 at the saved link of a call that goes back to     *)
(* elsewhere, wherever sp is.                                              *)
Leaving(e, base) ==
    /\ Placed(gen_epilogue, base)
    /\ pc = base
    /\ Full
    /\ x[FP] = e.sp - 16
    /\ mem[e.sp - 16] = e.fp
    /\ mem[e.sp - 8] = e.lr
    /\ RoomFor(e, 0)
    /\ e.lr \in Int \ (base .. base + 2)

(* Back where the call came from, with its stack and frame pointers. *)
LeavesFrame(e, base) ==
    /\ pc \in base .. base + 2 => Defined /\ Allowed
    /\ pc \notin base .. base + 2 => pc = e.lr /\ sp = e.sp /\ x[FP] = e.fp /\ x[LR] = e.lr

KeepsResult == UNCHANGED mem /\ \A r \in 0 .. 7 : x'[r] = x[r]

(* The stages of an epilogue. *)
Unwinding(e, base) ==
    /\ Placed(gen_epilogue, base)
    /\ Full
    /\ mem[e.sp - 16] = e.fp
    /\ mem[e.sp - 8] = e.lr
    /\ RoomFor(e, 0)
    /\ e.lr \in Int \ (base .. base + 2)
    /\ \/ pc = base /\ x[FP] = e.sp - 16
       \/ pc = base + 1 /\ sp = e.sp - 16
       \/ pc \in {base + 2, e.lr} /\ sp = e.sp /\ x[FP] = e.fp /\ x[LR] = e.lr

LEMMA UnwindingFollows ==
    ASSUME NEW e, NEW base \in Nat, Unwinding(e, base)
    PROVE  /\ LeavesFrame(e, base)
           /\ [StepIn(gen_epilogue, base)]_machine => Unwinding(e, base)' /\ [KeepsResult]_machine
<1> DEFINE is == gen_epilogue
<1>1. /\ Len(is) = 3
      /\ is[1] = add_imm(SP, FP, 0) /\ is[2] = ldp_post(FP, LR, SP, 16) /\ is[3] = ret
  <2>1. \A i1, i2, i3 : LET s == <<i1, i2, i3>>
                        IN  Len(s) = 3 /\ s[1] = i1 /\ s[2] = i2 /\ s[3] = i3
    OBVIOUS
  <2> QED  BY <2>1 DEF gen_epilogue
<1> HIDE DEF is
<1>2. /\ Placed(is, base) /\ Full /\ mem[e.sp - 16] = e.fp /\ mem[e.sp - 8] = e.lr
      /\ e.lr \in Int /\ e.lr \notin base .. base + 2 /\ RoomFor(e, 0)
  BY DEF Unwinding, is
<1>3. /\ e.sp \in Int /\ (e.sp - 16) % 16 = 0
      /\ e.sp - 16 \in Addresses /\ e.sp - 8 \in Addresses
  <2>1. 0 \in Nat
    OBVIOUS
  <2> QED  BY <1>2, <2>1, FrameInStack
<1>4. /\ Len(code) \in Nat /\ base + 3 <= Len(code)
      /\ code[base + 1] = is[1] /\ code[base + 2] = is[2] /\ code[base + 3] = is[3]
  <2>1. 1 \in 1 .. Len(is) /\ 2 \in 1 .. Len(is) /\ 3 \in 1 .. Len(is)
    BY <1>1
  <2> QED  BY <1>1, <1>2, <2>1 DEF Placed
<1>5. FP \in Registers /\ LR \in Registers /\ FP # LR /\ FP # SP
      /\ \A r \in 0 .. 7 : r \in Registers /\ r # FP /\ r # LR
  BY DEF Registers, FP, LR, SP
<1>6. ASSUME pc = base, x[FP] = e.sp - 16
      PROVE  /\ Defined /\ Allowed
             /\ Step => /\ pc' = base + 1 /\ sp' = e.sp - 16
                        /\ UNCHANGED <<code, x, mem>>
  <2>1. pc \in 0 .. Len(code) - 1 /\ Here = add_imm(SP, FP, 0)
    BY <1>1, <1>4, <1>6 DEF Here
  <2>2. /\ Here.op = "addi" /\ Here.op \in {"addi", "subi"}
        /\ Here.rd = SP /\ Here.imm = 0 /\ Sr(Here.rn) = e.sp - 16
        /\ Here.op \notin Pairs /\ Here.op \notin Stores \cup Loads
    BY <1>5, <1>6, <2>1 DEF add_imm, Stores, Loads, Pairs, Sr
  <2>3. Consumed(Here) = {e.sp - 16}
    BY <2>2, Consuming
  <2>4. Defined
    BY <1>3, <2>1, <2>3, JunkIsNoValue DEF Defined
  <2>5. Allowed
    BY <2>2 DEF Allowed, Touched
  <2>6. e.sp - 16 + 0 = e.sp - 16
    BY <1>3
  <2> QED  BY <1>6, <2>2, <2>4, <2>5, <2>6, AddressSets
<1>7. ASSUME pc = base + 1, sp = e.sp - 16
      PROVE  /\ Defined /\ Allowed
             /\ Step => /\ pc' = base + 2 /\ sp' = e.sp
                        /\ Full' /\ x'[FP] = e.fp /\ x'[LR] = e.lr
                        /\ \A r \in 0 .. 7 : x'[r] = x[r]
                        /\ UNCHANGED <<code, mem>>
  <2>1. pc \in 0 .. Len(code) - 1 /\ Here = ldp_post(FP, LR, SP, 16)
    <3>1. pc + 1 = base + 2
      BY <1>7
    <3> QED  BY <1>1, <1>4, <1>7, <3>1 DEF Here
  <2>2. /\ Here.op = "ldp_post" /\ Here.op \in Loads /\ Here.op \in Pairs
        /\ Here.op \in After /\ Here.op \in Before \cup After
        /\ Here.rt = FP /\ Here.rt2 = LR /\ Here.imm = 16 /\ Sr(Here.rn) = sp
        /\ Here.op # "blr"
    BY <2>1 DEF ldp_post, Loads, Pairs, After, Before, Sr
  <2>3. Consumed(Here) = {e.sp - 16}
    BY <1>7, <2>2, Consuming
  <2>4. Defined
    BY <1>3, <2>1, <2>3, JunkIsNoValue DEF Defined
  <2>5. Base(Here) = e.sp - 16 /\ Base(Here) + 8 = e.sp - 8 /\ sp + 16 = e.sp
    BY <1>3, <1>7, <2>2 DEF Base
  <2>6. Touched(Here) = {e.sp - 16, e.sp - 8}
    BY <2>2, <2>5 DEF Touched
  <2>7. Allowed
    BY <1>3, <1>7, <2>2, <2>6 DEF Allowed
  <2>8. ASSUME Step
        PROVE  /\ pc' = base + 2 /\ sp' = e.sp /\ UNCHANGED <<code, mem>>
               /\ x' = [r \in Registers |->
                           CASE r = FP -> e.fp [] r = LR -> e.lr [] OTHER -> x[r]]
    <3>1. base + 1 + 1 = base + 2
      OBVIOUS
    <3> QED  BY <1>2, <1>7, <2>2, <2>5, <2>8, <3>1, LoadSets
  <2> QED  BY <1>5, <2>4, <2>7, <2>8 DEF Full
<1>8. ASSUME pc = base + 2, x[LR] = e.lr
      PROVE  /\ Defined /\ Allowed
             /\ Step => pc' = e.lr /\ UNCHANGED <<code, x, sp, mem>>
  <2>1. pc \in 0 .. Len(code) - 1 /\ Here = ret
    <3>1. pc + 1 = base + 3
      BY <1>8
    <3> QED  BY <1>1, <1>4, <1>8, <3>1 DEF Here
  <2>2. Here.op = "ret" /\ Here.op \notin Pairs /\ Here.op \notin Stores \cup Loads
    BY <2>1 DEF ret, Stores, Loads, Pairs
  <2>3. Consumed(Here) = {e.lr}
    BY <1>8, <2>2, Consuming
  <2>4. Defined
    BY <1>2, <2>1, <2>3, JunkIsNoValue DEF Defined
  <2>5. Allowed
    BY <2>2 DEF Allowed, Touched
  <2>6. Step => Ret
    BY <2>2, Acting
  <2> QED  BY <1>8, <2>4, <2>5, <2>6 DEF Ret
<1>9. /\ base \in base .. base + 2 /\ base + 1 \in base .. base + 2
      /\ base + 2 \in base .. base + 2
      /\ \A n \in Int : n - base \in 0 .. 3 - 1 <=> n \in base .. base + 2
  OBVIOUS
<1>10. ASSUME StepIn(is, base)
       PROVE  pc \in base .. base + 2 /\ Step
  <2>1. pc \in Int
    BY <1>2, <1>9 DEF Unwinding
  <2> QED  BY <1>1, <1>9, <1>10, <2>1 DEF StepIn
<1>11. LeavesFrame(e, base)
  BY <1>2, <1>6, <1>7, <1>8, <1>9 DEF Unwinding, LeavesFrame
<1>12. ASSUME UNCHANGED machine
       PROVE  Unwinding(e, base)'
  BY <1>12 DEF Unwinding, machine, Placed, Full
<1>13. ASSUME StepIn(is, base)
       PROVE  Unwinding(e, base)' /\ KeepsResult
  <2>1. \/ /\ pc' = base + 1 /\ sp' = e.sp - 16 /\ UNCHANGED <<code, x, mem>>
        \/ /\ pc' = base + 2 /\ sp' = e.sp
           /\ Full' /\ x'[FP] = e.fp /\ x'[LR] = e.lr
           /\ \A r \in 0 .. 7 : x'[r] = x[r]
           /\ UNCHANGED <<code, mem>>
        \/ /\ pc' = e.lr /\ sp = e.sp /\ x[FP] = e.fp /\ x[LR] = e.lr
           /\ UNCHANGED <<code, x, sp, mem>>
    BY <1>2, <1>6, <1>7, <1>8, <1>10, <1>13 DEF Unwinding
  <2>2. UNCHANGED <<code, mem>> /\ Full' /\ \A r \in 0 .. 7 : x'[r] = x[r]
    BY <1>2, <2>1 DEF Full
  <2>3. Placed(is, base)' /\ KeepsResult
    BY <1>2, <2>2 DEF Placed, KeepsResult
  <2> QED  BY <1>2, <2>1, <2>2, <2>3 DEF Unwinding, is
<1> QED  BY <1>11, <1>12, <1>13 DEF is

(* Every frame is left: whatever the body did to sp, the epilogue restores *)
(* the caller's stack and frame pointers and goes where the link says, and *)
(* it changes neither memory nor x0, which holds the result.               *)
THEOREM FramesAreLeft ==
    ASSUME NEW e, NEW base \in Nat
    PROVE  Leaving(e, base) /\ [][StepIn(gen_epilogue, base)]_machine
               => []LeavesFrame(e, base) /\ [][KeepsResult]_machine
<1>1. Leaving(e, base) => Unwinding(e, base)
  BY DEF Leaving, Unwinding
<1>2. Unwinding(e, base) /\ [StepIn(gen_epilogue, base)]_machine
          => Unwinding(e, base)' /\ [KeepsResult]_machine
  BY UnwindingFollows
<1>3. Unwinding(e, base) => LeavesFrame(e, base)
  BY UnwindingFollows
<1> QED  BY <1>1, <1>2, <1>3, PTL

-----------------------------------------------------------------------------
(* Calls *)

(* The arguments as gen_call has pushed them, the first below e.sp. *)
StackHolds(e, nargs) ==
    /\ e.sp \in Int /\ e.sp % 16 = 0
    /\ \A i \in 0 .. nargs - 1 : /\ e.sp - 16 * (i + 1) \in Addresses
                                 /\ mem[e.sp - 16 * (i + 1)] = e.args[i]

ArgumentsPushed(e, nargs, base) ==
    /\ Placed(unload(nargs), base)
    /\ pc = base
    /\ Full
    /\ StackHolds(e, nargs)
    /\ sp = e.sp - 16 * nargs

Unloads(e, nargs, base) ==
    /\ pc - base \in 0 .. nargs
    /\ pc < base + nargs => Defined /\ Allowed
    /\ pc = base + nargs => sp = e.sp /\ \A i \in 0 .. nargs - 1 : x[i] = e.args[i]

KeepsButFirst(nargs) ==
    /\ UNCHANGED <<code, flags, mem, out, end>>
    /\ \A r \in Registers \ (0 .. nargs - 1) : x'[r] = x[r]

(* After some of the pops the last arguments are in their registers. *)
Unloading(e, nargs, base) ==
    /\ Placed(unload(nargs), base)
    /\ Full
    /\ StackHolds(e, nargs)
    /\ \E k \in 0 .. nargs :
          /\ pc = base + k
          /\ sp = e.sp - 16 * (nargs - k)
          /\ \A i \in nargs - k .. nargs - 1 : x[i] = e.args[i]

LEMMA UnloadListed ==
    ASSUME NEW nargs \in Nat
    PROVE  /\ Len(unload(nargs)) = nargs
           /\ \A i \in 1 .. nargs : unload(nargs)[i] = pop_into(nargs - i)
<1> DEFINE S == {pop_into(nargs - i) : i \in 1 .. nargs}
<1>1. unload(nargs) \in [1 .. nargs -> S]
  BY DEF unload
<1> HIDE DEF S
<1>2. unload(nargs) \in Seq(S) /\ Len(unload(nargs)) = nargs
  BY <1>1
<1> QED  BY <1>2 DEF unload

LEMMA SixteenBelow ==
    ASSUME NEW m \in Int, m % 16 = 0, NEW k \in Int
    PROVE  (m - 16 * k) % 16 = 0
<1>1. PICK q \in Int : m = 16 * q
  OBVIOUS
<1>2. m - 16 * k = 16 * (q - k) /\ q - k \in Int
  BY <1>1
<1> DEFINE d == q - k
<1>3. (16 * d) % 16 = 0
  <2> HIDE DEF d
  <2>1. d \in Int
    BY <1>2 DEF d
  <2> QED  BY <2>1
<1> QED  BY <1>2, <1>3

LEMMA PopStep ==
    ASSUME NEW r \in 0 .. 7, pc \in 0 .. Len(code) - 1, Here = pop_into(r),
           sp \in Addresses, sp \in Int, sp % 16 = 0
    PROVE  /\ Defined /\ Allowed
           /\ Step => /\ pc' = pc + 1 /\ sp' = sp + 16
                      /\ x' = [s \in Registers |-> IF s = r THEN mem[sp] ELSE x[s]]
                      /\ UNCHANGED <<code, flags, mem, out, end>>
<1>1. /\ Here.op = "ldr_post" /\ Here.op \in Loads /\ Here.op \notin Pairs
      /\ Here.op \in After /\ Here.op \in Before \cup After /\ Here.op # "blr"
      /\ Here.rt = r /\ Here.imm = 16 /\ Sr(Here.rn) = sp
  BY DEF pop_into, ldr_post, Loads, Pairs, After, Before, Sr
<1>2. Consumed(Here) = {sp}
  BY <1>1, Consuming
<1>3. Defined
  BY <1>2, JunkIsNoValue DEF Defined
<1>4. Base(Here) = sp /\ Touched(Here) = {sp}
  BY <1>1 DEF Base, Touched
<1>5. Allowed
  BY <1>1, <1>4 DEF Allowed
<1> QED  BY <1>1, <1>3, <1>4, <1>5, LoadSets

LEMMA UnloadingFollows ==
    ASSUME NEW e, NEW nargs \in 0 .. 8, NEW base \in Nat, Unloading(e, nargs, base)
    PROVE  /\ Unloads(e, nargs, base)
           /\ [StepIn(unload(nargs), base)]_machine
                  => Unloading(e, nargs, base)' /\ [KeepsButFirst(nargs)]_machine
<1> DEFINE is == unload(nargs)
<1>1. Len(is) = nargs /\ \A i \in 1 .. nargs : is[i] = pop_into(nargs - i)
  BY UnloadListed
<1> HIDE DEF is
<1>2. Placed(is, base) /\ Full /\ StackHolds(e, nargs)
  BY DEF Unloading, is
<1>3. PICK k \in 0 .. nargs :
          /\ pc = base + k
          /\ sp = e.sp - 16 * (nargs - k)
          /\ \A i \in nargs - k .. nargs - 1 : x[i] = e.args[i]
  BY DEF Unloading
<1>4. e.sp \in Int /\ e.sp % 16 = 0
  BY <1>2 DEF StackHolds
<1>5. ASSUME UNCHANGED machine PROVE Unloading(e, nargs, base)'
  BY <1>5 DEF Unloading, machine, Placed, Full, StackHolds
<1>6. CASE k = nargs
  <2>1. sp = e.sp /\ pc = base + nargs
    BY <1>3, <1>4, <1>6
  <2>2. nargs - k .. nargs - 1 = 0 .. nargs - 1
    BY <1>6
  <2>3. Unloads(e, nargs, base)
    BY <1>3, <2>1, <2>2 DEF Unloads
  <2>4. ~StepIn(is, base)
    BY <1>1, <2>1 DEF StepIn
  <2> QED  BY <1>5, <2>3, <2>4 DEF is
<1>7. CASE k # nargs
  <2> DEFINE r == nargs - (k + 1)
  <2>1. r \in 0 .. 7 /\ r \in 0 .. nargs - 1 /\ r + 1 = nargs - k /\ k + 1 \in 1 .. nargs
    BY <1>3, <1>7
  <2>2. pc \in 0 .. Len(code) - 1 /\ Here = pop_into(r)
    <3>1. code[base + (k + 1)] = is[k + 1] /\ base + nargs <= Len(code) /\ Len(code) \in Nat
      BY <1>1, <1>2, <2>1 DEF Placed
    <3>2. pc + 1 = base + (k + 1)
      BY <1>3
    <3> QED  BY <1>1, <1>3, <2>1, <3>1, <3>2 DEF Here
  <2>3. sp \in Addresses /\ sp \in Int /\ sp % 16 = 0 /\ mem[sp] = e.args[r]
    <3>1. sp = e.sp - 16 * (r + 1)
      BY <1>3, <2>1
    <3> HIDE DEF r
    <3>2. e.sp - 16 * (r + 1) \in Addresses /\ mem[e.sp - 16 * (r + 1)] = e.args[r]
      BY <1>2, <2>1 DEF StackHolds
    <3>3. r + 1 \in Int
      BY <2>1
    <3>4. (e.sp - 16 * (r + 1)) % 16 = 0
      BY <1>4, <3>3, SixteenBelow
    <3>5. e.sp - 16 * (r + 1) \in Int
      BY <1>4, <3>3
    <3> QED  BY <3>1, <3>2, <3>4, <3>5
  <2> HIDE DEF r
  <2>4. /\ Defined /\ Allowed
        /\ Step => /\ pc' = pc + 1 /\ sp' = sp + 16
                   /\ x' = [s \in Registers |-> IF s = r THEN mem[sp] ELSE x[s]]
                   /\ UNCHANGED <<code, flags, mem, out, end>>
    BY <2>1, <2>2, <2>3, PopStep
  <2>5. Unloads(e, nargs, base)
    BY <1>3, <1>7, <2>4 DEF Unloads
  <2>6. ASSUME Step
        PROVE  Unloading(e, nargs, base)' /\ KeepsButFirst(nargs)
    <3>1. pc' = base + (k + 1) /\ sp' = e.sp - 16 * (nargs - (k + 1)) /\ k + 1 \in 0 .. nargs
      <4>1. pc' = pc + 1 /\ sp' = sp + 16
        BY <2>4, <2>6
      <4>2. e.sp - 16 * (nargs - k) + 16 = e.sp - 16 * (nargs - (k + 1))
        BY <1>4
      <4> QED  BY <1>3, <2>1, <4>1, <4>2
    <3>2. ASSUME NEW i \in nargs - (k + 1) .. nargs - 1
          PROVE  x'[i] = e.args[i]
      <4>1. i \in Registers /\ (i = r \/ i \in nargs - k .. nargs - 1)
        BY <2>1, <3>2 DEF Registers, r
      <4> QED  BY <1>3, <2>3, <2>4, <2>6, <4>1
    <3>3. Placed(is, base)' /\ Full' /\ StackHolds(e, nargs)'
      BY <1>2, <2>4, <2>6 DEF Placed, Full, StackHolds
    <3>4. KeepsButFirst(nargs)
      BY <2>1, <2>4, <2>6 DEF KeepsButFirst
    <3> QED  BY <3>1, <3>2, <3>3, <3>4 DEF Unloading, is
  <2> QED  BY <1>5, <2>5, <2>6 DEF StepIn
<1> QED  BY <1>6, <1>7

(* Every argument arrives: gen_call evaluates the arguments in order and   *)
(* pushes each, and pops them from the last to the first, so that each is  *)
(* in the register the prologue of the callee spills it from, the stack is *)
(* where it was before the first push, and nothing else has changed        *)
(* (codegen.cc:288-302).                                                   *)
THEOREM ArgumentsArrive ==
    ASSUME NEW e, NEW nargs \in 0 .. 8, NEW base \in Nat
    PROVE  ArgumentsPushed(e, nargs, base) /\ [][StepIn(unload(nargs), base)]_machine
               => []Unloads(e, nargs, base) /\ [][KeepsButFirst(nargs)]_machine
<1>1. ArgumentsPushed(e, nargs, base) => Unloading(e, nargs, base)
  <2> SUFFICES ASSUME ArgumentsPushed(e, nargs, base) PROVE Unloading(e, nargs, base)
    OBVIOUS
  <2>1. 0 \in 0 .. nargs /\ base + 0 = base /\ nargs - 0 = nargs /\ nargs .. nargs - 1 = {}
    OBVIOUS
  <2> QED  BY <2>1 DEF ArgumentsPushed, Unloading
<1>2. Unloading(e, nargs, base) /\ [StepIn(unload(nargs), base)]_machine
          => Unloading(e, nargs, base)' /\ [KeepsButFirst(nargs)]_machine
  BY UnloadingFollows
<1>3. Unloading(e, nargs, base) => Unloads(e, nargs, base)
  BY UnloadingFollows
<1> QED  BY <1>1, <1>2, <1>3, PTL

(* A call into the host, behind its argument or at the stub. *)
LEMMA HostCallListed ==
    ASSUME NEW address
    PROVE  LET moves == mov_imm64(X16, address)
           IN  /\ Len(moves) \in Nat \ {0}
               /\ Len(call_host(address)) = Len(moves) + 1
               /\ \A k \in 1 .. Len(moves) : call_host(address)[k] = moves[k]
               /\ call_host(address)[Len(moves) + 1] = blr(X16)
<1> DEFINE moves == mov_imm64(X16, address)
           M(hw) == MoveChunk(X16, address, hw)
           Op == {movz(X16, 0, 0), blr(X16)}
                     \cup {movz(X16, Chunk(address, hw), hw) : hw \in 0 .. 3}
                     \cup {movk(X16, Chunk(address, hw), hw) : hw \in 0 .. 3}
           all == M(0) \o M(1) \o M(2) \o M(3)
<1>1. \A hw \in 0 .. 3 : M(hw) \in Seq(Op)
  <2> SUFFICES ASSUME NEW hw \in 0 .. 3 PROVE M(hw) \in Seq(Op)
    OBVIOUS
  <2> DEFINE i1 == movz(X16, Chunk(address, hw), hw)
             i2 == movk(X16, Chunk(address, hw), hw)
  <2>1. i1 \in Op /\ i2 \in Op
    OBVIOUS
  <2>2. M(hw) = <<>> \/ M(hw) = <<i1>> \/ M(hw) = <<i2>>
    BY DEF MoveChunk
  <2> HIDE DEF i1, i2, Op, M
  <2>3. <<>> \in Seq(Op) /\ <<i1>> \in Seq(Op) /\ <<i2>> \in Seq(Op)
    BY <2>1, EmptySeq
  <2> QED  BY <2>2, <2>3
<1>2. movz(X16, 0, 0) \in Op /\ blr(X16) \in Op
  OBVIOUS
<1>3. moves = IF all = <<>> THEN <<movz(X16, 0, 0)>> ELSE all
  BY DEF mov_imm64
<1> DEFINE i0 == movz(X16, 0, 0)
           last == blr(X16)
<1>4. i0 \in Op /\ last \in Op /\ moves = IF all = <<>> THEN <<i0>> ELSE all
  BY <1>2, <1>3
<1>5. call_host(address) = Append(moves, last)
  BY DEF call_host
<1> HIDE DEF moves, Op, M, i0, last
<1>6. all \in Seq(Op)
  BY <1>1, ConcatProperties
<1> HIDE DEF all
<1>7. moves \in Seq(Op) /\ Len(moves) \in Nat \ {0}
  BY <1>4, <1>6, EmptySeq
<1>8. /\ Len(Append(moves, last)) = Len(moves) + 1
      /\ \A k \in 1 .. Len(moves) : Append(moves, last)[k] = moves[k]
      /\ Append(moves, last)[Len(moves) + 1] = last
  BY <1>4, <1>7, AppendProperties
<1> QED  BY <1>5, <1>7, <1>8 DEF moves, last

(* The processor before a call into the host, with the argument in x0. *)
HostDue(address, base, v, printed) ==
    /\ Placed(call_host(address), base)
    /\ pc = base
    /\ end = "running"
    /\ Full /\ Remembers
    /\ sp % 16 = 0
    /\ x[X0] = v
    /\ out = printed

(* print has printed the value, once, and it has the value 0. *)
Prints(base, v, printed) ==
    LET size == Len(call_host(PrintAddr))
    IN  /\ pc - base \in 0 .. size
        /\ pc < base + size => Defined /\ Allowed /\ out = printed
        /\ pc = base + size => out = Append(printed, v) /\ x[X0] = 0

(* What the call of print leaves to the code around it. *)
KeepsFrame ==
    /\ UNCHANGED <<code, sp, end>>
    /\ x'[FP] = x[FP]
    /\ \A a \in Addresses : ~(a < sp) => mem'[a] = mem[a]

(* The address is being assembled, or print has returned. *)
Printing(base, v, printed) ==
    /\ Placed(call_host(PrintAddr), base)
    /\ sp % 16 = 0
    /\ Full
    /\ Remembers
    /\ end = "running"
    /\ \/ Assembling(X16, PrintAddr, base) /\ x[X0] = v /\ out = printed
       \/ /\ pc = base + Len(call_host(PrintAddr))
          /\ out = Append(printed, v) /\ x[X0] = 0

(* Until its last instruction a call into the host is a mov_imm64. *)
LEMMA AddressMoves ==
    ASSUME NEW address \in Word, NEW base \in Nat,
           Placed(call_host(address), base), Assembling(X16, address, base)
    PROVE  LET size == Len(mov_imm64(X16, address))
           IN  /\ pc \in base .. base + size
               /\ pc # base + size =>
                     /\ Defined /\ Allowed
                     /\ Step => Assembling(X16, address, base)' /\ KeepsBut(X16)
               /\ pc = base + size =>
                     /\ x[X16] = address
                     /\ pc \in 0 .. Len(code) - 1 /\ Here = blr(X16)
<1> DEFINE moves == mov_imm64(X16, address)
           size == Len(moves)
<1>1. /\ size \in Nat \ {0} /\ Len(call_host(address)) = size + 1
      /\ call_host(address)[size + 1] = blr(X16)
  BY HostCallListed
<1>2. X16 \in Registers
  BY DEF Registers
<1>3. /\ Loads64(X16, address, base)
      /\ [StepIn(moves, base)]_machine
             => Assembling(X16, address, base)' /\ [KeepsBut(X16)]_machine
  BY <1>2, AssemblingFollows
<1>4. /\ pc - base \in 0 .. size
      /\ pc < base + size => Defined /\ Allowed
      /\ pc = base + size => x[X16] = address
  BY <1>3 DEF Loads64
<1>5. pc \in Int
  BY DEF Assembling, Emitted, Takes
<1> HIDE DEF moves, size
<1>6. pc \in base .. base + size
  BY <1>1, <1>4, <1>5
<1>7. ASSUME pc # base + size
      PROVE  /\ Defined /\ Allowed
             /\ Step => Assembling(X16, address, base)' /\ KeepsBut(X16)
  <2>1. Defined /\ Allowed
    BY <1>1, <1>4, <1>6, <1>7
  <2>2. ASSUME Step PROVE Assembling(X16, address, base)' /\ KeepsBut(X16)
    <3>1. StepIn(moves, base)
      BY <1>1, <1>6, <1>7, <2>2 DEF StepIn, size
    <3>2. Assembling(X16, address, base)' /\ (KeepsBut(X16) \/ UNCHANGED machine)
      BY <1>3, <3>1
    <3> QED  BY <3>2 DEF KeepsBut, machine
  <2> QED  BY <2>1, <2>2
<1>8. ASSUME pc = base + size
      PROVE  pc \in 0 .. Len(code) - 1 /\ Here = blr(X16)
  <2>1. /\ code[base + (size + 1)] = blr(X16) /\ Len(code) \in Nat
        /\ base + (size + 1) <= Len(code)
    BY <1>1 DEF Placed
  <2> QED  BY <1>1, <1>8, <2>1 DEF Here
<1> QED  BY <1>4, <1>6, <1>7, <1>8 DEF size, moves

(* The instruction that calls, with a known address in x16. *)
LEMMA HostStep ==
    ASSUME pc \in 0 .. Len(code) - 1, Here = blr(X16), sp % 16 = 0,
           x[X16] \in Word, x[X16] \in {PrintAddr, AbortAddr},
           x[X16] = PrintAddr => x[X0] # Junk
    PROVE  /\ Defined /\ Allowed
           /\ Step => \/ x[X16] = PrintAddr /\ HostPrint
                      \/ x[X16] = AbortAddr /\ HostAbort
<1>1. /\ Here.op = "blr" /\ Here.rn = X16
      /\ Here.op \notin Pairs /\ Here.op \notin Stores \cup Loads
  BY DEF blr, Pairs, Stores, Loads
<1>2. Consumed(Here) = {x[X16]} \cup (IF x[X16] = PrintAddr THEN {x[X0]} ELSE {})
  BY <1>1 DEF Consumed, Stores, Loads
<1>3. Defined
  BY <1>2, AtWord DEF Defined
<1>4. Allowed
  BY <1>1 DEF Allowed, Touched
<1>5. Step => HostPrint \/ HostAbort
  <2>1. /\ Move => At({"movz", "movk"})
        /\ Compute => At(Arith)
        /\ Compare => At({"subs"})
        /\ Select => At({"csinc"})
        /\ MoveAddress => At({"addi", "subi"})
        /\ Store => At(Stores)
        /\ Load => At(Loads)
        /\ Branch => At({"b", "bl", "cbz", "cbnz"})
        /\ Ret => At({"ret"})
    BY DEF Move, Compute, Compare, Select, MoveAddress, Store, Load, Branch, Ret
  <2> QED  BY <1>1, <2>1 DEF Step, At, Arith, Stores, Loads
<1>6. /\ HostPrint => x[X16] = PrintAddr
      /\ HostAbort => x[X16] = AbortAddr
  BY <1>1 DEF HostPrint, HostAbort
<1> QED  BY <1>3, <1>4, <1>5, <1>6

LEMMA PrintingFollows ==
    ASSUME PrintAddr \in Word, PrintAddr # AbortAddr,
           NEW base \in Nat, NEW v \in Word, NEW printed, Printing(base, v, printed)
    PROVE  /\ Prints(base, v, printed)
           /\ [StepIn(call_host(PrintAddr), base)]_machine
                  => Printing(base, v, printed)' /\ [KeepsFrame]_machine
<1> DEFINE is == call_host(PrintAddr)
           size == Len(mov_imm64(X16, PrintAddr))
<1>1. size \in Nat \ {0} /\ Len(is) = size + 1
  BY HostCallListed
<1>2. Placed(is, base) /\ sp % 16 = 0 /\ Full /\ Remembers /\ end = "running"
  BY DEF Printing
<1>3. /\ X0 \in Registers /\ X16 \in Registers /\ FP \in Registers
      /\ X0 # X16 /\ X0 # FP /\ X0 # LR /\ FP # LR /\ FP # X16
  BY DEF Registers, X0, X16, FP, LR
<1>4. ASSUME UNCHANGED machine PROVE Printing(base, v, printed)'
  <2>1. Assembling(X16, PrintAddr, base) => Assembling(X16, PrintAddr, base)'
    BY <1>4 DEF machine, Assembling, Full, Placed
  <2> QED  BY <1>4, <2>1 DEF machine, Printing, Full, Placed, Remembers
<1>5. CASE Assembling(X16, PrintAddr, base) /\ x[X0] = v /\ out = printed
  <2>1. /\ pc \in base .. base + size
        /\ pc # base + size =>
              /\ Defined /\ Allowed
              /\ Step => Assembling(X16, PrintAddr, base)' /\ KeepsBut(X16)
        /\ pc = base + size =>
              /\ x[X16] = PrintAddr
              /\ pc \in 0 .. Len(code) - 1 /\ Here = blr(X16)
    BY <1>2, <1>5, AddressMoves
  <2>2. CASE pc # base + size
    <3> HIDE DEF is, size
    <3>1. Prints(base, v, printed)
      BY <1>1, <1>5, <2>1, <2>2 DEF Prints, is
    <3>2. ASSUME Step
          PROVE  Printing(base, v, printed)' /\ KeepsFrame
      <4>1. Assembling(X16, PrintAddr, base)' /\ KeepsBut(X16)
        BY <2>1, <2>2, <3>2
      <4>2. /\ UNCHANGED <<code, sp, mem, out, end>>
            /\ x'[X0] = x[X0] /\ x'[FP] = x[FP]
        BY <1>3, <4>1 DEF KeepsBut
      <4>3. Full' /\ Placed(is, base)' /\ Remembers'
        BY <1>2, <4>1, <4>2 DEF Assembling, Placed, Remembers
      <4> QED  BY <1>2, <1>5, <4>1, <4>2, <4>3 DEF Printing, KeepsFrame, is
    <3> QED  BY <1>4, <3>1, <3>2 DEF StepIn, is
  <2>3. CASE pc = base + size
    <3> HIDE DEF is, size
    <3>1. v # Junk /\ v \in Int
      BY AtWord
    <3>2. /\ Defined /\ Allowed
          /\ Step => HostPrint
      BY <1>2, <1>5, <2>1, <2>3, <3>1, HostStep
    <3>3. Prints(base, v, printed)
      BY <1>1, <1>5, <2>1, <2>3, <3>2 DEF Prints, is
    <3>4. ASSUME Step
          PROVE  Printing(base, v, printed)' /\ KeepsFrame
      <4>1. HostPrint
        BY <3>2, <3>4
      <4>2. /\ pc' = pc + 1 /\ out' = Append(printed, v)
            /\ x' = [r \in Registers |->
                        CASE r = X0 -> 0
                          [] r = LR -> pc + 1
                          [] r = FP -> x[FP]
                          [] OTHER -> Junk]
            /\ mem' = [a \in Addresses |-> IF a < sp THEN Junk ELSE mem[a]]
            /\ UNCHANGED <<code, sp, end>>
        BY <1>5, <4>1 DEF HostPrint, NextPc
      <4>3. Full' /\ x'[X0] = 0 /\ x'[FP] = x[FP]
        BY <1>3, <4>2 DEF Full
      <4>4. Remembers' /\ \A a \in Addresses : ~(a < sp) => mem'[a] = mem[a]
        BY <4>2 DEF Remembers
      <4>5. Placed(is, base)' /\ pc' = base + Len(is)
        BY <1>1, <1>2, <2>3, <4>2 DEF Placed
      <4> QED  BY <1>2, <4>2, <4>3, <4>4, <4>5 DEF Printing, KeepsFrame, is
    <3> QED  BY <1>4, <3>3, <3>4 DEF StepIn, is
  <2> QED  BY <2>2, <2>3
<1>6. CASE pc = base + Len(is) /\ out = Append(printed, v) /\ x[X0] = 0
  <2> HIDE DEF is, size
  <2>1. Prints(base, v, printed)
    BY <1>1, <1>6 DEF Prints, is
  <2>2. ~StepIn(is, base)
    BY <1>1, <1>6 DEF StepIn
  <2> QED  BY <1>4, <2>1, <2>2 DEF is
<1> QED  BY <1>5, <1>6 DEF Printing

(* Every print prints its argument, once: behind the code of a call of     *)
(* mp_print the output has one line more, x0 has the value of a print, and *)
(* whatever the host did to registers, flags and the stack below sp, the   *)
(* frame and what is above sp are as they were (codegen.cc:140-143,        *)
(* 280-286; runtime.cc:14-22).                                             *)
THEOREM PrintsItsArgument ==
    ASSUME PrintAddr \in Word, PrintAddr # AbortAddr,
           NEW base \in Nat, NEW v \in Word, NEW printed
    PROVE  HostDue(PrintAddr, base, v, printed) /\ [][StepIn(call_host(PrintAddr), base)]_machine
               => []Prints(base, v, printed) /\ [][KeepsFrame]_machine
<1>1. HostDue(PrintAddr, base, v, printed) => Printing(base, v, printed)
  <2>1. /\ Placed(call_host(PrintAddr), base) => Placed(mov_imm64(X16, PrintAddr), base)
        /\ 0 \in 0 .. 4 /\ base + Emitted(PrintAddr, 0) = base /\ Emitted(PrintAddr, 0) = 0
    BY HostCallListed, EmittedCounts DEF Placed
  <2> QED  BY <2>1 DEF HostDue, Printing, Assembling
<1>2. Printing(base, v, printed) /\ [StepIn(call_host(PrintAddr), base)]_machine
          => Printing(base, v, printed)' /\ [KeepsFrame]_machine
  BY PrintingFollows
<1>3. Printing(base, v, printed) => Prints(base, v, printed)
  BY PrintingFollows
<1> QED  BY <1>1, <1>2, <1>3, PTL

(* A division by zero stops the process, whose output is what it was. *)
Exits(base, printed) ==
    LET size == Len(call_host(AbortAddr))
    IN  /\ pc - base \in 0 .. size - 1
        /\ end = "running" => Defined /\ Allowed
        /\ end # "running" => end = "exited" /\ pc = base + size - 1
        /\ out = printed

KeepsAll == UNCHANGED <<code, sp, flags, mem, out>>

Aborting(base, printed) ==
    /\ Placed(call_host(AbortAddr), base)
    /\ sp % 16 = 0
    /\ out = printed
    /\ \/ Assembling(X16, AbortAddr, base)
       \/ end = "exited" /\ pc = base + Len(call_host(AbortAddr)) - 1

LEMMA AbortingFollows ==
    ASSUME AbortAddr \in Word, PrintAddr # AbortAddr,
           NEW base \in Nat, NEW printed, Aborting(base, printed)
    PROVE  /\ Exits(base, printed)
           /\ [StepIn(call_host(AbortAddr), base)]_machine
                  => Aborting(base, printed)' /\ [KeepsAll]_machine
<1> DEFINE is == call_host(AbortAddr)
           size == Len(mov_imm64(X16, AbortAddr))
<1>1. size \in Nat \ {0} /\ Len(is) = size + 1
  BY HostCallListed
<1>2. Placed(is, base) /\ sp % 16 = 0 /\ out = printed
  BY DEF Aborting
<1>3. ASSUME UNCHANGED machine PROVE Aborting(base, printed)'
  <2>1. Assembling(X16, AbortAddr, base) => Assembling(X16, AbortAddr, base)'
    BY <1>3 DEF machine, Assembling, Full, Placed
  <2> QED  BY <1>3, <2>1 DEF machine, Aborting, Placed
<1>4. CASE Assembling(X16, AbortAddr, base)
  <2>1. /\ pc \in base .. base + size
        /\ pc # base + size =>
              /\ Defined /\ Allowed
              /\ Step => Assembling(X16, AbortAddr, base)' /\ KeepsBut(X16)
        /\ pc = base + size =>
              /\ x[X16] = AbortAddr
              /\ pc \in 0 .. Len(code) - 1 /\ Here = blr(X16)
    BY <1>2, <1>4, AddressMoves
  <2>2. end = "running"
    BY <1>4 DEF Assembling
  <2>3. pc = base + size => /\ Defined /\ Allowed
                            /\ Step => HostAbort
    BY <1>2, <2>1, HostStep
  <2> HIDE DEF is, size
  <2>4. Exits(base, printed)
    BY <1>1, <1>2, <2>1, <2>2, <2>3 DEF Exits, is
  <2>5. ASSUME Step
        PROVE  Aborting(base, printed)' /\ KeepsAll
    <3>1. CASE pc # base + size
      <4>1. Assembling(X16, AbortAddr, base)' /\ KeepsBut(X16)
        BY <2>1, <2>5, <3>1
      <4>2. UNCHANGED <<code, sp, flags, mem, out, end>>
        BY <4>1 DEF KeepsBut
      <4>3. Placed(is, base)'
        BY <1>2, <4>2 DEF Placed
      <4> QED  BY <1>2, <4>1, <4>2, <4>3 DEF Aborting, KeepsAll, is
    <3>2. CASE pc = base + size
      <4>1. end' = "exited" /\ UNCHANGED <<code, pc, x, sp, flags, mem, out>>
        BY <2>3, <2>5, <3>2 DEF HostAbort
      <4>2. Placed(is, base)' /\ pc' = base + Len(is) - 1
        BY <1>1, <1>2, <3>2, <4>1 DEF Placed
      <4> QED  BY <1>2, <4>1, <4>2 DEF Aborting, KeepsAll, is
    <3> QED  BY <3>1, <3>2
  <2> QED  BY <1>3, <2>4, <2>5 DEF StepIn, is
<1>5. CASE end = "exited" /\ pc = base + Len(is) - 1
  <2> HIDE DEF is, size
  <2>1. Exits(base, printed)
    BY <1>1, <1>2, <1>5 DEF Exits, is
  <2>2. ~Step
    BY <1>5, Acting
  <2> QED  BY <1>3, <2>1, <2>2 DEF StepIn, is
<1> QED  BY <1>4, <1>5 DEF Aborting

(* A division by zero stops: from the first word of the stub the processor *)
(* runs to its last and the process exits there, with the output as it was *)
(* and never behind the stub (codegen.cc:490-500, runtime.cc:24-33).       *)
THEOREM StubStops ==
    ASSUME AbortAddr \in Word, PrintAddr # AbortAddr,
           NEW base \in Nat, NEW v, NEW printed
    PROVE  HostDue(AbortAddr, base, v, printed) /\ [][StepIn(call_host(AbortAddr), base)]_machine
               => []Exits(base, printed) /\ [][KeepsAll]_machine
<1>1. HostDue(AbortAddr, base, v, printed) => Aborting(base, printed)
  <2>1. /\ Placed(call_host(AbortAddr), base) => Placed(mov_imm64(X16, AbortAddr), base)
        /\ 0 \in 0 .. 4 /\ base + Emitted(AbortAddr, 0) = base /\ Emitted(AbortAddr, 0) = 0
    BY HostCallListed, EmittedCounts DEF Placed
  <2> QED  BY <2>1 DEF HostDue, Aborting, Assembling
<1>2. Aborting(base, printed) /\ [StepIn(call_host(AbortAddr), base)]_machine
          => Aborting(base, printed)' /\ [KeepsAll]_machine
  BY AbortingFollows
<1>3. Aborting(base, printed) => Exits(base, printed)
  BY AbortingFollows
<1> QED  BY <1>1, <1>2, <1>3, PTL
=============================================================================
