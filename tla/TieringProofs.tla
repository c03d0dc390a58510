--------------------------- MODULE TieringProofs ---------------------------
(***************************************************************************)
(* What Tiering's runs check on small call graphs, proved for every        *)
(* program, threshold and stack depth.                                     *)
(***************************************************************************)
EXTENDS Tiering, FiniteSetTheorems, SequenceTheorems, TLAPS

-----------------------------------------------------------------------------
(* The inductive invariant *)

(* Control is in a frame exactly while the program runs. *)
StackMatchesPhase ==
    /\ phase = "start" => stack = <<>>
    /\ phase = "running" => Len(stack) > 0

(* A buffer holds a closed set, and every function in it has been bound. *)
RegionsClosed ==
    \A r \in 1 .. Len(regions) :
        /\ CallClosed(calls, regions[r])
        /\ \A f \in regions[r] : IsCompiled(f)

(* A native frame runs the text of a function its buffer holds. *)
NativeInRegion ==
    \A i \in 1 .. Len(stack) :
        stack[i].kind = "native" =>
            /\ stack[i].region \in 1 .. Len(regions)
            /\ stack[i].fn \in regions[stack[i].region]
            /\ stack[i].body = stack[i].fn

IInv ==
    /\ TypeOK
    /\ StackMatchesPhase
    /\ ColdBelowThreshold
    /\ EntryInRegion
    /\ RegionsClosed
    /\ NativeInRegion
    /\ NoWayBack
    /\ EntryIsCurrent
    /\ RegionsBounded
-----------------------------------------------------------------------------
(* Facts about the operators *)

(* reachable_from's result is a set of functions, holds its root, and is   *)
(* closed, because every closed set around the root is.                    *)
LEMMA ReachableClosed ==
    ASSUME NEW graph \in CallGraphs, NEW root \in Func
    PROVE  /\ Reachable(graph, root) \in SUBSET Func
           /\ root \in Reachable(graph, root)
           /\ CallClosed(graph, Reachable(graph, root))
<1>1. /\ Reachable(graph, root) \in SUBSET Func
      /\ root \in Reachable(graph, root)
  BY DEF Reachable
<1>2. ASSUME NEW f \in Reachable(graph, root), NEW g \in graph[f]
      PROVE  g \in Reachable(graph, root)
  <2>1. f \in Func /\ g \in Func
    BY <1>1, <1>2 DEF CallGraphs
  <2>2. ASSUME NEW S \in SUBSET Func, root \in S, CallClosed(graph, S)
        PROVE  g \in S
    BY <1>2, <2>2 DEF Reachable, CallClosed
  <2> QED
    BY <2>1, <2>2 DEF Reachable
<1> QED
  BY <1>1, <1>2 DEF CallClosed

(* The frames the actions push are frames. *)
LEMMA FrameTypes ==
    ASSUME NEW f \in Func, NEW g \in Func, NEW r \in Nat
    PROVE  Interp(f) \in Frames /\ Pending(f, g) \in Frames
              /\ Native(f, r) \in Frames
  BY DEF Frames, Interp, Pending, Native

(* Popping the innermost frame leaves the others where they are. *)
LEMMA PopFacts ==
    ASSUME stack \in Seq(Frames), Len(stack) > 0
    PROVE  /\ Popped \in Seq(Frames)
           /\ Len(Popped) = Len(stack) - 1
           /\ \A i \in 1 .. Len(stack) - 1 : Popped[i] = stack[i]
           /\ Top \in Frames
<1>1. Len(stack) \in Nat /\ \A i \in 1 .. Len(stack) : stack[i] \in Frames
  BY ElementOfSeq, LenProperties
<1>2. \A i \in 1 .. Len(stack) - 1 : stack[i] \in Frames
  BY <1>1
<1>3. /\ Popped \in Seq(Frames)
      /\ Len(Popped) = IF 1 <= Len(stack) - 1 THEN (Len(stack) - 1) - 1 + 1 ELSE 0
      /\ \A i \in 1 .. (Len(stack) - 1) - 1 + 1 : Popped[i] = stack[1 + i - 1]
  BY <1>1, <1>2, SubSeqProperties DEF Popped
<1>4. /\ (Len(stack) - 1) - 1 + 1 = Len(stack) - 1
      /\ \A i \in 1 .. Len(stack) - 1 : 1 + i - 1 = i
  BY <1>1
<1>5. Len(Popped) = Len(stack) - 1
  <2> DEFINE n == Len(stack)
  <2>1. n \in Nat /\ n > 0
    BY <1>1
  <2> HIDE DEF n
  <2>2. (1 <= n - 1 \/ n = 1) /\ n - 1 - 1 + 1 = n - 1
    BY <2>1
  <2>3. Len(Popped) = IF 1 <= n - 1 THEN n - 1 - 1 + 1 ELSE 0
    BY <1>3 DEF n
  <2>4. Len(Popped) = n - 1
    BY <2>1, <2>2, <2>3
  <2> QED
    BY <2>4 DEF n
<1>6. ASSUME NEW i \in 1 .. Len(stack) - 1
      PROVE  Popped[i] = stack[i]
  BY <1>3, <1>4
<1>7. Top \in Frames
  BY <1>1 DEF Top
<1> QED
  BY <1>3, <1>5, <1>6, <1>7

-----------------------------------------------------------------------------
(***************************************************************************)
(* A call leaves the host stack as it is below the new frame, and nothing  *)
(* below is native: both Start and FinishArgs call in such a context.      *)
(***************************************************************************)
HostStack(below) ==
    /\ below \in Seq(Frames)
    /\ \A i \in 1 .. Len(below) : below[i].kind # "native"
    /\ phase # "aborted"

(* No native frame is live when the interpreter is about to call. *)
LEMMA CallersAreInterpreted ==
    ASSUME IInv, Start \/ FinishArgs
    PROVE  /\ ~NativeLive
           /\ \E f \in Func : \E below :
                 HostStack(below) /\ Call(f, below) /\ phase' = "running"
                    /\ UNCHANGED calls
<1>1. CASE Start
  <2>1. stack = <<>> /\ Len(stack) = 0
    BY <1>1 DEF Start, IInv, StackMatchesPhase
  <2>2. HostStack(<<>>)
    BY <1>1 DEF HostStack, Start
  <2> QED
    BY <1>1, <2>1, <2>2, MainIsFunc DEF Start, NativeLive
<1>2. CASE FinishArgs
  <2>1. Len(stack) \in Nat /\ Len(stack) > 0 /\ stack \in Seq(Frames)
    BY <1>2 DEF FinishArgs, IInv, StackMatchesPhase, TypeOK
  <2>2. \A i \in 1 .. Len(stack) : stack[i].kind # "native"
    BY <1>2, <2>1 DEF FinishArgs, IInv, NoWayBack, Top
  <2>3. HostStack(Popped)
    BY <1>2, <2>1, <2>2, PopFacts DEF HostStack, FinishArgs
  <2>4. Top.fn \in Func
    BY <2>1, PopFacts DEF Frames
  <2> QED
    BY <1>2, <2>2, <2>3, <2>4 DEF FinishArgs, NativeLive
<1> QED
  BY <1>1, <1>2

(* A compilation: every table entry is old, or points at the new region. *)
LEMMA CompileFacts ==
    ASSUME TypeOK, NEW f \in Func, CompileHot(f)
    PROVE  /\ Len(regions) \in Nat
           /\ regions' \in Seq(SUBSET Func)
           /\ Len(regions') = Len(regions) + 1
           /\ \A r \in 1 .. Len(regions) : regions'[r] = regions[r]
           /\ regions'[Len(regions) + 1] = HotSetOf(f)
           /\ compiled' \in [Func -> 0 .. Len(regions')]
           /\ f \in HotSetOf(f)
           /\ HotSetOf(f) \in SUBSET Func
           /\ CallClosed(calls, HotSetOf(f))
           /\ \A g \in Func : compiled'[g] =
                 IF g \in HotSetOf(f) THEN Len(regions) + 1 ELSE compiled[g]
<1>1. /\ f \in HotSetOf(f)
      /\ HotSetOf(f) \in SUBSET Func
      /\ CallClosed(calls, HotSetOf(f))
  BY ReachableClosed DEF HotSetOf, TypeOK
<1>2. regions \in Seq(SUBSET Func) /\ Len(regions) \in Nat
  BY LenProperties DEF TypeOK
<1>3. /\ regions' \in Seq(SUBSET Func)
      /\ Len(regions') = Len(regions) + 1
      /\ \A r \in 1 .. Len(regions) : regions'[r] = regions[r]
      /\ regions'[Len(regions) + 1] = HotSetOf(f)
  BY <1>1, <1>2, AppendProperties DEF CompileHot
<1> QED
  BY <1>1, <1>2, <1>3 DEF CompileHot, TypeOK

(* A frame pushed on the host stack is the only one that may be native. *)
LEMMA PushOnHost ==
    ASSUME NEW below, HostStack(below), NEW frame \in Frames,
           stack' = Append(below, frame)
    PROVE  /\ stack' \in Seq(Frames)
           /\ Len(stack') \in Nat
           /\ Len(stack') > 0
           /\ \A i \in 1 .. Len(stack') :
                 stack'[i].kind = "native" => i = Len(stack') /\ stack'[i] = frame
<1> DEFINE n == Len(below)
<1>1. /\ stack' \in Seq(Frames)
      /\ Len(stack') = n + 1
      /\ \A i \in 1 .. n : stack'[i] = below[i]
      /\ stack'[n + 1] = frame
  BY AppendProperties DEF HostStack
<1>2. n \in Nat
  BY LenProperties DEF HostStack
<1>3. \A i \in 1 .. n : stack'[i].kind # "native"
  BY <1>1 DEF HostStack
<1> HIDE DEF n
<1> QED
  BY <1>1, <1>2, <1>3

-----------------------------------------------------------------------------
(* Interpreter::call preserves the invariant, whatever on_call answers. *)
LEMMA CallPreserves ==
    ASSUME IInv, NEW f \in Func, NEW below, HostStack(below), ~NativeLive,
           Call(f, below), phase' = "running", UNCHANGED calls
    PROVE  IInv'
<1> USE DEF IInv
<1>0. /\ Len(regions) \in Nat
      /\ \A g \in Func : counts[g] \in 0 .. Threshold
      /\ \A g \in Func : compiled[g] \in 0 .. Len(regions)
      /\ \A g \in Func : ~IsCompiled(g) => counts[g] < Threshold
  BY LenProperties DEF TypeOK, ColdBelowThreshold, HostStack
<1>1. CASE EnterCompiled(f, below)
  <2>1. compiled[f] \in 1 .. Len(regions) /\ f \in regions[compiled[f]]
    BY <1>1 DEF EnterCompiled, EntryInRegion
  <2>2. Native(f, compiled[f]) \in Frames
    BY <1>0, <2>1, FrameTypes
  <2>3. /\ stack' \in Seq(Frames)
        /\ Len(stack') \in Nat
        /\ Len(stack') > 0
        /\ \A i \in 1 .. Len(stack') : stack'[i].kind = "native" =>
              i = Len(stack') /\ stack'[i] = Native(f, compiled[f])
    BY <1>1, <2>2, PushOnHost DEF EnterCompiled
  <2>4. UNCHANGED <<counts, compiled, regions>>
    BY <1>1 DEF EnterCompiled
  <2>5. TypeOK' /\ StackMatchesPhase'
    BY <2>3, <2>4 DEF TypeOK, StackMatchesPhase
  <2>6. ColdBelowThreshold' /\ EntryInRegion' /\ RegionsClosed' /\ RegionsBounded'
    BY <2>4 DEF ColdBelowThreshold, EntryInRegion, RegionsClosed,
                RegionsBounded, IsCompiled, CallClosed, HostStack
  <2>7. NativeInRegion' /\ EntryIsCurrent'
    BY <2>1, <2>3, <2>4 DEF NativeInRegion, EntryIsCurrent, Native
  <2>8. NoWayBack'
    BY <2>3 DEF NoWayBack
  <2> QED
    BY <2>5, <2>6, <2>7, <2>8
<1>2. CASE EnterCold(f, below)
  <2>1. /\ stack' \in Seq(Frames)
        /\ Len(stack') \in Nat
        /\ Len(stack') > 0
        /\ \A i \in 1 .. Len(stack') : stack'[i].kind = "native" =>
              i = Len(stack') /\ stack'[i] = Interp(f)
    BY <1>2, FrameTypes, PushOnHost DEF EnterCold
  <2>2. \A i \in 1 .. Len(stack') : stack'[i].kind # "native"
    BY <2>1 DEF Interp
  <2>3. /\ UNCHANGED <<compiled, regions>>
        /\ counts' = [counts EXCEPT ![f] = @ + 1]
        /\ counts[f] + 1 < Threshold
    BY <1>2 DEF EnterCold, Count, StaysCold
  <2>4. \A g \in Func : counts'[g] = IF g = f THEN counts[f] + 1 ELSE counts[g]
    BY <2>3 DEF TypeOK
  <2>5. counts' \in [Func -> 0 .. Threshold]
    BY <1>0, <2>3, ThresholdPositive DEF TypeOK
  <2>6. TypeOK' /\ StackMatchesPhase'
    BY <2>1, <2>3, <2>5 DEF TypeOK, StackMatchesPhase
  <2>7. ColdBelowThreshold'
    BY <1>0, <2>3, <2>4 DEF ColdBelowThreshold, IsCompiled
  <2>8. EntryInRegion' /\ RegionsClosed' /\ RegionsBounded'
    BY <2>3 DEF EntryInRegion, RegionsClosed, RegionsBounded, IsCompiled, CallClosed
  <2>9. NativeInRegion' /\ EntryIsCurrent' /\ NoWayBack'
    BY <2>2 DEF NativeInRegion, EntryIsCurrent, NoWayBack
  <2> QED
    BY <2>6, <2>7, <2>8, <2>9
<1>3. CASE EnterHot(f, below)
  <2> DEFINE r == Len(regions) + 1
  <2>1. /\ Len(regions') = r
        /\ regions' \in Seq(SUBSET Func)
        /\ \A q \in 1 .. Len(regions) : regions'[q] = regions[q]
        /\ regions'[r] = HotSetOf(f)
        /\ compiled' \in [Func -> 0 .. Len(regions')]
        /\ f \in HotSetOf(f)
        /\ HotSetOf(f) \in SUBSET Func
        /\ CallClosed(calls, HotSetOf(f))
        /\ \A g \in Func : compiled'[g] =
              IF g \in HotSetOf(f) THEN r ELSE compiled[g]
    BY <1>3, CompileFacts DEF EnterHot
  <2>2. r \in Nat /\ r > 0 /\ 1 .. r = (1 .. Len(regions)) \cup {r}
    BY <1>0
  <2>3. Native(f, r) \in Frames
    BY <2>2, FrameTypes
  <2>4. /\ stack' \in Seq(Frames)
        /\ Len(stack') \in Nat
        /\ Len(stack') > 0
        /\ \A i \in 1 .. Len(stack') : stack'[i].kind = "native" =>
              i = Len(stack') /\ stack'[i] = Native(f, r)
    BY <1>3, <2>3, PushOnHost DEF EnterHot
  <2>5. /\ counts' = [counts EXCEPT ![f] = @ + 1]
        /\ ~IsCompiled(f)
    BY <1>3 DEF EnterHot, Count
  <2>6. \A g \in Func : counts'[g] = IF g = f THEN counts[f] + 1 ELSE counts[g]
    BY <2>5 DEF TypeOK
  <2>7. counts' \in [Func -> 0 .. Threshold]
    BY <1>0, <2>5, ThresholdPositive DEF TypeOK
  <2>8. \A g \in Func : IsCompiled(g)' <=> (g \in HotSetOf(f) \/ IsCompiled(g))
    BY <2>1, <2>2 DEF IsCompiled
  <2>9. TypeOK' /\ StackMatchesPhase'
    BY <2>1, <2>4, <2>7 DEF TypeOK, StackMatchesPhase
  <2>10. ColdBelowThreshold'
    BY <1>0, <2>1, <2>6, <2>8 DEF ColdBelowThreshold
  <2> HIDE DEF r
  <2>11. EntryInRegion'
    <3> SUFFICES ASSUME NEW g \in Func, IsCompiled(g)'
                 PROVE  compiled'[g] \in 1 .. r /\ g \in regions'[compiled'[g]]
      BY <2>1 DEF EntryInRegion
    <3>1. CASE g \in HotSetOf(f)
      BY <2>1, <2>2, <3>1
    <3>2. CASE g \notin HotSetOf(f)
      <4>1. IsCompiled(g) /\ compiled'[g] = compiled[g]
        BY <2>1, <2>8, <3>2
      <4>2. compiled[g] \in 1 .. Len(regions) /\ g \in regions[compiled[g]]
        BY <4>1 DEF EntryInRegion
      <4> QED
        BY <2>1, <2>2, <4>1, <4>2
    <3> QED
      BY <3>1, <3>2
  <2>12. RegionsClosed'
    <3> SUFFICES ASSUME NEW q \in 1 .. r
                 PROVE  /\ CallClosed(calls, regions'[q])
                        /\ \A g \in regions'[q] : IsCompiled(g)'
      BY <2>1 DEF RegionsClosed, CallClosed
    <3>1. CASE q = r
      BY <2>1, <2>8, <3>1
    <3>2. CASE q \in 1 .. Len(regions)
      <4>1. CallClosed(calls, regions[q]) /\ \A g \in regions[q] : IsCompiled(g)
        BY <3>2 DEF RegionsClosed
      <4>2. regions[q] \in SUBSET Func
        BY <3>2, ElementOfSeq DEF TypeOK
      <4> QED
        BY <2>1, <2>8, <3>2, <4>1, <4>2
    <3> QED
      BY <2>2, <3>1, <3>2
  <2>13. RegionsBounded'
    <3> DEFINE Old == {g \in Func : IsCompiled(g)}
               New == {g \in Func : IsCompiled(g)'}
    <3>1. IsFiniteSet(Old) /\ IsFiniteSet(New)
      BY FuncFinite, FS_Subset
    <3>2. f \notin Old /\ Old \cup {f} \subseteq New
      BY <2>1, <2>5, <2>8
    <3>3. /\ Cardinality(Old) \in Nat
          /\ Cardinality(New) \in Nat
          /\ Cardinality(Old \cup {f}) = Cardinality(Old) + 1
          /\ Cardinality(Old \cup {f}) <= Cardinality(New)
      BY <3>1, <3>2, FS_AddElement, FS_Subset, FS_CardinalityType
    <3>4. Len(regions) <= Cardinality(Old)
      BY DEF RegionsBounded
    <3> HIDE DEF Old, New
    <3>5. r <= Cardinality(New)
      BY <1>0, <3>3, <3>4 DEF r
    <3> QED
      BY <2>1, <3>5 DEF RegionsBounded, New
  <2>14. NativeInRegion' /\ EntryIsCurrent' /\ NoWayBack'
    BY <2>1, <2>2, <2>4 DEF NativeInRegion, EntryIsCurrent, NoWayBack, Native
  <2> QED
    BY <2>9, <2>10, <2>11, <2>12, <2>13, <2>14
<1> QED
  BY <1>1, <1>2, <1>3 DEF Call

(* The steps of interpreted code that are not calls. *)
LEMMA BeginCallPreserves ==
    ASSUME IInv, BeginCall
    PROVE  IInv'
<1> USE DEF IInv
<1>1. /\ stack \in Seq(Frames) /\ Len(stack) \in Nat /\ Len(stack) > 0
      /\ phase = "running" /\ Top.kind \in {"interp", "args"}
      /\ UNCHANGED <<calls, counts, compiled, regions, phase>>
  BY DEF BeginCall, TypeOK, StackMatchesPhase
<1>2. HostStack(stack)
  <2>1. stack[Len(stack)].kind # "native"
    BY <1>1 DEF Top
  <2>2. \A i \in 1 .. Len(stack) : stack[i].kind # "native"
    BY <1>1, <2>1 DEF NoWayBack
  <2> QED
    BY <1>1, <2>2 DEF HostStack
<1>3. PICK g \in calls[Top.body] : stack' = Append(stack, Pending(Top.body, g))
  BY DEF BeginCall
<1>4. Pending(Top.body, g) \in Frames
  <2>1. Top.body \in Func
    BY <1>1, PopFacts DEF Frames
  <2>2. g \in Func
    BY <1>3, <2>1 DEF TypeOK, CallGraphs
  <2> QED
    BY <2>1, <2>2, FrameTypes
<1>5. /\ stack' \in Seq(Frames)
      /\ Len(stack') \in Nat
      /\ Len(stack') > 0
      /\ \A i \in 1 .. Len(stack') : stack'[i].kind # "native"
  BY <1>2, <1>3, <1>4, PushOnHost DEF Pending
<1>6. TypeOK' /\ StackMatchesPhase'
  BY <1>1, <1>5 DEF TypeOK, StackMatchesPhase
<1>7. ColdBelowThreshold' /\ EntryInRegion' /\ RegionsClosed' /\ RegionsBounded'
  BY <1>1 DEF ColdBelowThreshold, EntryInRegion, RegionsClosed, RegionsBounded,
              IsCompiled, CallClosed
<1>8. NativeInRegion' /\ EntryIsCurrent' /\ NoWayBack'
  BY <1>5 DEF NativeInRegion, EntryIsCurrent, NoWayBack
<1> QED
  BY <1>6, <1>7, <1>8

(* A BL stays in its buffer: the buffer is closed and holds the caller. *)
LEMMA NativeCallPreserves ==
    ASSUME IInv, NativeCall
    PROVE  IInv'
<1> USE DEF IInv
<1> DEFINE n == Len(stack)
<1>1. /\ stack \in Seq(Frames) /\ n \in Nat /\ n > 0
      /\ phase = "running" /\ Top.kind = "native"
      /\ UNCHANGED <<calls, counts, compiled, regions, phase>>
  BY DEF NativeCall, TypeOK, StackMatchesPhase
<1>2. PICK g \in calls[Top.body] : stack' = Append(stack, Native(g, Top.region))
  BY DEF NativeCall
<1>3. /\ Top.region \in 1 .. Len(regions)
      /\ Top.fn \in regions[Top.region]
      /\ Top.body = Top.fn
  BY <1>1 DEF NativeInRegion, Top
<1>4. g \in regions[Top.region] /\ g \in Func
  <2>1. CallClosed(calls, regions[Top.region])
    BY <1>3 DEF RegionsClosed
  <2>2. regions[Top.region] \in SUBSET Func
    BY <1>3, ElementOfSeq DEF TypeOK
  <2> QED
    BY <1>2, <1>3, <2>1, <2>2 DEF CallClosed
<1>5. Native(g, Top.region) \in Frames
  <2>1. Top.region \in Nat
    BY <1>1, PopFacts DEF Frames
  <2> QED
    BY <1>4, <2>1, FrameTypes
<1>6. /\ stack' \in Seq(Frames)
      /\ Len(stack') = n + 1
      /\ \A i \in 1 .. n : stack'[i] = stack[i]
      /\ stack'[n + 1] = Native(g, Top.region)
      /\ stack[n] = Top
  BY <1>1, <1>2, <1>5, AppendProperties DEF Top
<1> HIDE DEF n
<1>7. 1 .. n + 1 = (1 .. n) \cup {n + 1} /\ n + 1 > 0 /\ n \in 1 .. n
  BY <1>1
<1>8. TypeOK' /\ StackMatchesPhase'
  BY <1>1, <1>6, <1>7 DEF TypeOK, StackMatchesPhase
<1>9. ColdBelowThreshold' /\ EntryInRegion' /\ RegionsClosed' /\ RegionsBounded'
  BY <1>1 DEF ColdBelowThreshold, EntryInRegion, RegionsClosed, RegionsBounded,
              IsCompiled, CallClosed
<1>10. NativeInRegion'
  BY <1>1, <1>3, <1>4, <1>6, <1>7 DEF NativeInRegion, Native, n
<1>11. EntryIsCurrent'
  <2> SUFFICES ASSUME NEW i \in 1 .. n + 1, stack'[i].kind = "native",
                      i = 1 \/ stack'[i - 1].kind # "native"
               PROVE  stack'[i].region = compiled[stack'[i].fn]
    BY <1>1, <1>6 DEF EntryIsCurrent
  <2>1. i \in 1 .. n
    BY <1>1, <1>6, <1>7
  <2>2. i # 1 => i - 1 \in 1 .. n
    BY <1>1, <2>1
  <2> QED
    BY <1>6, <2>1, <2>2 DEF EntryIsCurrent, n
<1>12. NoWayBack'
  <2> SUFFICES ASSUME NEW i \in 1 .. n + 1, NEW j \in 1 .. n + 1, i < j,
                      stack'[i].kind = "native"
               PROVE  stack'[j].kind = "native" /\ stack'[j].region = stack'[i].region
    BY <1>6 DEF NoWayBack
  <2>1. i \in 1 .. n
    BY <1>1
  <2>2. stack[i].kind = "native" /\ stack[i].region = Top.region
    BY <1>1, <1>6, <1>7, <2>1 DEF NoWayBack, n
  <2>3. CASE j = n + 1
    BY <1>6, <2>1, <2>2, <2>3 DEF Native
  <2>4. CASE j \in 1 .. n
    BY <1>6, <2>1, <2>2, <2>4 DEF NoWayBack, n
  <2> QED
    BY <1>7, <2>3, <2>4
<1> QED
  BY <1>8, <1>9, <1>10, <1>11, <1>12

(* A return exposes frames that were there all along. *)
LEMMA ReturnPreserves ==
    ASSUME IInv, Return
    PROVE  IInv'
<1> USE DEF IInv
<1> DEFINE n == Len(stack)
<1>1. /\ stack \in Seq(Frames) /\ n \in Nat /\ n > 0
      /\ stack' = Popped
      /\ phase = "running"
      /\ phase' = IF n = 1 THEN "done" ELSE "running"
      /\ UNCHANGED <<calls, counts, compiled, regions>>
  BY DEF Return, TypeOK, StackMatchesPhase
<1>2. /\ stack' \in Seq(Frames)
      /\ Len(stack') = n - 1
      /\ \A i \in 1 .. n - 1 : stack'[i] = stack[i]
  BY <1>1, PopFacts
<1>3. 1 .. n - 1 \subseteq 1 .. n
  BY <1>1
<1>4. NativeInRegion'
  BY <1>1, <1>2, <1>3 DEF NativeInRegion
<1>5. NoWayBack'
  BY <1>2, <1>3 DEF NoWayBack
<1>6. EntryIsCurrent'
  <2> SUFFICES ASSUME NEW i \in 1 .. n - 1, stack'[i].kind = "native",
                      i = 1 \/ stack'[i - 1].kind # "native"
               PROVE  stack'[i].region = compiled[stack'[i].fn]
    BY <1>1, <1>2 DEF EntryIsCurrent
  <2>1. i # 1 => i - 1 \in 1 .. n - 1
    BY <1>1
  <2> QED
    BY <1>2, <1>3, <2>1 DEF EntryIsCurrent
<1>7. ColdBelowThreshold' /\ EntryInRegion' /\ RegionsClosed' /\ RegionsBounded'
  BY <1>1 DEF ColdBelowThreshold, EntryInRegion, RegionsClosed, RegionsBounded,
              IsCompiled, CallClosed
<1> HIDE DEF n
<1>8. TypeOK' /\ StackMatchesPhase'
  BY <1>1, <1>2 DEF TypeOK, StackMatchesPhase
<1> QED
  BY <1>4, <1>5, <1>6, <1>7, <1>8

(* The two ways the process dies leave every table as it is. *)
LEMMA AbortsPreserve ==
    ASSUME IInv, DivZero \/ CompileAborts
    PROVE  IInv'
<1> USE DEF IInv
<1>1. phase' = "aborted" /\ UNCHANGED <<calls, compiled, regions, stack>>
  BY DEF DivZero, CompileAborts
<1>2. counts' \in [Func -> 0 .. Threshold]
  <2>1. CASE DivZero
    BY <2>1 DEF DivZero, TypeOK
  <2>2. CASE CompileAborts
    <3>1. PICK f \in Func : Entering(f) /\ ~IsCompiled(f) /\ Count(f)
      BY <2>2 DEF CompileAborts
    <3>2. counts[f] \in 0 .. Threshold /\ counts[f] < Threshold
      BY <3>1 DEF ColdBelowThreshold, Entering, TypeOK
    <3> QED
      BY <3>1, <3>2, ThresholdPositive DEF Count, TypeOK
  <2> QED
    BY <2>1, <2>2
<1>3. TypeOK' /\ StackMatchesPhase' /\ ColdBelowThreshold'
  BY <1>1, <1>2 DEF TypeOK, StackMatchesPhase, ColdBelowThreshold
<1>4. EntryInRegion' /\ RegionsClosed' /\ RegionsBounded'
  BY <1>1 DEF EntryInRegion, RegionsClosed, RegionsBounded, IsCompiled, CallClosed
<1>5. NativeInRegion' /\ NoWayBack' /\ EntryIsCurrent'
  BY <1>1 DEF NativeInRegion, NoWayBack, EntryIsCurrent
<1> QED
  BY <1>3, <1>4, <1>5

-----------------------------------------------------------------------------
(* The invariant of every tiered run *)

LEMMA InitEstablishes == Init => IInv
<1> SUFFICES ASSUME Init PROVE IInv
  OBVIOUS
<1>1. Len(<<>>) = 0 /\ Len(stack) = 0 /\ Len(regions) = 0
  BY DEF Init
<1>2. TypeOK
  BY <1>1, ThresholdPositive, GraphsAreCallGraphs DEF Init, TypeOK
<1>3. RegionsBounded
  <2>1. Cardinality({f \in Func : IsCompiled(f)}) \in Nat
    BY FuncFinite, FS_Subset, FS_CardinalityType
  <2> QED
    BY <1>1, <2>1 DEF RegionsBounded
<1>4. /\ StackMatchesPhase /\ ColdBelowThreshold /\ EntryInRegion
      /\ RegionsClosed /\ NativeInRegion /\ NoWayBack /\ EntryIsCurrent
  BY <1>1, ThresholdPositive
  DEF Init, StackMatchesPhase, ColdBelowThreshold, EntryInRegion, RegionsClosed,
      NativeInRegion, NoWayBack, EntryIsCurrent, IsCompiled
<1> QED
  BY <1>2, <1>3, <1>4 DEF IInv

LEMMA NextPreserves == IInv /\ [Next]_vars => IInv'
<1> SUFFICES ASSUME IInv, [Next]_vars PROVE IInv'
  OBVIOUS
<1>1. CASE Start \/ FinishArgs
  BY <1>1, CallersAreInterpreted, CallPreserves
<1>2. CASE BeginCall
  BY <1>2, BeginCallPreserves
<1>3. CASE NativeCall
  BY <1>3, NativeCallPreserves
<1>4. CASE Return
  BY <1>4, ReturnPreserves
<1>5. CASE DivZero \/ CompileAborts
  BY <1>5, AbortsPreserve
<1>6. CASE UNCHANGED vars
  BY <1>6 DEF vars, IInv, TypeOK, StackMatchesPhase, ColdBelowThreshold,
      EntryInRegion, RegionsClosed, NativeInRegion, NoWayBack, EntryIsCurrent,
      RegionsBounded, IsCompiled, CallClosed
<1> QED
  BY <1>1, <1>2, <1>3, <1>4, <1>5, <1>6 DEF Next

(* The conjuncts above hold in every reachable state of every program. *)
THEOREM Invariance == Spec => []IInv
  BY InitEstablishes, NextPreserves, PTL DEF Spec

(* Type correctness: among others, counts_ never passes the threshold. *)
THEOREM TypeCorrect == Spec => []TypeOK
<1>1. IInv => TypeOK
  BY DEF IInv
<1> QED
  BY <1>1, Invariance, PTL

(* Compiled code never reaches a call whose target its buffer lacks. *)
THEOREM NativeCallsResolve == Spec => []NativeCallResolves
<1>1. IInv => NativeCallResolves
  BY DEF IInv, NativeCallResolves, NativeInRegion, RegionsClosed, CallClosed
<1> QED
  BY <1>1, Invariance, PTL

(* Compiled code never comes back to the interpreter for a call. *)
THEOREM NoRouteBack == Spec => []NoWayBack
<1>1. IInv => NoWayBack
  BY DEF IInv
<1> QED
  BY <1>1, Invariance, PTL

(* Every address compiled_ hands out is that of a live copy. *)
THEOREM EntriesAreLive == Spec => []EntryInRegion
<1>1. IInv => EntryInRegion
  BY DEF IInv
<1> QED
  BY <1>1, Invariance, PTL

(* The compiled functions are closed under calls at all times. *)
THEOREM CompiledSetClosed == Spec => []CompiledClosed
<1>1. ASSUME IInv, NEW f \in Func, IsCompiled(f), NEW g \in calls[f]
      PROVE  IsCompiled(g)
  <2>1. compiled[f] \in 1 .. Len(regions) /\ f \in regions[compiled[f]]
    BY <1>1 DEF IInv, EntryInRegion
  <2>2. g \in regions[compiled[f]]
    BY <1>1, <2>1 DEF IInv, RegionsClosed, CallClosed
  <2> QED
    BY <1>1, <2>1, <2>2 DEF IInv, RegionsClosed
<1>2. IInv => CompiledClosed
  BY <1>1 DEF CompiledClosed
<1> QED
  BY <1>2, Invariance, PTL

(* No function is left cold at the threshold. *)
THEOREM ColdIsBelowThreshold == Spec => []ColdBelowThreshold
<1>1. IInv => ColdBelowThreshold
  BY DEF IInv
<1> QED
  BY <1>1, Invariance, PTL

(* There are never more buffers than compiled functions. *)
THEOREM RegionsStayBounded == Spec => []RegionsBounded
<1>1. IInv => RegionsBounded
  BY DEF IInv
<1> QED
  BY <1>1, Invariance, PTL

(* The host enters a function only in its newest copy. *)
THEOREM EntriesAreCurrent == Spec => []EntryIsCurrent
<1>1. IInv => EntryIsCurrent
  BY DEF IInv
<1> QED
  BY <1>1, Invariance, PTL

-----------------------------------------------------------------------------
(* What a step never does *)

(* Tables change only in a call, and a call only with nothing native live. *)
THEOREM CompilesOffStack == Spec => CompileOffStack
<1>1. ASSUME IInv, [Next]_vars, <<compiled, regions>>' # <<compiled, regions>>
      PROVE  ~NativeLive
  <2>1. Start \/ FinishArgs
    BY <1>1 DEF Next, vars, BeginCall, NativeCall, Return, DivZero, CompileAborts
  <2> QED
    BY <1>1, <2>1, CallersAreInterpreted
<1>2. IInv /\ [Next]_vars =>
        [<<compiled, regions>>' # <<compiled, regions>> => ~NativeLive]_vars
  BY <1>1
<1> QED
  BY <1>2, Invariance, PTL DEF Spec, CompileOffStack

(* A call binds entries and takes none away. *)
LEMMA CallKeepsCompiled ==
    ASSUME IInv, NEW f \in Func, NEW below, Call(f, below),
           NEW g \in Func, IsCompiled(g)
    PROVE  IsCompiled(g)'
<1>1. CASE EnterCompiled(f, below) \/ EnterCold(f, below)
  BY <1>1 DEF EnterCompiled, EnterCold, IsCompiled
<1>2. CASE EnterHot(f, below)
  <2>1. /\ Len(regions) \in Nat
        /\ compiled'[g] = IF g \in HotSetOf(f) THEN Len(regions) + 1
                          ELSE compiled[g]
    BY <1>2, CompileFacts DEF EnterHot, IInv
  <2> QED
    BY <2>1 DEF IsCompiled
<1> QED
  BY <1>1, <1>2 DEF Call

(* The frame a call pushes is interpreted only for a function still cold. *)
LEMMA CallWalksOnlyCold ==
    ASSUME NEW f \in Func, NEW below \in Seq(Frames), Call(f, below),
           Len(regions) \in Nat, compiled \in [Func -> Nat],
           NEW g \in Func, IsCompiled(g),
           NEW rest \in Seq(Frames), stack' = Append(rest, Interp(g))
    PROVE  FALSE
<1>1. Interp(g) \in Frames /\ Interp(f) \in Frames /\ compiled[f] \in Nat
  BY FrameTypes
<1>2. stack'[Len(stack')] = Interp(g)
  BY <1>1, AppendProperties
<1>3. CASE EnterCompiled(f, below)
  <2>1. Native(f, compiled[f]) \in Frames
    BY <1>1, FrameTypes
  <2>2. stack'[Len(stack')] = Native(f, compiled[f])
    BY <1>3, <2>1, AppendProperties DEF EnterCompiled
  <2> QED
    BY <1>2, <2>2 DEF Native, Interp
<1>4. CASE EnterCold(f, below)
  <2>1. stack'[Len(stack')] = Interp(f)
    BY <1>1, <1>4, AppendProperties DEF EnterCold
  <2>2. f = g
    BY <1>2, <2>1 DEF Interp
  <2> QED
    BY <1>4, <2>2 DEF EnterCold
<1>5. CASE EnterHot(f, below)
  <2>1. Native(f, Len(regions) + 1) \in Frames
    BY FrameTypes
  <2>2. stack'[Len(stack')] = Native(f, Len(regions) + 1)
    BY <1>5, <2>1, AppendProperties DEF EnterHot
  <2> QED
    BY <1>2, <2>2 DEF Native, Interp
<1> QED
  BY <1>3, <1>4, <1>5 DEF Call

(* Once native, always native. *)
THEOREM HotStaysHot == Spec => HotStaysNative
<1>1. ASSUME IInv, [Next]_vars, NEW g \in Func, IsCompiled(g)
      PROVE  IsCompiled(g)'
  <2>1. CASE Start \/ FinishArgs
    BY <1>1, <2>1, CallersAreInterpreted, CallKeepsCompiled
  <2>2. CASE ~(Start \/ FinishArgs)
    BY <1>1, <2>2 DEF Next, vars, BeginCall, NativeCall, Return, DivZero,
                      CompileAborts, IsCompiled
  <2> QED
    BY <2>1, <2>2
<1>2. ASSUME IInv, [Next]_vars, NEW g \in Func, IsCompiled(g), StartsWalking(g)
      PROVE  FALSE
  <2>1. /\ stack \in Seq(Frames) /\ Len(stack) \in Nat
        /\ Len(regions) \in Nat /\ compiled \in [Func -> Nat]
    BY <1>1, <1>2, LenProperties DEF IInv, TypeOK
  <2>2. Popped \in Seq(Frames)
    <3>1. CASE Len(stack) > 0
      BY <2>1, <3>1, PopFacts
    <3>2. CASE Len(stack) = 0
      BY <2>1, <3>2, SubSeqEmpty DEF Popped
    <3> QED
      BY <2>1, <3>1, <3>2
  <2>3. CASE Start \/ FinishArgs
    <3>1. PICK f \in Func : \E below : HostStack(below) /\ Call(f, below)
      BY <1>2, <2>3, CallersAreInterpreted
    <3> QED
      BY <1>2, <2>1, <2>2, <3>1, CallWalksOnlyCold DEF StartsWalking, HostStack
  <2>4. CASE BeginCall \/ NativeCall \/ Return
    <3> DEFINE n == Len(stack)
    <3>1. n > 0 /\ Len(Popped) = n - 1
      BY <1>2, <2>1, <2>4, PopFacts
      DEF IInv, StackMatchesPhase, BeginCall, NativeCall, Return
    <3>2. Len(stack') = n - 1 + 1
      BY <1>2, <2>2, <3>1, FrameTypes, AppendProperties DEF StartsWalking
    <3>3. Len(stack') = n + 1 \/ Len(stack') = n - 1
      <4>1. CASE BeginCall
        <5>1. Len(stack') = n + 1
          BY <2>1, <4>1, LenProperties DEF BeginCall
        <5> QED
          BY <5>1
      <4>2. CASE NativeCall
        <5>1. Len(stack') = n + 1
          BY <2>1, <4>2, LenProperties DEF NativeCall
        <5> QED
          BY <5>1
      <4>3. CASE Return
        BY <3>1, <4>3 DEF Return
      <4> QED
        BY <2>4, <4>1, <4>2, <4>3
    <3> HIDE DEF n
    <3>4. n \in Nat
      BY <2>1 DEF n
    <3> QED
      BY <3>2, <3>3, <3>4
  <2>5. CASE DivZero \/ CompileAborts \/ UNCHANGED vars
    BY <1>2, <2>5 DEF DivZero, CompileAborts, vars, StartsWalking
  <2> QED
    BY <1>2, <2>3, <2>4, <2>5 DEF Next
<1>3. IInv /\ [Next]_vars =>
        [\A f \in Func : IsCompiled(f) => IsCompiled(f)' /\ ~StartsWalking(f)]_vars
  BY <1>1, <1>2
<1> QED
  BY <1>3, Invariance, PTL DEF Spec, HotStaysNative

-----------------------------------------------------------------------------
(***************************************************************************)
(* Refinement: a cold entry is the policy's Walk, a hot one its Promote,   *)
(* and every other step leaves what the policy sees unchanged.             *)
(***************************************************************************)
LEMMA CallRefines ==
    ASSUME IInv, NEW f \in Func, NEW below, phase # "aborted",
           Call(f, below), UNCHANGED calls
    PROVE  [Policy!Next]_(Policy!vars)
<1> DEFINE walked == [g \in Func |-> IF counts[g] = Threshold THEN Threshold - 1
                                     ELSE counts[g]]
           native == {g \in Func : IsCompiled(g)}
<1>1. /\ counts \in [Func -> 0 .. Threshold]
      /\ ~IsCompiled(f) => counts[f] < Threshold
      /\ Threshold \in Nat \ {0}
  BY ThresholdPositive DEF IInv, TypeOK, ColdBelowThreshold
<1>2. CASE EnterCompiled(f, below)
  BY <1>2 DEF EnterCompiled, Policy!vars, IsCompiled
<1>3. CASE EnterCold(f, below)
  <2>1. /\ counts' = [counts EXCEPT ![f] = @ + 1]
        /\ counts[f] + 1 < Threshold
        /\ f \notin native
        /\ UNCHANGED <<compiled, regions>>
    BY <1>3 DEF EnterCold, Count, StaysCold
  <2>2. walked[f] + 1 < Threshold
    BY <1>1, <2>1
  <2>3. walked' = [walked EXCEPT ![f] = @ + 1]
    <3> DEFINE Shown(c) == IF c = Threshold THEN Threshold - 1 ELSE c
    <3>1. counts[f] + 1 # Threshold /\ counts[f] # Threshold
      BY <1>1, <2>1
    <3>2. \A g \in Func : counts'[g] = IF g = f THEN counts[f] + 1 ELSE counts[g]
      BY <1>1, <2>1
    <3>3. Shown(counts[f]) = counts[f] /\ Shown(counts[f] + 1) = counts[f] + 1
      BY <3>1
    <3> HIDE DEF Shown
    <3>4. \A g \in Func : Shown(counts'[g]) =
            IF g = f THEN Shown(counts[f]) + 1 ELSE Shown(counts[g])
      BY <3>2, <3>3
    <3>5. [g \in Func |-> Shown(counts'[g])]
            = [[g \in Func |-> Shown(counts[g])] EXCEPT ![f] = @ + 1]
      BY <3>4
    <3> QED
      BY <3>5 DEF Shown
  <2>4. native' = native
    BY <2>1 DEF IsCompiled
  <2>5. Policy!Walk(f)
    BY <2>1, <2>2, <2>3, <2>4 DEF Policy!Walk
  <2> QED
    BY <2>5 DEF Policy!Next
<1>4. CASE EnterHot(f, below)
  <2>1. /\ counts' = [counts EXCEPT ![f] = @ + 1]
        /\ ~(counts[f] + 1 < Threshold)
        /\ f \notin native
    BY <1>4 DEF EnterHot, Count, StaysCold
  <2>2. counts[f] = Threshold - 1
    BY <1>1, <2>1
  <2>3. walked[f] + 1 = Threshold
    BY <1>1, <2>2
  <2>4. walked' = walked
    BY <1>1, <2>1, <2>2
  <2>5. native' = native \cup Reachable(calls, f)
    <3>1. /\ Len(regions) \in Nat
          /\ HotSetOf(f) \in SUBSET Func
          /\ \A g \in Func : compiled'[g] =
                IF g \in HotSetOf(f) THEN Len(regions) + 1 ELSE compiled[g]
      BY <1>4, CompileFacts DEF EnterHot, IInv
    <3>2. \A g \in Func : IsCompiled(g)' <=> (g \in HotSetOf(f) \/ IsCompiled(g))
      BY <3>1 DEF IsCompiled
    <3> QED
      BY <3>1, <3>2 DEF HotSetOf
  <2>6. Policy!Promote(f)
    BY <2>1, <2>3, <2>4, <2>5
    DEF Policy!Promote, Policy!Reachable, Reachable, Policy!CallClosed, CallClosed
  <2> QED
    BY <2>6 DEF Policy!Next
<1> QED
  BY <1>2, <1>3, <1>4 DEF Call

LEMMA AbortRefines ==
    ASSUME IInv, CompileAborts
    PROVE  UNCHANGED Policy!vars
<1>1. PICK f \in Func : Entering(f) /\ ~IsCompiled(f) /\ ~StaysCold(f) /\ Count(f)
  BY DEF CompileAborts
<1>2. /\ counts \in [Func -> 0 .. Threshold]
      /\ counts[f] < Threshold
      /\ Threshold \in Nat \ {0}
  BY <1>1, ThresholdPositive DEF IInv, TypeOK, ColdBelowThreshold, Entering
<1>3. /\ counts' = [counts EXCEPT ![f] = @ + 1]
      /\ ~(counts[f] + 1 < Threshold)
  BY <1>1 DEF Count, StaysCold
<1>4. counts[f] = Threshold - 1
  BY <1>2, <1>3
<1>5. \A g \in Func :
        (IF counts'[g] = Threshold THEN Threshold - 1 ELSE counts'[g])
          = (IF counts[g] = Threshold THEN Threshold - 1 ELSE counts[g])
  BY <1>2, <1>3, <1>4
<1> QED
  BY <1>5 DEF CompileAborts, Policy!vars, IsCompiled

(* Tiered execution implements the policy: every program, every threshold. *)
THEOREM TieringImplementsPolicy == Spec => ImplementsPolicy
<1>1. Init => Policy!Init
  <2> SUFFICES ASSUME Init PROVE Policy!Init
    OBVIOUS
  <2>1. calls \in Policy!CallGraphs
    BY GraphsAreCallGraphs DEF Init, CallGraphs, Policy!CallGraphs
  <2> QED
    BY <2>1, ThresholdPositive DEF Init, Policy!Init, IsCompiled
<1>2. IInv /\ [Next]_vars => [Policy!Next]_(Policy!vars)
  <2> SUFFICES ASSUME IInv, [Next]_vars PROVE [Policy!Next]_(Policy!vars)
    OBVIOUS
  <2>1. CASE Start \/ FinishArgs
    BY <2>1, CallersAreInterpreted, CallRefines DEF HostStack
  <2>2. CASE CompileAborts
    BY <2>2, AbortRefines
  <2>3. CASE BeginCall \/ NativeCall \/ Return \/ DivZero \/ UNCHANGED vars
    BY <2>3 DEF BeginCall, NativeCall, Return, DivZero, vars, Policy!vars, IsCompiled
  <2> QED
    BY <2>1, <2>2, <2>3 DEF Next
<1> QED
  BY <1>1, <1>2, Invariance, PTL DEF Spec, ImplementsPolicy, Policy!Spec
=============================================================================
