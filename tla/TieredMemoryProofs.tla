------------------------- MODULE TieredMemoryProofs -------------------------
(***************************************************************************)
(* Tiered execution and its memory, together, for any program, threshold,  *)
(* number of lines and number of compilations: each sees of the other what *)
(* its own module assumes, so what is proved of either holds of both, and  *)
(* the processor runs the code that the tiers mean it to.                  *)
(***************************************************************************)
EXTENDS TieredMemory, FiniteSetTheorems, SequenceTheorems, TLAPS

(* What is proved of the two parts, with this module's variables. *)
TiP == INSTANCE TieringProofs WITH
        counts <- IF Idle THEN counts ELSE [counts EXCEPT ![hot] = @ - 1]
JP == INSTANCE JitMemoryProofs WITH phase <- memPhase

TierStep == [Ti!Next]_(Ti!vars)
MemoryStep == [J!Next]_(J!vars)

-----------------------------------------------------------------------------
(* The inductive invariant *)

(* A compilation is for a call that waits until it is over. *)
CompilesForACall ==
    /\ counts \in [Func -> Nat]
    /\ hot \in Func \cup {NoFunc}
    /\ ~Idle => Entering(hot) /\ ~IsCompiled(hot) /\ counts[hot] >= Threshold

(* The region whose code has control. *)
Control == IF stack # <<>> /\ Top.kind = "native" THEN Top.region ELSE NoObj

(* The regions there are: with the new one, once its constructor is over. *)
Built ==
    1 .. Len(regions) \cup (IF ~Idle /\ step = "idle" THEN {Len(regions) + 1} ELSE {})

(* The memory goes along with the tiers. *)
MemoryFollows ==
    /\ memPhase \in {"ok", "aborted"}
    /\ phase # "aborted" => memPhase = "ok"
    /\ Idle => step = "idle"
    /\ step # "idle" => building = Len(regions) + 1
    /\ ~Idle => Len(regions) + 1 \in Obj
    /\ phase # "aborted" => running = Control
    /\ phase = "done" => stack = <<>>
    /\ phase # "done" => live = Built

(* A region has lines, and its bytes are the code of the set it was made for. *)
CodeInPlace ==
    /\ \A r \in 1 .. Len(regions), l \in Line : image[r][l] = [of |-> regions[r]]
    /\ ~Idle => \A l \in Line : image[Len(regions) + 1][l] = [of |-> HotSetOf(hot)]
    /\ phase # "done" => \A r \in 1 .. Len(regions) : \E l \in Line : owner[l] = r
    /\ ~Idle => \E l \in Line : owner[l] = Len(regions) + 1

MInv ==
    /\ TiP!IInv
    /\ JP!IInv
    /\ CompilesForACall
    /\ MemoryFollows
    /\ CodeInPlace

-----------------------------------------------------------------------------
(* The names of the parts: the same operators under two names *)

LEMMA TiersAssumed ==
    /\ TiP!IsFiniteSet(Func) /\ Main \in Func /\ Threshold \in Nat \ {0}
    /\ MaxDepth \in Nat /\ Graphs \subseteq TiP!CallGraphs
BY FuncFinite, MainIsFunc, ThresholdPositive, DepthIsNat, GraphsAreCallGraphs
DEF TiP!IsFiniteSet, IsFiniteSet, TiP!CallGraphs, CallGraphs

LEMMA MemoryAssumed == Zero \in Word /\ NoObj \notin Obj /\ NoWord \notin Word
BY NoObjIsNoRegion, NoWordIsNoCode DEF Word

LEMMA TierOperators ==
    /\ \A f : Ti!HotSetOf(f) = TiP!HotSetOf(f)
    /\ Ti!Top = TiP!Top /\ Ti!Popped = TiP!Popped
    /\ \A f, r : Ti!Native(f, r) = TiP!Native(f, r)
    /\ \A f, g : Ti!Pending(f, g) = TiP!Pending(f, g)
    /\ \A f : Ti!Interp(f) = TiP!Interp(f)
    /\ \A f : Ti!IsCompiled(f) = TiP!IsCompiled(f)
    /\ \A f : Ti!StaysCold(f) = TiP!StaysCold(f)
    /\ \A f : Ti!Count(f) = TiP!Count(f)
BY DEF Ti!HotSetOf, TiP!HotSetOf, Ti!Reachable, TiP!Reachable, Ti!CallClosed, TiP!CallClosed,
       Ti!Top, TiP!Top, Ti!Popped, TiP!Popped, Ti!Native, TiP!Native, Ti!Pending, TiP!Pending,
       Ti!Interp, TiP!Interp, Ti!IsCompiled, TiP!IsCompiled, Ti!StaysCold, TiP!StaysCold,
       Ti!Count, TiP!Count

LEMMA TierNextIsOne == TierStep => [TiP!Next]_(TiP!vars)
<1>1. Ti!Next => TiP!Next
  BY TierOperators
  DEF Ti!Next, TiP!Next, Ti!Start, TiP!Start, Ti!BeginCall, TiP!BeginCall,
      Ti!FinishArgs, TiP!FinishArgs, Ti!NativeCall, TiP!NativeCall, Ti!Return, TiP!Return,
      Ti!DivZero, TiP!DivZero, Ti!CompileAborts, TiP!CompileAborts,
      Ti!Call, TiP!Call, Ti!EnterHot, TiP!EnterHot, Ti!EnterCold, TiP!EnterCold,
      Ti!EnterCompiled, TiP!EnterCompiled, Ti!CompileHot, TiP!CompileHot,
      Ti!Entering, TiP!Entering
<1>2. UNCHANGED Ti!vars => UNCHANGED TiP!vars
  BY DEF Ti!vars, TiP!vars
<1> QED  BY <1>1, <1>2 DEF TierStep

LEMMA MemoryNextIsOne == MemoryStep => [JP!Next]_(JP!vars)
<1>1. J!Next => JP!Next
  BY DEF J!Next, JP!Next, J!Map, JP!Map, J!MapFails, JP!MapFails, J!Unprotect, JP!Unprotect,
         J!Copy, JP!Copy, J!Protect, JP!Protect, J!Invalidate, JP!Invalidate,
         J!Destroy, JP!Destroy, J!Enter, JP!Enter, J!Leave, JP!Leave,
         J!Hardware, JP!Hardware, J!WriteBack, JP!WriteBack, J!Fill, JP!Fill,
         J!Evict, JP!Evict, J!LinesOf, JP!LinesOf, J!code, JP!code, J!caches, JP!caches
<1>2. UNCHANGED J!vars => UNCHANGED JP!vars
  BY DEF J!vars, JP!vars
<1> QED  BY <1>1, <1>2 DEF MemoryStep

(* What is proved of the parts is kept by their steps. *)
LEMMA PartsKeep ==
    ASSUME TiP!IInv, JP!IInv, TierStep, MemoryStep
    PROVE  TiP!IInv' /\ JP!IInv'
<1>1. TiP!IInv'
  <2>1. TiP!IInv /\ [TiP!Next]_(TiP!vars) => TiP!IInv'
    BY TiersAssumed, TiP!NextPreserves
  <2> QED  BY <2>1, TierNextIsOne
<1>2. JP!IInv'
  <2>1. JP!IInv /\ [JP!Next]_(JP!vars) => JP!IInv'
    BY MemoryAssumed, JP!NextPreserves
  <2> QED  BY <2>1, MemoryNextIsOne
<1> QED  BY <1>1, <1>2

(* What this module uses of it. *)
LEMMA TierFacts ==
    ASSUME TiP!IInv
    PROVE  /\ calls \in CallGraphs
           /\ regions \in Seq(SUBSET Func) /\ Len(regions) \in Nat
           /\ compiled \in [Func -> 0 .. Len(regions)]
           /\ stack \in Seq(Frames)
           /\ phase \in {"start", "running", "done", "aborted"}
           /\ phase = "start" => stack = <<>>
           /\ phase = "running" => Len(stack) > 0
           /\ NoWayBack
           /\ \A f \in Func : IsCompiled(f) => compiled[f] \in 1 .. Len(regions)
           /\ \A i \in 1 .. Len(stack) : stack[i].kind = "native" =>
                 /\ stack[i].region \in 1 .. Len(regions)
                 /\ {stack[i].fn} \cup calls[stack[i].fn] \subseteq regions[stack[i].region]
           /\ Len(regions) <= Cardinality({f \in Func : IsCompiled(f)})
<1>1. /\ calls \in CallGraphs
      /\ regions \in Seq(SUBSET Func) /\ Len(regions) \in Nat
      /\ compiled \in [Func -> 0 .. Len(regions)]
      /\ stack \in Seq(Frames)
      /\ phase \in {"start", "running", "done", "aborted"}
  <2>1. TiP!TypeOK
    BY DEF TiP!IInv
  <2>2. regions \in Seq(SUBSET Func)
    BY <2>1 DEF TiP!TypeOK
  <2> QED  BY <2>1, <2>2, LenProperties DEF TiP!TypeOK, TiP!CallGraphs, CallGraphs, TiP!Frames, Frames
<1>2. /\ phase = "start" => stack = <<>>
      /\ phase = "running" => Len(stack) > 0
  BY DEF TiP!IInv, TiP!StackMatchesPhase
<1>3. NoWayBack
  BY DEF TiP!IInv, TiP!NoWayBack, NoWayBack
<1>4. \A f \in Func : IsCompiled(f) => compiled[f] \in 1 .. Len(regions)
  BY DEF TiP!IInv, TiP!EntryInRegion, TiP!IsCompiled, IsCompiled
<1>5. \A i \in 1 .. Len(stack) : stack[i].kind = "native" =>
         /\ stack[i].region \in 1 .. Len(regions)
         /\ {stack[i].fn} \cup calls[stack[i].fn] \subseteq regions[stack[i].region]
  BY DEF TiP!IInv, TiP!NativeInRegion, TiP!RegionsClosed, TiP!CallClosed
<1>6. Len(regions) <= Cardinality({f \in Func : IsCompiled(f)})
  <2>1. Len(regions) <= TiP!Cardinality({f \in Func : TiP!IsCompiled(f)})
    BY DEF TiP!IInv, TiP!RegionsBounded
  <2>2. {f \in Func : TiP!IsCompiled(f)} = {f \in Func : IsCompiled(f)}
    BY DEF TiP!IsCompiled, IsCompiled
  <2>3. \A S : TiP!Cardinality(S) = Cardinality(S)
    BY DEF TiP!Cardinality, Cardinality
  <2> QED  BY <2>1, <2>2, <2>3
<1> QED  BY <1>1, <1>2, <1>3, <1>4, <1>5, <1>6

LEMMA MemoryFacts ==
    ASSUME JP!IInv
    PROVE  /\ owner \in [Line -> Obj \cup {NoObj}]
           /\ image \in [Obj -> [Line -> Word]]
           /\ live \in SUBSET Obj
           /\ step \in {"idle", "mapped", "copying", "protected"}
           /\ running \in live \cup {NoObj}
           /\ writable = (step = "copying")
           /\ memPhase # "crashed"
           /\ \A l \in Line : owner[l] \in live => J!Sees(l) = image[owner[l]][l]
<1>1. JP!TypeOK /\ JP!ViewFollowsStep /\ JP!LiveLinesHoldImage
  BY DEF JP!IInv
<1>2. ASSUME NEW l \in Line, owner[l] \in live
      PROVE  J!Sees(l) = image[owner[l]][l]
  BY <1>1, <1>2 DEF JP!LiveLinesHoldImage, J!Sees
<1> QED  BY <1>1, <1>2 DEF JP!TypeOK, JP!ViewFollowsStep

LEMMA PopFacts ==
    ASSUME stack \in Seq(Frames), Len(stack) > 0
    PROVE  /\ Popped \in Seq(Frames)
           /\ Len(Popped) = Len(stack) - 1
           /\ \A i \in 1 .. Len(stack) - 1 : Popped[i] = stack[i]
           /\ Top \in Frames
BY TiersAssumed, TiP!PopFacts
DEF TiP!Frames, Frames, TiP!Popped, Popped, TiP!Top, Top

LEMMA PushFacts ==
    ASSUME NEW below \in Seq(Frames), NEW frame \in Frames, stack' = Append(below, frame)
    PROVE  stack' # <<>> /\ Top' = frame
<1>1. /\ Len(stack') = Len(below) + 1 /\ stack'[Len(below) + 1] = frame
      /\ stack' \in Seq(Frames) /\ Len(below) \in Nat
  BY AppendProperties, LenProperties
<1>2. stack' # <<>>
  BY <1>1, EmptySeq
<1> QED  BY <1>1, <1>2 DEF Top

LEMMA FrameTypes ==
    ASSUME NEW f \in Func, NEW g \in Func, NEW r \in Nat
    PROVE  Interp(f) \in Frames /\ Pending(f, g) \in Frames /\ Native(f, r) \in Frames
BY DEF Frames, Interp, Pending, Native

(* Control is in the host when a call is about to be made. *)
LEMMA ControlInHost ==
    ASSUME MInv, phase = "start" \/ (phase = "running" /\ Top.kind # "native")
    PROVE  /\ running = NoObj /\ memPhase = "ok" /\ live = Built
           /\ Idle => step = "idle" /\ ~writable /\ live = 1 .. Len(regions)
<1>1. /\ phase = "start" => stack = <<>>
      /\ writable = (step = "copying")
  BY TierFacts, MemoryFacts DEF MInv
<1>2. running = NoObj /\ memPhase = "ok" /\ live = Built
  BY <1>1 DEF MInv, MemoryFollows, Control
<1> QED  BY <1>1, <1>2 DEF MInv, MemoryFollows, Built

-----------------------------------------------------------------------------
(* Steps of the tiers, as Tiering's *)

LEMMA TierActs ==
    ASSUME Idle, hot' = hot, Next
    PROVE  TierStep
<1>1. Idle'
  BY DEF Idle
<1>2. /\ \A f : Ti!HotSetOf(f) = HotSetOf(f)
      /\ Ti!Top = Top /\ Ti!Popped = Popped
      /\ \A f, r : Ti!Native(f, r) = Native(f, r)
      /\ \A f, g : Ti!Pending(f, g) = Pending(f, g)
      /\ \A f : Ti!Interp(f) = Interp(f)
      /\ \A f : Ti!IsCompiled(f) = IsCompiled(f)
      /\ \A f : Ti!StaysCold(f) = StaysCold(f)
      /\ \A f : Ti!Count(f) = Count(f)
  BY <1>1
  DEF Ti!HotSetOf, HotSetOf, Ti!Reachable, Reachable, Ti!CallClosed, CallClosed,
      Ti!Top, Top, Ti!Popped, Popped, Ti!Native, Native, Ti!Pending, Pending,
      Ti!Interp, Interp, Ti!IsCompiled, IsCompiled, Ti!StaysCold, StaysCold,
      Ti!Count, Count
<1>3. Ti!Next
  BY <1>1, <1>2
  DEF Ti!Next, Next, Ti!Start, Start, Ti!BeginCall, BeginCall,
      Ti!FinishArgs, FinishArgs, Ti!NativeCall, NativeCall, Ti!Return, Return,
      Ti!DivZero, DivZero, Ti!CompileAborts, CompileAborts,
      Ti!Call, Call, Ti!EnterHot, EnterHot, Ti!EnterCold, EnterCold,
      Ti!EnterCompiled, EnterCompiled, Ti!CompileHot, CompileHot,
      Ti!Entering, Entering
<1> QED  BY <1>3 DEF TierStep

LEMMA TierWaits ==
    ASSUME UNCHANGED <<tiers, hot>>
    PROVE  TierStep
BY DEF TierStep, Ti!vars, tiers, Idle

-----------------------------------------------------------------------------
(* Steps of the memory, as JitMemory's, and what they keep *)

Keeps == CompilesForACall' /\ MemoryFollows' /\ CodeInPlace'

(* The program goes on with control where it is. *)
LEMMA MemoryRests ==
    ASSUME MInv, Idle, UNCHANGED <<memory, hot, compiled, regions>>,
           counts' \in [Func -> Nat], phase \in {"start", "running"},
           phase' # "aborted" => running = Control',
           phase' = "done" => stack' = <<>>
    PROVE  MemoryStep /\ Keeps
<1>1. UNCHANGED <<owner, image, live, building, step, left, writable, running,
                  memPhase, mem, point, icache, hot, compiled, regions>>
  BY DEF memory
<1>2. MemoryStep
  BY <1>1 DEF MemoryStep, J!vars
<1>3. CompilesForACall'
  BY <1>1 DEF MInv, CompilesForACall, Idle
<1>4. MemoryFollows'
  <2>1. Built' = Built
    BY <1>1 DEF Built, Idle
  <2> QED  BY <1>1, <2>1 DEF MInv, MemoryFollows, Idle
<1>5. CodeInPlace'
  BY <1>1 DEF MInv, CodeInPlace, Idle
<1> QED  BY <1>2, <1>3, <1>4, <1>5 DEF Keeps

(* invoke: what is entered is there, and the view is closed. *)
LEMMA MemoryIsEntered ==
    ASSUME MInv, Idle, NEW r \in live, Jump(r), running = NoObj,
           UNCHANGED <<hot, counts, compiled, regions>>,
           phase \in {"start", "running"}, phase' = "running", Control' = r
    PROVE  MemoryStep /\ Keeps
<1>1. /\ phase # "aborted" /\ memPhase = "ok" /\ step = "idle" /\ ~writable
      /\ live = Built
  BY MemoryFacts DEF MInv, MemoryFollows
<1>2. /\ UNCHANGED <<owner, image, live, building, step, left, writable, memPhase,
                     mem, point, icache, hot, counts, compiled, regions>>
      /\ running' = r
  BY <1>1 DEF Jump
<1>3. MemoryStep
  BY <1>1, <1>2 DEF MemoryStep, J!Next, J!Enter, J!code, J!caches
<1>4. CompilesForACall'
  BY <1>2 DEF MInv, CompilesForACall, Idle
<1>5. MemoryFollows'
  <2>1. Built' = Built
    BY <1>2 DEF Built, Idle
  <2> QED  BY <1>1, <1>2, <2>1 DEF MInv, MemoryFollows, Idle
<1>6. CodeInPlace'
  BY <1>1, <1>2 DEF MInv, CodeInPlace, Idle
<1> QED  BY <1>3, <1>4, <1>5, <1>6 DEF Keeps

LEMMA MemoryIsLeft ==
    ASSUME MInv, Idle, Back, running # NoObj,
           UNCHANGED <<hot, counts, compiled, regions>>,
           phase = "running", Control' = NoObj,
           phase' = "done" => stack' = <<>>
    PROVE  MemoryStep /\ Keeps
<1>1. memPhase = "ok" /\ live = Built
  BY DEF MInv, MemoryFollows
<1>2. /\ UNCHANGED <<owner, image, live, building, step, left, writable, memPhase,
                     mem, point, icache, hot, counts, compiled, regions>>
      /\ running' = NoObj
  BY DEF Back
<1>3. MemoryStep
  BY <1>1, <1>2 DEF MemoryStep, J!Next, J!Leave, J!code, J!caches
<1>4. CompilesForACall'
  BY <1>2 DEF MInv, CompilesForACall, Idle
<1>5. MemoryFollows'
  <2>1. Built' = Built
    BY <1>2 DEF Built, Idle
  <2> QED  BY <1>1, <1>2, <2>1 DEF MInv, MemoryFollows, Idle
<1>6. CodeInPlace'
  BY <1>1, <1>2 DEF MInv, CodeInPlace, Idle
<1> QED  BY <1>3, <1>4, <1>5, <1>6 DEF Keeps

-----------------------------------------------------------------------------
(* The calls of the interpreter that compile nothing *)

LEMMA CallKeeps ==
    ASSUME MInv, Idle, NEW f \in Func, NEW below \in Seq(Frames), CallSettled(f, below),
           phase = "start" \/ (phase = "running" /\ Top.kind # "native"),
           phase' = "running"
    PROVE  MemoryStep /\ Keeps /\ hot' = hot
<1>1. running = NoObj /\ live = 1 .. Len(regions)
  BY ControlInHost
<1>2. CASE CallCompiled(f, below)
  <2>1. /\ compiled[f] \in 1 .. Len(regions) /\ Len(regions) \in Nat
        /\ UNCHANGED <<counts, compiled, regions, hot>>
        /\ stack' = Append(below, Native(f, compiled[f]))
        /\ Jump(compiled[f])
    BY <1>2, TierFacts DEF CallCompiled, EnterCompiled, MInv
  <2>2. Native(f, compiled[f]) \in Frames
    BY <2>1, FrameTypes
  <2>3. Control' = compiled[f]
    BY <2>1, <2>2, PushFacts DEF Control, Native
  <2> QED  BY <1>1, <2>1, <2>3, MemoryIsEntered
<1>3. CASE CallCold(f, below)
  <2>1. /\ UNCHANGED <<memory, hot, compiled, regions>>
        /\ counts' = [counts EXCEPT ![f] = @ + 1]
        /\ stack' = Append(below, Interp(f))
    BY <1>3 DEF CallCold, EnterCold, Count
  <2>2. counts' \in [Func -> Nat]
    BY <2>1 DEF MInv, CompilesForACall
  <2>3. Control' = NoObj
    BY <2>1, FrameTypes, PushFacts DEF Control, Interp
  <2> QED  BY <1>1, <2>1, <2>2, <2>3, MemoryRests
<1> QED  BY <1>2, <1>3 DEF CallSettled

LEMMA SettledCallsAreCalls ==
    ASSUME NEW f, NEW below, CallSettled(f, below)
    PROVE  Call(f, below)
BY DEF CallSettled, CallCompiled, CallCold, Call

LEMMA CallsKeep ==
    ASSUME MInv, StartSettled \/ FinishArgsSettled
    PROVE  TierStep /\ MemoryStep /\ Keeps
<1>1. CASE StartSettled
  <2>1. /\ Idle /\ phase = "start" /\ CallSettled(Main, <<>>) /\ phase' = "running"
        /\ calls' = calls
    BY <1>1 DEF StartSettled
  <2>2. <<>> \in Seq(Frames)
    BY EmptySeq
  <2>3. MemoryStep /\ Keeps /\ hot' = hot
    BY <2>1, <2>2, MainIsFunc, CallKeeps
  <2>4. Next
    BY <2>1, SettledCallsAreCalls DEF Next, Start
  <2> QED  BY <2>1, <2>3, <2>4, TierActs
<1>2. CASE FinishArgsSettled
  <2>1. /\ Idle /\ phase = "running" /\ Top.kind = "args" /\ CallSettled(Top.fn, Popped)
        /\ phase' = "running" /\ calls' = calls /\ phase' = phase
    BY <1>2 DEF FinishArgsSettled
  <2>2. Popped \in Seq(Frames) /\ Top.fn \in Func
    <3>1. stack \in Seq(Frames) /\ Len(stack) > 0
      BY <2>1, TierFacts DEF MInv
    <3> QED  BY <3>1, PopFacts DEF Frames
  <2>3. MemoryStep /\ Keeps /\ hot' = hot
    BY <2>1, <2>2, CallKeeps
  <2>4. Next
    BY <2>1, SettledCallsAreCalls DEF Next, FinishArgs
  <2> QED  BY <2>1, <2>3, <2>4, TierActs
<1> QED  BY <1>1, <1>2

-----------------------------------------------------------------------------
(* The compilation *)

(* There is an object left for one more region. *)
LEMMA RoomForOneMore ==
    ASSUME TiP!IInv, NEW f \in Func, ~IsCompiled(f)
    PROVE  Len(regions) + 1 \in Obj
<1> DEFINE Old == {g \in Func : IsCompiled(g)}
<1>1. /\ IsFiniteSet(Old) /\ Old \subseteq Func /\ Old # Func
      /\ IsFiniteSet(Func)
  BY FuncFinite, FS_Subset
<1>2. /\ Cardinality(Old) \in Nat /\ Cardinality(Func) \in Nat
      /\ Cardinality(Old) < Cardinality(Func)
  BY <1>1, FS_Subset, FS_CardinalityType
<1>3. Len(regions) \in Nat /\ Len(regions) <= Cardinality(Old)
  BY TierFacts
<1> HIDE DEF Old
<1> QED  BY <1>2, <1>3 DEF Obj

LEMMA BeginKeeps ==
    ASSUME MInv, CompileBegins
    PROVE  TierStep /\ MemoryStep /\ Keeps
<1> DEFINE r == Len(regions) + 1
<1>1. PICK f \in Func, ls \in (SUBSET J!LinesOf(NoObj)) \ {{}} :
        /\ Entering(f) /\ ~IsCompiled(f) /\ ~StaysCold(f)
        /\ Count(f)
        /\ hot' = f
        /\ building' = r
        /\ image' = [image EXCEPT ![r] = [l \in Line |-> [of |-> HotSetOf(f)]]]
        /\ owner' = [l \in Line |-> IF l \in ls THEN r ELSE owner[l]]
        /\ mem' = [l \in Line |-> IF l \in ls THEN Zero ELSE mem[l]]
  BY DEF CompileBegins
<1>2. /\ Idle /\ step' = "mapped"
      /\ UNCHANGED <<calls, compiled, regions, stack, phase>>
      /\ UNCHANGED <<live, left, writable, running, memPhase, point, icache>>
  BY DEF CompileBegins
<1>3. /\ ~Idle'
      /\ counts' = [counts EXCEPT ![f] = @ + 1]
      /\ counts \in [Func -> Nat]
      /\ counts[f] + 1 >= Threshold
  <2>1. counts \in [Func -> Nat]
    BY DEF MInv, CompilesForACall
  <2>2. ~(counts[f] + 1 < Threshold) /\ counts[f] \in Nat
    BY <1>1, <2>1 DEF StaysCold
  <2> QED  BY <1>1, <2>1, <2>2, ThresholdPositive, NoFuncIsNone DEF Idle, Count
<1>4. TierStep
  <2>1. [counts' EXCEPT ![f] = @ - 1] = counts
    <3> DEFINE c == [counts EXCEPT ![f] = @ + 1]
               d == [c EXCEPT ![f] = @ - 1]
    <3>1. c \in [Func -> Nat] /\ \A g \in Func : c[g] = IF g = f THEN counts[f] + 1 ELSE counts[g]
      BY <1>3
    <3> HIDE DEF c
    <3>2. /\ d = [g \in Func |-> d[g]]
          /\ \A g \in Func : d[g] = IF g = f THEN c[f] - 1 ELSE c[g]
      BY <3>1
    <3>3. \A g \in Func : d[g] = counts[g]
      BY <1>3, <3>1, <3>2
    <3> HIDE DEF d
    <3>4. d = counts
      BY <1>3, <3>2, <3>3
    <3> QED  BY <1>3, <3>4 DEF c, d
  <2>2. (IF Idle' THEN counts' ELSE [counts' EXCEPT ![hot'] = @ - 1])
           = (IF Idle THEN counts ELSE [counts EXCEPT ![hot] = @ - 1])
    BY <1>1, <1>2, <1>3, <2>1
  <2> QED  BY <1>2, <2>2 DEF TierStep, Ti!vars
<1>5. phase = "start" \/ (phase = "running" /\ Top.kind # "native")
  BY <1>1 DEF Entering
<1>6. /\ running = NoObj /\ memPhase = "ok" /\ step = "idle" /\ live = 1 .. Len(regions)
      /\ Len(regions) \in Nat
  BY <1>2, <1>5, ControlInHost, TierFacts DEF MInv
<1>7. r \in Obj /\ r \notin live
  BY <1>1, <1>6, RoomForOneMore DEF MInv
<1> HIDE DEF r
<1>8. [l \in Line |-> [of |-> HotSetOf(f)]] \in [Line -> Word]
  <2>1. HotSetOf(f) \in SUBSET Func
    BY DEF HotSetOf, Reachable
  <2> QED  BY <2>1 DEF Word, Code
<1>9. MemoryStep
  BY <1>1, <1>2, <1>6, <1>7, <1>8 DEF MemoryStep, J!Next, J!Map
<1>10. CompilesForACall'
  <2>1. counts' \in [Func -> Nat] /\ counts'[f] >= Threshold
    BY <1>3
  <2>2. Entering(f)' /\ ~IsCompiled(f)'
    BY <1>1, <1>2 DEF Entering, IsCompiled, Top
  <2> QED  BY <1>1, <2>1, <2>2 DEF CompilesForACall
<1>11. MemoryFollows'
  <2>1. live' = Built'
    BY <1>2, <1>6 DEF Built
  <2>2. Control' = Control
    BY <1>2 DEF Control, Top
  <2> QED  BY <1>1, <1>2, <1>3, <1>6, <1>7, <2>1, <2>2 DEF MInv, MemoryFollows, r
<1>12. CodeInPlace'
  <2>1. image \in [Obj -> [Line -> Word]] /\ owner \in [Line -> Obj \cup {NoObj}]
    BY MemoryFacts DEF MInv
  <2>2. ASSUME NEW q \in 1 .. Len(regions), NEW l \in Line
        PROVE  image'[q][l] = [of |-> regions[q]]
    <3>1. q # r /\ image'[q] = image[q]
      BY <1>1, <1>6, <2>1 DEF r
    <3> QED  BY <3>1 DEF MInv, CodeInPlace
  <2>3. ASSUME NEW l \in Line
        PROVE  image'[r][l] = [of |-> HotSetOf(f)]
    BY <1>1, <1>7, <2>1
  <2>4. ASSUME NEW q \in 1 .. Len(regions)
        PROVE  \E l \in Line : owner'[l] = q
    <3>1. PICK l \in Line : owner[l] = q
      BY <1>5 DEF MInv, CodeInPlace
    <3>2. q # NoObj
      <4>1. q \in Obj
        BY <1>6, MemoryFacts DEF MInv
      <4> QED  BY <4>1, NoObjIsNoRegion
    <3>3. l \notin ls
      BY <3>1, <3>2 DEF J!LinesOf
    <3> QED  BY <1>1, <3>1, <3>3
  <2>5. \E l \in Line : owner'[l] = r
    <3>1. ls # {} /\ ls \subseteq Line
      BY <1>1 DEF J!LinesOf
    <3>2. PICK l \in Line : l \in ls
      BY <3>1
    <3> QED  BY <1>1, <3>2
  <2>6. HotSetOf(hot)' = HotSetOf(f) /\ Len(regions)' = Len(regions)
    BY <1>1, <1>2 DEF HotSetOf, Reachable, CallClosed
  <2>7. Len(regions)' + 1 = r
    BY <2>6 DEF r
  <2> QED  BY <1>2, <2>2, <2>3, <2>4, <2>5, <2>6, <2>7 DEF CodeInPlace
<1> QED  BY <1>4, <1>9, <1>10, <1>11, <1>12 DEF Keeps

LEMMA DiesKeeps ==
    ASSUME MInv, CompileDies
    PROVE  TierStep /\ MemoryStep /\ Keeps
<1>1. /\ Idle /\ memPhase' = "aborted" /\ phase' = "aborted"
      /\ UNCHANGED <<calls, compiled, regions, stack>>
      /\ UNCHANGED <<owner, image, live, building, step, left, writable, running,
                     mem, point, icache, hot>>
  BY DEF CompileDies, CompileAborts
<1>2. PICK f \in Func : Entering(f) /\ Count(f)
  BY DEF CompileDies, CompileAborts
<1>3. phase = "start" \/ (phase = "running" /\ Top.kind # "native")
  BY <1>2 DEF Entering
<1>4. TierStep
  BY <1>1, TierActs DEF CompileDies, Next
<1>5. running = NoObj /\ memPhase = "ok" /\ step = "idle" /\ live = Built
  BY <1>1, <1>3, ControlInHost
<1>6. MemoryStep
  BY <1>1, <1>5 DEF MemoryStep, J!Next, J!MapFails, J!code, J!caches
<1>7. CompilesForACall'
  <2>1. counts' \in [Func -> Nat]
    BY <1>2 DEF MInv, CompilesForACall, Count
  <2> QED  BY <1>1, <2>1 DEF MInv, CompilesForACall, Idle
<1>8. MemoryFollows'
  <2>1. Built' = Built
    BY <1>1 DEF Built, Idle
  <2> QED  BY <1>1, <1>5, <2>1 DEF MInv, MemoryFollows, Idle
<1>9. CodeInPlace'
  BY <1>1, <1>3 DEF MInv, CodeInPlace, Idle
<1> QED  BY <1>4, <1>6, <1>7, <1>8, <1>9 DEF Keeps

(* The constructor's next step, the last of which makes the region live. *)
LEMMA GoesOnKeeps ==
    ASSUME MInv, CompileGoesOn
    PROVE  TierStep /\ MemoryStep /\ Keeps
<1>1. /\ phase \in {"start", "running"}
      /\ UNCHANGED <<calls, counts, compiled, regions, stack, phase, hot>>
      /\ J!Unprotect \/ J!Copy \/ J!Protect \/ J!Invalidate
  BY DEF CompileGoesOn, tiers
<1>2. TierStep
  BY TierWaits DEF CompileGoesOn
<1>3. MemoryStep
  BY <1>1 DEF MemoryStep, J!Next
<1>4. /\ memPhase = "ok" /\ live = Built /\ running = Control
      /\ step \in {"mapped", "copying", "protected"}
      /\ ~Idle /\ building = Len(regions) + 1
  BY <1>1 DEF MInv, MemoryFollows, J!Unprotect, J!Copy, J!Protect, J!Invalidate
<1>5. /\ UNCHANGED <<owner, image, running>>
      /\ memPhase' = "ok"
      /\ \/ UNCHANGED <<live, building>> /\ step' # "idle"
         \/ live' = live \cup {building} /\ step' = "idle"
  <2>1. writable = (step = "copying")
    BY MemoryFacts DEF MInv
  <2>2. CASE J!Unprotect
    BY <1>4, <2>2 DEF J!Unprotect, J!caches
  <2>3. CASE J!Copy
    BY <1>4, <2>1, <2>3 DEF J!Copy
  <2>4. CASE J!Protect
    BY <1>4, <2>4 DEF J!Protect, J!caches
  <2>5. CASE J!Invalidate
    BY <1>4, <2>5 DEF J!Invalidate
  <2> QED  BY <1>1, <2>2, <2>3, <2>4, <2>5
<1>6. CompilesForACall'
  BY <1>1 DEF MInv, CompilesForACall, Idle, Entering, IsCompiled, Top
<1>7. MemoryFollows'
  <2>1. Control' = Control /\ ~Idle'
    BY <1>1, <1>4 DEF Control, Top, Idle
  <2>2. live' = Built'
    BY <1>1, <1>4, <1>5, <2>1 DEF Built
  <2> QED  BY <1>1, <1>4, <1>5, <2>1, <2>2 DEF MInv, MemoryFollows
<1>8. CodeInPlace'
  <2>1. HotSetOf(hot)' = HotSetOf(hot)
    BY <1>1 DEF HotSetOf, Reachable, CallClosed
  <2> QED  BY <1>1, <1>5, <2>1 DEF MInv, CodeInPlace, Idle
<1> QED  BY <1>2, <1>3, <1>6, <1>7, <1>8 DEF Keeps

(* The members are bound and the call goes native, into a finished region. *)
LEMMA EndsKeeps ==
    ASSUME MInv, CompileEnds
    PROVE  TierStep /\ MemoryStep /\ Keeps
<1> DEFINE r == Len(regions) + 1
<1>1. /\ ~Idle /\ step = "idle" /\ phase' = "running" /\ Idle'
      /\ regions' = Append(regions, HotSetOf(hot))
      /\ CompileHot(hot)
      /\ stack' = Append(Below, Native(hot, r))
      /\ UNCHANGED <<calls, counts>>
      /\ Jump(r)
  BY DEF CompileEnds, CompileHot, Idle
<1>2. /\ hot \in Func /\ Entering(hot) /\ ~IsCompiled(hot) /\ counts[hot] >= Threshold
      /\ counts \in [Func -> Nat]
  BY <1>1 DEF MInv, CompilesForACall, Idle
<1>3. phase = "start" \/ (phase = "running" /\ Top.kind # "native")
  BY <1>2 DEF Entering
<1>4. /\ running = NoObj /\ memPhase = "ok" /\ live = 1 .. Len(regions) \cup {r}
      /\ ~writable
      /\ Len(regions) \in Nat
  BY <1>1, <1>3, ControlInHost, TierFacts, MemoryFacts DEF MInv, Built
<1>5. TierStep
  <2> DEFINE before == [counts EXCEPT ![hot] = @ - 1]
  <2>1. counts = [before EXCEPT ![hot] = @ + 1] /\ ~(before[hot] + 1 < Threshold)
    <3> DEFINE after == [before EXCEPT ![hot] = @ + 1]
    <3>1. before \in [Func -> Int]
             /\ \A g \in Func : before[g] = IF g = hot THEN counts[hot] - 1 ELSE counts[g]
      BY <1>2
    <3> HIDE DEF before
    <3>2. /\ after = [g \in Func |-> after[g]]
          /\ \A g \in Func : after[g] = IF g = hot THEN before[hot] + 1 ELSE before[g]
      BY <3>1
    <3>3. \A g \in Func : after[g] = counts[g]
      BY <1>2, <3>1, <3>2
    <3> HIDE DEF after
    <3>4. after = counts
      BY <1>2, <3>2, <3>3
    <3>5. before[hot] + 1 = counts[hot] /\ counts[hot] \in Nat
      BY <1>2, <3>1
    <3> QED  BY <1>2, <3>4, <3>5, ThresholdPositive DEF after
  <2>2. (IF Idle THEN counts ELSE [counts EXCEPT ![hot] = @ - 1]) = before
        /\ (IF Idle' THEN counts' ELSE [counts' EXCEPT ![hot'] = @ - 1]) = counts
    BY <1>1
  <2> HIDE DEF before
  <2>3. ~Ti!StaysCold(hot) /\ Ti!Count(hot) /\ ~Ti!IsCompiled(hot)
    BY <1>2, <2>1, <2>2 DEF Ti!StaysCold, Ti!Count, Ti!IsCompiled, IsCompiled
  <2>4. Ti!CompileHot(hot)
    BY <1>1
    DEF Ti!CompileHot, CompileHot, Ti!HotSetOf, HotSetOf, Ti!Reachable, Reachable,
        Ti!CallClosed, CallClosed
  <2>5. Ti!Call(hot, Below)
    BY <1>1, <2>3, <2>4 DEF Ti!Call, Ti!EnterHot, Ti!Native, Native
  <2>6. CASE phase = "start"
    BY <1>1, <1>2, <2>5, <2>6
    DEF TierStep, Ti!Next, Ti!Start, Below, Entering
  <2>7. CASE phase = "running"
    BY <1>1, <1>2, <2>5, <2>7
    DEF TierStep, Ti!Next, Ti!FinishArgs, Below, Entering, Ti!Top, Top, Ti!Popped, Popped
  <2> QED  BY <1>3, <2>6, <2>7
<1>6. /\ running' = r
      /\ UNCHANGED <<owner, image, live, building, step, left, writable, memPhase,
                     mem, point, icache>>
  BY <1>1, <1>4 DEF Jump
<1>7. MemoryStep
  <2>1. r \in live
    BY <1>4
  <2> QED  BY <1>1, <1>4, <1>6, <2>1 DEF MemoryStep, J!Next, J!Enter, J!code, J!caches
<1>8. CompilesForACall'
  BY <1>1, <1>2, NoFuncIsNone DEF CompilesForACall, Idle
<1>9. /\ Len(regions') = r
      /\ \A q \in 1 .. Len(regions) : regions'[q] = regions[q]
      /\ regions'[r] = HotSetOf(hot)
      /\ 1 .. r = 1 .. Len(regions) \cup {r}
  <2>1. regions \in Seq(SUBSET Func) /\ HotSetOf(hot) \in SUBSET Func
    BY TierFacts DEF MInv, HotSetOf, Reachable
  <2> QED  BY <1>1, <1>4, <2>1, AppendProperties
<1>10. Below \in Seq(Frames)
  <2>1. CASE phase = "start"
    BY <2>1, EmptySeq DEF Below
  <2>2. CASE phase = "running"
    BY <2>2, TierFacts, PopFacts DEF MInv, Below
  <2> QED  BY <1>3, <2>1, <2>2
<1>11. MemoryFollows'
  <2>1. Control' = r
    <3>1. Native(hot, r) \in Frames
      BY <1>2, <1>4, FrameTypes
    <3> QED  BY <1>1, <1>10, <3>1, PushFacts DEF Control, Native
  <2>2. live' = Built'
    BY <1>1, <1>4, <1>6, <1>9 DEF Built
  <2> HIDE DEF r
  <2> QED  BY <1>1, <1>4, <1>6, <2>1, <2>2 DEF MemoryFollows
<1>12. CodeInPlace'
  <2>1. ASSUME NEW q \in 1 .. r, NEW l \in Line
        PROVE  image[q][l] = [of |-> regions'[q]]
    BY <1>1, <1>9, <2>1 DEF MInv, CodeInPlace
  <2>2. ASSUME NEW q \in 1 .. r
        PROVE  \E l \in Line : owner[l] = q
    BY <1>1, <1>3, <1>9, <2>2 DEF MInv, CodeInPlace
  <2> HIDE DEF r
  <2> QED  BY <1>1, <1>6, <1>9, <2>1, <2>2 DEF CodeInPlace
<1> QED  BY <1>5, <1>7, <1>8, <1>11, <1>12 DEF Keeps

-----------------------------------------------------------------------------
(* The running program *)

LEMMA OneOrMore == \A n \in Nat : n > 0 => n = 1 \/ n > 1
OBVIOUS

LEMMA UnderneathTop ==
    ASSUME stack \in Seq(Frames), Len(stack) > 0, stack' = Popped
    PROVE  /\ Len(stack) = 1 => stack' = <<>>
           /\ Len(stack) > 1 => stack' # <<>> /\ Top' = stack[Len(stack) - 1]
<1> DEFINE n == Len(stack)
<1>1. n \in Nat /\ n > 0
  BY LenProperties
<1>2. stack' \in Seq(Frames) /\ Len(stack') = n - 1
      /\ \A i \in 1 .. n - 1 : stack'[i] = stack[i]
  BY PopFacts
<1> HIDE DEF n
<1>3. CASE n = 1
  <2>1. Len(stack') = 0
    BY <1>2, <1>3
  <2>2. stack' = <<>>
    BY <1>2, <2>1, EmptySeq
  <2> QED  BY <1>3, <2>2 DEF n
<1>4. CASE n > 1
  <2>1. n - 1 \in 1 .. n - 1
    BY <1>1, <1>4
  <2>2. stack' # <<>>
    BY <1>1, <1>2, <1>4, EmptySeq
  <2>3. Top' = stack[n - 1]
    BY <1>2, <2>1 DEF Top
  <2>4. n # 1
    BY <1>1, <1>4
  <2> QED  BY <2>2, <2>3, <2>4 DEF n
<1>5. n = 1 \/ n > 1
  BY <1>1
<1> QED  BY <1>3, <1>4, <1>5

LEMMA WalkKeeps ==
    ASSUME MInv, WalkCall \/ ReturnInWalk \/ DivideByZero
    PROVE  TierStep /\ MemoryStep /\ Keeps
<1>1. /\ Idle /\ phase = "running"
      /\ UNCHANGED <<memory, hot, compiled, regions, counts>>
      /\ BeginCall \/ Return \/ DivZero
  BY DEF WalkCall, ReturnInWalk, DivideByZero, BeginCall, Return, DivZero
<1>2. /\ stack \in Seq(Frames) /\ Len(stack) > 0 /\ Len(stack) \in Nat
      /\ calls \in CallGraphs /\ NoWayBack
  BY <1>1, TierFacts, LenProperties DEF MInv
<1>3. TierStep
  BY <1>1, TierActs DEF Next
<1>4. counts' \in [Func -> Nat] /\ running = Control
  BY <1>1 DEF MInv, CompilesForACall, MemoryFollows
<1>5. CASE WalkCall
  <2>1. PICK g \in calls[Top.body] : stack' = Append(stack, Pending(Top.body, g))
    BY <1>5 DEF WalkCall, BeginCall
  <2>2. Top.body \in Func /\ g \in Func
    <3>1. Top.body \in Func
      BY <1>2, PopFacts DEF Frames
    <3> QED  BY <1>2, <2>1, <3>1 DEF CallGraphs
  <2>3. Pending(Top.body, g) \in Frames
    BY <2>2, FrameTypes, 0 \in Nat
  <2>4. stack' # <<>> /\ Top' = Pending(Top.body, g)
    BY <1>2, <2>1, <2>3, PushFacts
  <2>5. Control' = NoObj
    BY <2>4 DEF Control, Pending
  <2>6. Control = NoObj
    BY <1>5 DEF WalkCall, BeginCall, Control
  <2>7. phase' = "running"
    BY <1>1, <1>5 DEF WalkCall, BeginCall
  <2> QED  BY <1>1, <1>3, <1>4, <2>5, <2>6, <2>7, MemoryRests
<1>6. CASE ReturnInWalk
  <2>1. /\ Top.kind = "interp" /\ stack' = Popped
        /\ phase' = IF Len(stack) = 1 THEN "done" ELSE "running"
    BY <1>6 DEF ReturnInWalk, Return
  <2>2. Control = NoObj
    BY <2>1 DEF Control
  <2>3. Control' = NoObj
    <3>1. CASE Len(stack) = 1
      <4>1. stack' = <<>>
        BY <1>2, <2>1, <3>1, UnderneathTop
      <4> QED  BY <4>1 DEF Control
    <3>2. CASE Len(stack) > 1
      <4>1. Len(stack) - 1 \in 1 .. Len(stack) /\ Len(stack) \in 1 .. Len(stack)
            /\ Len(stack) - 1 < Len(stack)
        BY <1>2, <3>2
      <4>2. stack[Len(stack) - 1].kind # "native"
        BY <1>2, <2>1, <4>1 DEF NoWayBack, Top
      <4>3. Top' = stack[Len(stack) - 1]
        BY <1>2, <2>1, <3>2, UnderneathTop
      <4> QED  BY <4>2, <4>3 DEF Control
    <3>3. Len(stack) = 1 \/ Len(stack) > 1
      BY <1>2, OneOrMore
    <3> QED  BY <3>1, <3>2, <3>3
  <2>4. phase' = "done" => stack' = <<>>
    BY <1>2, <2>1, UnderneathTop
  <2> QED  BY <1>1, <1>3, <1>4, <2>2, <2>3, <2>4, MemoryRests
<1>7. CASE DivideByZero
  <2>1. phase' = "aborted"
    BY <1>7 DEF DivideByZero, DivZero
  <2> QED  BY <1>1, <1>3, <1>4, <2>1, MemoryRests
<1> QED  BY <1>5, <1>6, <1>7

LEMMA CodeKeeps ==
    ASSUME MInv, CodeCall \/ ReturnInCode \/ ReturnToHost
    PROVE  TierStep /\ MemoryStep /\ Keeps
<1>1. /\ phase = "running" /\ Top.kind = "native"
      /\ UNCHANGED <<hot, counts, compiled, regions>>
      /\ NativeCall \/ Return
  BY DEF CodeCall, ReturnInCode, ReturnToHost, NativeCall, Return
<1>2. Idle
  BY <1>1 DEF MInv, CompilesForACall, Entering
<1>3. TierStep
  BY <1>1, <1>2, TierActs DEF Next
<1>4. /\ stack \in Seq(Frames) /\ Len(stack) > 0 /\ Len(stack) \in Nat
      /\ calls \in CallGraphs /\ NoWayBack
      /\ Len(regions) \in Nat
      /\ \A i \in 1 .. Len(stack) : stack[i].kind = "native" =>
            stack[i].region \in 1 .. Len(regions)
  BY <1>1, TierFacts, LenProperties DEF MInv
<1>5. /\ stack # <<>> /\ Top \in Frames
      /\ Top.region \in 1 .. Len(regions)
      /\ running = Control /\ Control = Top.region
      /\ live = 1 .. Len(regions)
      /\ counts' \in [Func -> Nat]
  <2>1. stack # <<>> /\ Top \in Frames
    BY <1>4, PopFacts, EmptySeq
  <2>2. Top.region \in 1 .. Len(regions)
    <3>1. Len(stack) \in 1 .. Len(stack)
      BY <1>4
    <3> QED  BY <1>1, <1>4, <3>1 DEF Top
  <2> QED  BY <1>1, <1>2, <2>1, <2>2
           DEF MInv, MemoryFollows, CompilesForACall, Control, Built
<1>6. CASE CodeCall
  <2>1. PICK g \in calls[Top.body] : stack' = Append(stack, Native(g, Top.region))
    BY <1>6 DEF CodeCall, NativeCall
  <2>2. g \in Func /\ Top.region \in Nat
    BY <1>4, <1>5, <2>1 DEF CallGraphs, Frames
  <2>3. Native(g, Top.region) \in Frames
    BY <2>2, FrameTypes
  <2>4. stack' # <<>> /\ Top' = Native(g, Top.region)
    BY <1>4, <2>1, <2>3, PushFacts
  <2>5. Control' = Top.region
    BY <2>4 DEF Control, Native
  <2>6. phase' = "running" /\ UNCHANGED memory
    BY <1>1, <1>6 DEF CodeCall, NativeCall
  <2> QED  BY <1>1, <1>2, <1>3, <1>5, <2>5, <2>6, MemoryRests
<1>7. CASE ReturnInCode
  <2>1. /\ Len(stack) > 1 /\ stack[Len(stack) - 1].kind = "native"
        /\ stack' = Popped /\ phase' = IF Len(stack) = 1 THEN "done" ELSE "running"
        /\ UNCHANGED memory
    BY <1>7 DEF ReturnInCode, Return
  <2>2. stack' # <<>> /\ Top' = stack[Len(stack) - 1]
    BY <1>4, <2>1, UnderneathTop
  <2>3. Top.region = stack[Len(stack) - 1].region
    <3>1. Len(stack) - 1 \in 1 .. Len(stack) /\ Len(stack) \in 1 .. Len(stack)
          /\ Len(stack) - 1 < Len(stack)
      BY <1>4, <2>1
    <3> QED  BY <1>4, <2>1, <3>1 DEF NoWayBack, Top
  <2>4. Control' = Top.region
    BY <2>1, <2>2, <2>3 DEF Control
  <2>5. phase' = "running"
    BY <1>4, <2>1
  <2> QED  BY <1>1, <1>2, <1>3, <1>5, <2>1, <2>4, <2>5, MemoryRests
<1>8. CASE ReturnToHost
  <2>1. /\ Len(stack) > 1 => stack[Len(stack) - 1].kind # "native"
        /\ stack' = Popped /\ phase' = IF Len(stack) = 1 THEN "done" ELSE "running"
        /\ Back
    BY <1>8 DEF ReturnToHost, Return
  <2>2. Control' = NoObj
    <3>1. CASE Len(stack) = 1
      <4>1. stack' = <<>>
        BY <1>4, <2>1, <3>1, UnderneathTop
      <4> QED  BY <4>1 DEF Control
    <3>2. CASE Len(stack) > 1
      BY <1>4, <2>1, <3>2, UnderneathTop DEF Control
    <3>3. Len(stack) = 1 \/ Len(stack) > 1
      BY <1>4, OneOrMore
    <3> QED  BY <3>1, <3>2, <3>3
  <2>3. running # NoObj
    <3>1. running \in Obj
      BY <1>5, MemoryFacts DEF MInv
    <3> QED  BY <3>1, NoObjIsNoRegion
  <2>4. phase' = "done" => stack' = <<>>
    BY <1>4, <2>1, UnderneathTop
  <2> QED  BY <1>1, <1>2, <1>3, <2>1, <2>2, <2>3, <2>4, MemoryIsLeft
<1> QED  BY <1>6, <1>7, <1>8

-----------------------------------------------------------------------------
(* The end, and the machine *)

LEMMA ReleaseKeeps ==
    ASSUME MInv, Release
    PROVE  TierStep /\ MemoryStep /\ Keeps
<1>1. PICK r \in live :
        /\ live' = live \ {r}
        /\ owner' = [l \in Line |-> IF owner[l] = r THEN NoObj ELSE owner[l]]
  BY DEF Release
<1>2. /\ phase = "done"
      /\ UNCHANGED <<calls, counts, compiled, regions, stack, phase, hot>>
      /\ UNCHANGED <<image, building, step, left, writable, running, memPhase,
                     mem, point, icache>>
  BY DEF Release, tiers
<1>3. TierStep
  BY TierWaits DEF Release
<1>4. Idle
  BY <1>2 DEF MInv, CompilesForACall, Entering
<1>5. memPhase = "ok" /\ step = "idle" /\ running = NoObj
  BY <1>2, <1>4 DEF MInv, MemoryFollows, Control
<1>6. MemoryStep
  BY <1>1, <1>2, <1>5 DEF MemoryStep, J!Next, J!Destroy, J!caches
<1>7. CompilesForACall'
  BY <1>2, <1>4 DEF MInv, CompilesForACall, Idle
<1>8. MemoryFollows'
  <2>1. Control' = Control
    BY <1>2 DEF Control, Top
  <2> QED  BY <1>2, <1>4, <2>1 DEF MInv, MemoryFollows, Idle
<1>9. CodeInPlace'
  BY <1>2, <1>4 DEF MInv, CodeInPlace, Idle
<1> QED  BY <1>3, <1>6, <1>7, <1>8, <1>9 DEF Keeps

LEMMA CachesKeep ==
    ASSUME MInv, Caches \/ UNCHANGED allVars
    PROVE  TierStep /\ MemoryStep /\ Keeps
<1>1. /\ UNCHANGED <<calls, counts, compiled, regions, stack, phase, hot>>
      /\ UNCHANGED <<owner, image, live, building, step, left, writable, running, memPhase>>
  BY DEF Caches, J!Hardware, J!code, allVars, tiers, memory
<1>2. TierStep
  BY TierWaits DEF Caches, allVars
<1>3. MemoryStep
  <2>1. CASE Caches
    BY <2>1 DEF Caches, MemoryStep, J!Next
  <2>2. CASE UNCHANGED allVars
    BY <2>2 DEF allVars, memory, MemoryStep, J!vars
  <2> QED  BY <2>1, <2>2
<1>4. CompilesForACall'
  BY <1>1 DEF MInv, CompilesForACall, Idle, Entering, IsCompiled, Top
<1>5. MemoryFollows'
  <2>1. Control' = Control /\ Built' = Built
    BY <1>1 DEF Control, Top, Built, Idle
  <2> QED  BY <1>1, <2>1 DEF MInv, MemoryFollows, Idle
<1>6. CodeInPlace'
  <2>1. HotSetOf(hot)' = HotSetOf(hot)
    BY <1>1 DEF HotSetOf, Reachable, CallClosed
  <2> QED  BY <1>1, <2>1 DEF MInv, CodeInPlace, Idle
<1> QED  BY <1>2, <1>3, <1>4, <1>5, <1>6 DEF Keeps

-----------------------------------------------------------------------------
LEMMA EveryStep == MInv /\ [MemoryNext]_allVars => MInv' /\ TierStep /\ MemoryStep
<1> SUFFICES ASSUME MInv, [MemoryNext]_allVars PROVE MInv' /\ TierStep /\ MemoryStep
  OBVIOUS
<1>1. TierStep /\ MemoryStep /\ Keeps
  <2>1. CASE StartSettled \/ FinishArgsSettled
    BY <2>1, CallsKeep
  <2>2. CASE CompileBegins
    BY <2>2, BeginKeeps
  <2>3. CASE CompileDies
    BY <2>3, DiesKeeps
  <2>4. CASE CompileGoesOn
    BY <2>4, GoesOnKeeps
  <2>5. CASE CompileEnds
    BY <2>5, EndsKeeps
  <2>6. CASE WalkCall \/ ReturnInWalk \/ DivideByZero
    BY <2>6, WalkKeeps
  <2>7. CASE CodeCall \/ ReturnInCode \/ ReturnToHost
    BY <2>7, CodeKeeps
  <2>8. CASE Release
    BY <2>8, ReleaseKeeps
  <2>9. CASE Caches \/ UNCHANGED allVars
    BY <2>9, CachesKeep
  <2> QED  BY <2>1, <2>2, <2>3, <2>4, <2>5, <2>6, <2>7, <2>8, <2>9 DEF MemoryNext
<1>2. TiP!IInv' /\ JP!IInv'
  BY <1>1, PartsKeep DEF MInv
<1> QED  BY <1>1, <1>2 DEF MInv, Keeps

LEMMA AtFirst == Init /\ MemoryInit => MInv /\ Ti!Init /\ J!Init
<1> SUFFICES ASSUME Init, MemoryInit PROVE MInv /\ Ti!Init /\ J!Init
  OBVIOUS
<1>1. Idle /\ J!Init /\ point \in [Line -> {Zero, Stale}]
  BY DEF MemoryInit, Idle
<1>2. Ti!Init
  BY <1>1 DEF Init, Ti!Init
<1>3. TiP!IInv
  <2>1. TiP!Init
    BY <1>2 DEF Ti!Init, TiP!Init
  <2> QED  BY <2>1, TiersAssumed, TiP!InitEstablishes
<1>4. JP!IInv
  <2>1. JP!Init
    BY <1>1 DEF J!Init, JP!Init
  <2> QED  BY <2>1, MemoryAssumed, JP!InitEstablishes
<1>5. CompilesForACall
  BY <1>1 DEF Init, CompilesForACall, Idle
<1>6. Len(regions) = 0 /\ phase = "start" /\ stack = <<>>
  BY EmptySeq DEF Init
<1>7. MemoryFollows
  BY <1>1, <1>6 DEF MemoryFollows, Control, Built, J!Init
<1>8. CodeInPlace
  BY <1>1, <1>6 DEF CodeInPlace
<1> QED  BY <1>1, <1>2, <1>3, <1>4, <1>5, <1>7, <1>8 DEF MInv

LEMMA MemoryInvariance == MemorySpec => []MInv
BY AtFirst, EveryStep, PTL DEF MemorySpec

-----------------------------------------------------------------------------
(***************************************************************************)
(* A compilation is one step to the program, however many it takes and     *)
(* whatever the machine does meanwhile: tiered execution on the machine is *)
(* tiered execution, so all that is proved of Tiering holds of it          *)
(* (tiering.cc:133-156).                                                   *)
(***************************************************************************)
THEOREM MemoryImplementsTiering == MemorySpec => ImplementsTiering
<1>1. MInv /\ [MemoryNext]_allVars => [Ti!Next]_(Ti!vars)
  BY EveryStep DEF TierStep
<1> QED  BY <1>1, AtFirst, MemoryInvariance, PTL DEF MemorySpec, ImplementsTiering, Ti!Spec

(***************************************************************************)
(* The tiers meet every assumption JitMemory makes about its users: a      *)
(* mapping is made, entered, left and freed at the right moments only      *)
(* (tiering.cc:133-156, interp.cc:112-120).                                *)
(***************************************************************************)
THEOREM TiersUseMemoryAsAssumed == MemorySpec => UsesMemoryAsAssumed
<1>1. MInv /\ [MemoryNext]_allVars => [J!Next]_(J!vars)
  BY EveryStep DEF MemoryStep
<1> QED  BY <1>1, AtFirst, MemoryInvariance, PTL DEF MemorySpec, UsesMemoryAsAssumed, J!Spec

(***************************************************************************)
(* Whatever the caches held and whichever regions were made since, what    *)
(* the processor fetches under a native frame is the code of its function  *)
(* and of all it calls (tiering.h:94-98, jit_memory.cc:57-71).             *)
(***************************************************************************)
THEOREM FetchesAreOwnCode == MemorySpec => []FetchesOwnCode
<1>1. MInv => FetchesOwnCode
  <2> SUFFICES ASSUME MInv, NEW i \in DOMAIN stack, stack[i].kind = "native"
               PROVE  /\ stack[i].region \in live
                      /\ J!LinesOf(stack[i].region) # {}
                      /\ \A l \in J!LinesOf(stack[i].region) :
                            /\ J!Sees(l) \in Code
                            /\ {stack[i].fn} \cup calls[stack[i].fn] \subseteq J!Sees(l).of
    BY DEF FetchesOwnCode
  <2> DEFINE r == stack[i].region
  <2>1. /\ stack \in Seq(Frames) /\ i \in 1 .. Len(stack)
        /\ regions \in Seq(SUBSET Func)
    BY TierFacts DEF MInv
  <2>2. /\ r \in 1 .. Len(regions)
        /\ {stack[i].fn} \cup calls[stack[i].fn] \subseteq regions[r]
    BY <2>1, TierFacts DEF MInv
  <2>3. stack # <<>>
    BY <2>1, EmptySeq
  <2>4. phase # "done"
    BY <2>3 DEF MInv, MemoryFollows
  <2>5. r \in live
    BY <2>2, <2>4 DEF MInv, MemoryFollows, Built
  <2> HIDE DEF r
  <2>6. J!LinesOf(r) # {}
    BY <2>2, <2>4 DEF MInv, CodeInPlace, J!LinesOf
  <2>7. ASSUME NEW l \in J!LinesOf(r)
        PROVE  J!Sees(l) = [of |-> regions[r]]
    <3>1. l \in Line /\ owner[l] = r
      BY DEF J!LinesOf
    <3>2. J!Sees(l) = image[r][l]
      BY <2>5, <3>1, MemoryFacts DEF MInv
    <3> QED  BY <2>2, <3>1, <3>2 DEF MInv, CodeInPlace
  <2>8. regions[r] \in SUBSET Func
    BY <2>1, <2>2, ElementOfSeq
  <2>9. ASSUME NEW l \in J!LinesOf(r)
        PROVE  /\ J!Sees(l) \in Code
               /\ {stack[i].fn} \cup calls[stack[i].fn] \subseteq J!Sees(l).of
    BY <2>2, <2>7, <2>8 DEF Code
  <2> QED  BY <2>5, <2>6, <2>9 DEF r
<1> QED  BY <1>1, MemoryInvariance, PTL
=============================================================================
