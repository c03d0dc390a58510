-------------------------- MODULE JitMemoryProofs --------------------------
(***************************************************************************)
(* The five steps suffice, for any number of lines, objects and words: an  *)
(* instruction fetch never sees anything but the code of the object.       *)
(***************************************************************************)
EXTENDS JitMemory, TLAPS

-----------------------------------------------------------------------------
(* The inductive invariant *)

(* A live line holds its image wherever a load or a fetch may look. *)
LiveLinesHoldImage ==
    \A l \in Line : owner[l] \in live =>
        /\ mem[l] = image[owner[l]][l]
        /\ point[l] = mem[l]
        /\ icache[l] \in {NoWord, mem[l]}

(* The write view is open during the memcpy and at no other time. *)
ViewFollowsStep ==
    /\ phase # "crashed"
    /\ writable = (step = "copying")
    /\ step = "idle" <=> building = NoObj
    /\ building \notin live
    /\ step # "idle" => running = NoObj

(* What the memcpy has written so far is the image. *)
CopiedSoFar ==
    /\ step \in {"copying", "protected"} =>
          \A l \in Line : (owner[l] = building /\ l \notin left) =>
              mem[l] = image[building][l]
    /\ step = "copying" => \A l \in left : owner[l] = building
    /\ step = "protected" => left = {}

IInv ==
    /\ TypeOK
    /\ LiveLinesHoldImage
    /\ ViewFollowsStep
    /\ CopiedSoFar

-----------------------------------------------------------------------------
(* The steps of the constructor *)

LEMMA MapPreserves == IInv /\ Map => IInv'
<1> SUFFICES ASSUME IInv, Map PROVE IInv'
  OBVIOUS
<1>1. PICK o \in Obj \ live, ls \in (SUBSET LinesOf(NoObj)) \ {{}}, img \in [Line -> Word] :
        /\ building' = o
        /\ image' = [image EXCEPT ![o] = img]
        /\ owner' = [l \in Line |-> IF l \in ls THEN o ELSE owner[l]]
        /\ mem' = [l \in Line |-> IF l \in ls THEN Zero ELSE mem[l]]
  BY DEF Map
<1>2. /\ phase = "ok" /\ running = NoObj /\ step = "idle" /\ step' = "mapped"
      /\ UNCHANGED <<live, left, writable, running, phase, point, icache>>
  BY DEF Map
<1>3. TypeOK'
  BY <1>1, <1>2, ZeroIsWord DEF IInv, TypeOK
<1>4. LiveLinesHoldImage'
  <2> SUFFICES ASSUME NEW l \in Line, owner'[l] \in live
               PROVE  /\ mem'[l] = image'[owner'[l]][l]
                      /\ point[l] = mem'[l]
                      /\ icache[l] \in {NoWord, mem'[l]}
    BY <1>2 DEF LiveLinesHoldImage
  <2>1. l \notin ls /\ owner'[l] = owner[l] /\ mem'[l] = mem[l] /\ owner[l] # o
    BY <1>1
  <2>2. owner[l] \in Obj
    BY <2>1 DEF IInv, TypeOK
  <2>3. image'[owner[l]] = image[owner[l]]
    BY <1>1, <2>1, <2>2 DEF IInv, TypeOK
  <2> QED
    BY <2>1, <2>3 DEF IInv, LiveLinesHoldImage
<1>5. ViewFollowsStep'
  BY <1>1, <1>2, NoObjIsNone DEF IInv, ViewFollowsStep
<1>6. CopiedSoFar'
  BY <1>2 DEF CopiedSoFar
<1> QED
  BY <1>3, <1>4, <1>5, <1>6 DEF IInv

LEMMA ViewStepsPreserve == IInv /\ (Unprotect \/ Protect) => IInv'
<1> SUFFICES ASSUME IInv, Unprotect \/ Protect PROVE IInv'
  OBVIOUS
<1>1. /\ UNCHANGED <<owner, image, live, building, running, phase, mem, point, icache>>
      /\ step \in {"mapped", "copying"}
  BY DEF Unprotect, Protect, caches
<1>2. TypeOK' /\ LiveLinesHoldImage'
  BY <1>1 DEF IInv, TypeOK, LiveLinesHoldImage, Unprotect, Protect, LinesOf
<1>3. ViewFollowsStep'
  BY <1>1 DEF IInv, ViewFollowsStep, Unprotect, Protect
<1>4. CopiedSoFar'
  BY <1>1 DEF IInv, CopiedSoFar, Unprotect, Protect, LinesOf
<1> QED
  BY <1>2, <1>3, <1>4 DEF IInv

LEMMA CopyPreserves == IInv /\ Copy => IInv'
<1> SUFFICES ASSUME IInv, Copy PROVE IInv'
  OBVIOUS
<1>1. step = "copying" /\ writable = TRUE /\ building \in Obj \ live
  BY DEF IInv, Copy, ViewFollowsStep, TypeOK
<1>2. PICK l \in left : /\ mem' = [mem EXCEPT ![l] = image[building][l]]
                        /\ left' = left \ {l}
                        /\ UNCHANGED phase
  BY <1>1 DEF Copy
<1>3. /\ l \in Line /\ owner[l] = building /\ image[building][l] \in Word
      /\ UNCHANGED <<owner, image, live, building, step, writable, running,
                     point, icache>>
  BY <1>1, <1>2 DEF Copy, IInv, TypeOK, CopiedSoFar
<1>4. TypeOK'
  BY <1>2, <1>3 DEF IInv, TypeOK
<1>5. LiveLinesHoldImage'
  BY <1>1, <1>2, <1>3 DEF IInv, TypeOK, LiveLinesHoldImage
<1>6. ViewFollowsStep'
  BY <1>2, <1>3 DEF IInv, ViewFollowsStep
<1>7. CopiedSoFar'
  BY <1>1, <1>2, <1>3 DEF IInv, TypeOK, CopiedSoFar
<1> QED
  BY <1>4, <1>5, <1>6, <1>7 DEF IInv

LEMMA InvalidatePreserves == IInv /\ Invalidate => IInv'
<1> SUFFICES ASSUME IInv, Invalidate PROVE IInv'
  OBVIOUS
<1>1. /\ phase = "ok" /\ step = "protected" /\ step' = "idle"
      /\ point' = [l \in Line |-> IF owner[l] = building THEN mem[l] ELSE point[l]]
      /\ icache' = [l \in Line |-> IF owner[l] = building THEN NoWord ELSE icache[l]]
      /\ live' = live \cup {building}
      /\ building' = NoObj
      /\ UNCHANGED <<owner, image, left, writable, running, phase, mem>>
  BY DEF Invalidate
<1>2. building \in Obj \ live /\ left = {} /\ running = NoObj
  BY <1>1 DEF IInv, TypeOK, ViewFollowsStep, CopiedSoFar
<1>3. TypeOK'
  BY <1>1, <1>2 DEF IInv, TypeOK
<1>4. LiveLinesHoldImage'
  <2> SUFFICES ASSUME NEW l \in Line, owner[l] \in live \cup {building}
               PROVE  /\ mem[l] = image[owner[l]][l]
                      /\ point'[l] = mem[l]
                      /\ icache'[l] \in {NoWord, mem[l]}
    BY <1>1 DEF LiveLinesHoldImage
  <2>1. CASE owner[l] = building
    BY <1>1, <1>2, <2>1 DEF IInv, CopiedSoFar
  <2>2. CASE owner[l] # building
    BY <1>1, <2>2 DEF IInv, LiveLinesHoldImage
  <2> QED
    BY <2>1, <2>2
<1>5. ViewFollowsStep' /\ CopiedSoFar'
  BY <1>1, <1>2, NoObjIsNone DEF IInv, TypeOK, ViewFollowsStep, CopiedSoFar
<1> QED
  BY <1>3, <1>4, <1>5 DEF IInv

-----------------------------------------------------------------------------
(* The users, and the machine *)

LEMMA UsersPreserve == IInv /\ (MapFails \/ Enter \/ Leave) => IInv'
<1> SUFFICES ASSUME IInv, MapFails \/ Enter \/ Leave PROVE IInv'
  OBVIOUS
<1>1. /\ UNCHANGED <<owner, image, live, building, step, left, writable,
                     mem, point, icache>>
      /\ step = "idle"
  BY DEF MapFails, Enter, Leave, code, caches, IInv, ViewFollowsStep
<1>2. /\ running' \in live \cup {NoObj}
      /\ phase' \in {"ok", "aborted"}
  BY <1>1 DEF MapFails, Enter, Leave, IInv, TypeOK, ViewFollowsStep
<1>3. TypeOK' /\ LiveLinesHoldImage' /\ ViewFollowsStep' /\ CopiedSoFar'
  BY <1>1, <1>2 DEF IInv, TypeOK, LiveLinesHoldImage, ViewFollowsStep, CopiedSoFar
<1> QED
  BY <1>3 DEF IInv

LEMMA DestroyPreserves == IInv /\ Destroy => IInv'
<1> SUFFICES ASSUME IInv, Destroy PROVE IInv'
  OBVIOUS
<1>1. PICK o \in live : /\ live' = live \ {o}
                        /\ owner' = [l \in Line |-> IF owner[l] = o THEN NoObj
                                                   ELSE owner[l]]
  BY DEF Destroy
<1>2. /\ step = "idle" /\ running = NoObj
      /\ UNCHANGED <<image, building, step, left, writable, running, phase,
                     mem, point, icache>>
  BY DEF Destroy, caches
<1>3. NoObj \notin live
  BY NoObjIsNone DEF IInv, TypeOK
<1>4. TypeOK'
  BY <1>1, <1>2 DEF IInv, TypeOK
<1>5. LiveLinesHoldImage'
  BY <1>1, <1>2, <1>3 DEF IInv, TypeOK, LiveLinesHoldImage
<1>6. ViewFollowsStep' /\ CopiedSoFar'
  BY <1>1, <1>2 DEF IInv, ViewFollowsStep, CopiedSoFar
<1> QED
  BY <1>4, <1>5, <1>6 DEF IInv

LEMMA HardwarePreserves == IInv /\ Hardware => IInv'
<1> SUFFICES ASSUME IInv, Hardware PROVE IInv'
  OBVIOUS
<1>1. PICK l \in Line : WriteBack(l) \/ Fill(l) \/ Evict(l)
  BY DEF Hardware
<1>2. UNCHANGED <<owner, image, live, building, step, left, writable, running,
                  phase, mem>>
  BY <1>1 DEF Hardware, code, WriteBack, Fill, Evict
<1>3. TypeOK'
  BY <1>1, <1>2 DEF IInv, TypeOK, WriteBack, Fill, Evict
<1>4. LiveLinesHoldImage'
  BY <1>1, <1>2 DEF IInv, TypeOK, LiveLinesHoldImage, WriteBack, Fill, Evict
<1>5. ViewFollowsStep' /\ CopiedSoFar'
  BY <1>2 DEF IInv, ViewFollowsStep, CopiedSoFar
<1> QED
  BY <1>3, <1>4, <1>5 DEF IInv

-----------------------------------------------------------------------------
LEMMA InitEstablishes == Init => IInv
<1> SUFFICES ASSUME Init PROVE IInv
  OBVIOUS
<1>1. [l \in Line |-> Zero] \in [Line -> Word]
  BY ZeroIsWord
<1>2. image \in [Obj -> [Line -> Word]] /\ mem \in [Line -> Word]
  BY <1>1 DEF Init
<1>3. TypeOK
  BY <1>2 DEF Init, TypeOK
<1>4. LiveLinesHoldImage /\ ViewFollowsStep /\ CopiedSoFar
  BY DEF Init, LiveLinesHoldImage, ViewFollowsStep, CopiedSoFar
<1> QED
  BY <1>3, <1>4 DEF IInv

LEMMA NextPreserves == IInv /\ [Next]_vars => IInv'
<1> SUFFICES ASSUME IInv, [Next]_vars PROVE IInv'
  OBVIOUS
<1>1. CASE UNCHANGED vars
  BY <1>1 DEF vars, IInv, TypeOK, LiveLinesHoldImage, ViewFollowsStep, CopiedSoFar
<1> QED
  BY <1>1, MapPreserves, ViewStepsPreserve, CopyPreserves, InvalidatePreserves,
     UsersPreserve, DestroyPreserves, HardwarePreserves DEF Next

(* Every state of every use of executable memory satisfies the invariant. *)
THEOREM Invariance == Spec => []IInv
  BY InitEstablishes, NextPreserves, PTL DEF Spec

(* Ownership, views and caches keep their types, and the code being run    *)
(* belongs to a live object: it is not unmapped (jit_memory.cc:79-83).     *)
THEOREM TypeCorrect == Spec => []TypeOK
<1>1. IInv => TypeOK
  BY DEF IInv
<1> QED
  BY <1>1, Invariance, PTL

(* An instruction fetch in a live object sees the object's code. *)
THEOREM FetchesAreCoherent == Spec => []Coherent
<1>1. IInv => Coherent
  BY DEF IInv, LiveLinesHoldImage, Coherent, Sees
<1> QED
  BY <1>1, Invariance, PTL

(* Neither the memcpy nor a call faults. *)
THEOREM NoFault == Spec => []NeverCrashes
<1>1. IInv => NeverCrashes
  BY DEF IInv, ViewFollowsStep, NeverCrashes
<1> QED
  BY <1>1, Invariance, PTL

(* The code of a live object never changes. *)
THEOREM CodeStaysFrozen == Spec => CodeIsFrozen
<1>1. ASSUME IInv, IInv', [Next]_vars,
             NEW l \in Line, owner[l] \in live, owner'[l] \in live'
      PROVE  mem'[l] = mem[l] /\ Sees(l)' = Sees(l)
  <2>1. /\ mem[l] = image[owner[l]][l] /\ Sees(l) = mem[l]
        /\ mem'[l] = image'[owner'[l]][l] /\ Sees(l)' = mem'[l]
    BY <1>1 DEF IInv, LiveLinesHoldImage, Sees
  <2>2. mem'[l] = mem[l]
    <3>1. CASE Map
      BY <1>1, <3>1 DEF Map, IInv, TypeOK
    <3>2. CASE Copy
      BY <1>1, <3>2 DEF Copy, IInv, TypeOK, CopiedSoFar, ViewFollowsStep
    <3>3. CASE Hardware
      BY <3>3 DEF Hardware, WriteBack, Fill, Evict
    <3>4. CASE ~(Map \/ Copy \/ Hardware)
      BY <1>1, <3>4 DEF Next, vars, MapFails, Unprotect, Protect, Invalidate,
                        Destroy, Enter, Leave, caches
    <3> QED
      BY <3>1, <3>2, <3>3, <3>4
  <2> QED
    BY <2>1, <2>2
<1>2. IInv /\ IInv' /\ [Next]_vars =>
        [\A l \in Line : (owner[l] \in live /\ owner'[l] \in live') =>
             mem'[l] = mem[l] /\ Sees(l)' = Sees(l)]_vars
  BY <1>1
<1> QED
  BY <1>2, Invariance, PTL DEF Spec, CodeIsFrozen
=============================================================================
