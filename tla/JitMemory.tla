----------------------------- MODULE JitMemory -----------------------------
(***************************************************************************)
(* JitMemory: one mapping of executable memory, filled by the five steps   *)
(* of its constructor and unmapped by its destructor, on a machine whose   *)
(* instruction fetches do not see stores until caches are maintained.      *)
(*                                                                         *)
(* The machine is external.  A store lands in mem; the contents move to    *)
(* the point where instruction fetches look (point) when the data cache    *)
(* writes them back, at any time or when told to; an instruction cache     *)
(* line is filled from point at any time, and keeps what it holds until it *)
(* is evicted or invalidated, across unmapping and mapping again.          *)
(***************************************************************************)
EXTENDS Naturals

CONSTANTS
    Line,            \* cache lines of the address space the kernel maps from
    Word,            \* what a line can hold
    Zero,            \* a line of a fresh anonymous mapping
    Obj,             \* JitMemory objects
    NoObj, NoWord    \* a line of no mapping; an empty instruction cache line

ASSUME ZeroIsWord == Zero \in Word
ASSUME NoObjIsNone == NoObj \notin Obj
ASSUME NoWordIsNone == NoWord \notin Word

VARIABLES
    owner,           \* the object whose mapping holds the line
    image,           \* the bytes each object was constructed from
    live,            \* constructed and not yet destroyed
    building,        \* the object being constructed
    step,            \* how far its constructor is
    left,            \* the lines the memcpy has still to write
    writable,        \* this thread's view of MAP_JIT pages
    running,         \* the object whose code the thread is executing
    phase,           \* "ok", "aborted" (mmap refused) or "crashed" (a fault)
    mem, point, icache

code == <<owner, image, live, building, step, left>>
caches == <<mem, point, icache>>
vars == <<owner, image, live, building, step, left, writable, running, phase,
          mem, point, icache>>

LinesOf(o) == {l \in Line : owner[l] = o}

(* What an instruction fetch at l executes. *)
Sees(l) == IF icache[l] = NoWord THEN point[l] ELSE icache[l]

Init ==
    /\ owner = [l \in Line |-> NoObj]
    /\ image \in [Obj -> {[l \in Line |-> Zero]}]
    /\ live = {}
    /\ building = NoObj
    /\ step = "idle"
    /\ left = {}
    /\ writable = FALSE
    /\ running = NoObj
    /\ phase = "ok"
    /\ mem = [l \in Line |-> Zero]
    /\ point \in [Line -> Word]
    /\ icache = [l \in Line |-> NoWord]

-----------------------------------------------------------------------------
(* The constructor *)

(* mmap: any free lines, zeroed by the kernel; caches keep what they hold. *)
Map ==
    /\ phase = "ok"
    /\ step = "idle"
    /\ running = NoObj
    /\ \E o \in Obj \ live, ls \in (SUBSET LinesOf(NoObj)) \ {{}},
          img \in [Line -> Word] :
          /\ building' = o
          /\ image' = [image EXCEPT ![o] = img]
          /\ owner' = [l \in Line |-> IF l \in ls THEN o ELSE owner[l]]
          /\ mem' = [l \in Line |-> IF l \in ls THEN Zero ELSE mem[l]]
    /\ step' = "mapped"
    /\ UNCHANGED <<live, left, writable, running, phase, point, icache>>

(* mmap is refused: perror, abort. *)
MapFails ==
    /\ phase = "ok"
    /\ step = "idle"
    /\ running = NoObj
    /\ phase' = "aborted"
    /\ UNCHANGED <<code, writable, running, caches>>

(* Slip: the first pthread_jit_write_protect_np is missing. *)
UnprotectForgotten ==
    /\ phase = "ok"
    /\ step = "mapped"
    /\ step' = "copying"
    /\ left' = LinesOf(building)
    /\ UNCHANGED <<owner, image, live, building, writable, running, phase, caches>>

(* Slip: the copy rounded up to whole pages. *)
UnprotectForPages ==
    /\ phase = "ok"
    /\ step = "mapped"
    /\ step' = "copying"
    /\ left' = Line
    /\ writable' = TRUE
    /\ UNCHANGED <<owner, image, live, building, running, phase, caches>>

(* pthread_jit_write_protect_np(0) *)
Unprotect ==
    /\ phase = "ok"
    /\ step = "mapped"
    /\ step' = "copying"
    /\ left' = LinesOf(building)
    /\ writable' = TRUE
    /\ UNCHANGED <<owner, image, live, building, running, phase, caches>>

(* memcpy, a line at a time: a fault if the thread may not write. *)
Copy ==
    /\ phase = "ok"
    /\ step = "copying"
    /\ \E l \in left :
          IF writable
          THEN /\ mem' = [mem EXCEPT ![l] = image[building][l]]
               /\ left' = left \ {l}
               /\ UNCHANGED phase
          ELSE /\ phase' = "crashed"
               /\ UNCHANGED <<mem, left>>
    /\ UNCHANGED <<owner, image, live, building, step, writable, running,
                   point, icache>>

(* pthread_jit_write_protect_np(1) *)
Protect ==
    /\ phase = "ok"
    /\ step = "copying"
    /\ left = {}
    /\ step' = "protected"
    /\ writable' = FALSE
    /\ UNCHANGED <<owner, image, live, building, left, running, phase, caches>>

(* Slip: no cache maintenance, which usually works. *)
InvalidateForgotten ==
    /\ phase = "ok"
    /\ step = "protected"
    /\ step' = "idle"
    /\ live' = live \cup {building}
    /\ building' = NoObj
    /\ UNCHANGED <<owner, image, left, writable, running, phase, caches>>

(* sys_icache_invalidate over the mapping, and the constructor returns. *)
Invalidate ==
    /\ phase = "ok"
    /\ step = "protected"
    /\ point' = [l \in Line |-> IF owner[l] = building THEN mem[l] ELSE point[l]]
    /\ icache' = [l \in Line |-> IF owner[l] = building THEN NoWord ELSE icache[l]]
    /\ step' = "idle"
    /\ live' = live \cup {building}
    /\ building' = NoObj
    /\ UNCHANGED <<owner, image, left, writable, running, phase, mem>>

-----------------------------------------------------------------------------
(* Its users and its destructor *)

(* munmap: the lines are free again, whatever the caches hold of them. *)
Destroy ==
    /\ phase = "ok"
    /\ step = "idle"
    /\ running = NoObj
    /\ \E o \in live :
          /\ live' = live \ {o}
          /\ owner' = [l \in Line |-> IF owner[l] = o THEN NoObj ELSE owner[l]]
    /\ UNCHANGED <<image, building, step, left, writable, running, phase, caches>>

(* A call into the code: a fault if the thread's view is still writable. *)
Enter ==
    /\ phase = "ok"
    /\ step = "idle"
    /\ running = NoObj
    /\ \E o \in live :
          IF writable
          THEN phase' = "crashed" /\ UNCHANGED running
          ELSE running' = o /\ UNCHANGED phase
    /\ UNCHANGED <<code, writable, caches>>

Leave ==
    /\ phase = "ok"
    /\ running # NoObj
    /\ running' = NoObj
    /\ UNCHANGED <<code, writable, phase, caches>>

-----------------------------------------------------------------------------
(* The machine *)

WriteBack(l) ==
    /\ point' = [point EXCEPT ![l] = mem[l]]
    /\ UNCHANGED <<mem, icache>>

Fill(l) ==
    /\ icache[l] = NoWord
    /\ icache' = [icache EXCEPT ![l] = point[l]]
    /\ UNCHANGED <<mem, point>>

Evict(l) ==
    /\ icache' = [icache EXCEPT ![l] = NoWord]
    /\ UNCHANGED <<mem, point>>

Hardware ==
    /\ phase = "ok"
    /\ \E l \in Line : WriteBack(l) \/ Fill(l) \/ Evict(l)
    /\ UNCHANGED <<code, writable, running, phase>>

Next ==
    \/ Map \/ MapFails \/ Unprotect \/ Copy \/ Protect \/ Invalidate
    \/ Destroy \/ Enter \/ Leave
    \/ Hardware

Spec == Init /\ [][Next]_vars

-----------------------------------------------------------------------------
(* Type invariant. *)
TypeOK ==
    /\ owner \in [Line -> Obj \cup {NoObj}]
    /\ image \in [Obj -> [Line -> Word]]
    /\ live \in SUBSET Obj
    /\ building \in Obj \cup {NoObj}
    /\ step \in {"idle", "mapped", "copying", "protected"}
    /\ left \in SUBSET Line
    /\ writable \in BOOLEAN
    /\ running \in live \cup {NoObj}
    /\ phase \in {"ok", "aborted", "crashed"}
    /\ mem \in [Line -> Word]
    /\ point \in [Line -> Word]
    /\ icache \in [Line -> Word \cup {NoWord}]

(***************************************************************************)
(* An instruction fetch in a live object executes the bytes it was made    *)
(* from (jit_memory.cc:57-71), whatever an earlier mapping of the same     *)
(* lines left in the caches and whenever the machine prefetched.           *)
(***************************************************************************)
Coherent ==
    \A l \in Line : owner[l] \in live => Sees(l) = image[owner[l]][l]

(***************************************************************************)
(* Neither the memcpy nor a call faults (jit_memory.cc:45, 53): the write  *)
(* view is open for the first and closed for the second, on every path and *)
(* for every object, the view being the thread's and not the mapping's.    *)
(***************************************************************************)
NeverCrashes == phase # "crashed"

(***************************************************************************)
(* The code of an object never changes while it lives: no later            *)
(* construction writes over it, and no cache brings older bytes back.      *)
(***************************************************************************)
CodeIsFrozen ==
    [][\A l \in Line : (owner[l] \in live /\ owner'[l] \in live') =>
          mem'[l] = mem[l] /\ Sees(l)' = Sees(l)]_vars
=============================================================================
