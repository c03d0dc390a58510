# minipy-jit: TLA+ models, model checking and proofs

minipy is a small Python-like language with one value type, a signed 64-bit
integer, and three ways to run a program: `--interp` walks the tree, `--jit`
compiles all of it to AArch64 code first, and `--tier` starts walking and
compiles the functions that get hot. The promise of the project is that the
three cannot be told apart by their output and exit status (`main.cc:46-47`,
`README.md:28`, `tests/run.sh`). This directory holds TLA+ models of the parts
that promise rests on, TLC configurations for small instances, and theorems that
TLAPS has checked for every value of the constants.

Paths such as `tiering.cc:133` are relative to `src/src/`.

## 1. The system

| Part | State | Operations | Talks to |
|---|---|---|---|
| lexer | position, line, stack of indentation widths | `lex` | called by the driver; tokens to the parser |
| parser | position in the tokens | `parse` | builds the tree; appends `__main__` |
| sema | signatures; slots of the current function | `run` | accepts or refuses, and writes slots into the tree |
| interp | one host stack frame and one map of locals per activation | `call`, `eval_*`, `exec_*` | asks the tier manager at every call; prints through stdio |
| tiering | `counts_`, `compiled_`, `regions_` | `on_call`, `compile_hot`, `reachable_from`, `invoke` | called by interp; calls codegen, makes `JitMemory` objects, enters their code |
| codegen | labels of functions, of the division stub and of the current return | `gen_*`, `compile` | drives the emitter; runs `__main__` for `--jit` |
| emitter | words, listing, label positions, fixups | instruction helpers, `bind`, `finalize` | used by codegen |
| jit_memory | one mapping; the thread's write protection; the caches | constructor, destructor | used by tiering and `run_jit` |
| runtime | none of its own (stdio) | `mp_print`, `mp_div_zero_abort` | called from compiled code |
| driver | options | `main` | calls all of the above in order |
| error | a line and a message | `CompileError` | thrown by lexer, parser and sema; caught by the driver |

Nothing runs concurrently in the program itself. What makes it hard is that
three stacks of state have to agree: the tree walker's activations, the machine
frames under or over them, and the tier manager's tables, which change while
both are live; that hardware caches act at any time; and that a compiler is a
function on an unbounded set of inputs, of which tests see a few.

### What makes each part correct

* **tiering**: a BL always has its callee in its own buffer; entries point into
  buffers that exist and hold the function; a compilation never happens under a
  native frame; promotion takes place at the threshold-th call and at no other;
  what is compiled stays compiled; the number of buffers is bounded.
* **the worklist**: ends on cyclic call graphs, finds exactly what is reachable,
  each function once.
* **jit_memory**: no stale instruction fetch, no fault, code immutable once
  made, for any reuse of addresses.
* **emitter**: after `finalize` every branch lands on its label; nothing but
  displacement fields changes; the listing shows the same words.
* **codegen with sema, interp and runtime**: same output, result and abort as the
  tree walk; balanced stack; no read of a value the code did not make; frames do
  not overlap; an accepted program always compiles.
* **the three engines together**: the same output and the same end wherever a
  program changes from the walk to compiled code, inside expressions, arguments,
  loops and recursion.
* **lexer**: indents and dedents nest at every prefix and are even at the end; a
  statement lies in the block its layout puts it in; every token is as long as it
  can be; lines and literals are what the source says; every turn of the loop moves.
* **parser**: it accepts exactly what the grammar of its comments derives, and
  builds the one tree precedence and associativity leave.
* **encoding**: the bytes handed to `JitMemory` decode, by the architecture's rules,
  to the instructions of the listing.
* **driver and the standard streams**: options mean what their order says; errors
  come before output or after all of it; the run reads the same whichever engine
  ran and however standard output is buffered.

## 2. Modules

| Module | Models | Kind |
|---|---|---|
| `CallGraph` | call graphs, closed sets, reachability as the least closed set | definitions |
| `TierPolicy` | what tiering promises, without stack or buffers | abstract specification |
| `Tiering` | `TierManager` with the call stack of `interp.cc` | state machine |
| `TieringProofs` | theorems about `Tiering` | proofs |
| `HotSet` | the loop of `reachable_from`, one turn per step | state machine |
| `JitMemory` | constructor, destructor and users of a code buffer on a machine with incoherent caches | state machine |
| `JitMemoryProofs` | its safety | proofs |
| `TieredMemory` | `Tiering` with each region a `JitMemory`, a compilation in its steps | composition |
| `TieredMemoryProofs` | that it refines both, and what it fetches | proofs |
| `Emitter` | labels, fixups, `finalize`, for any client | state machine |
| `EmitterProofs` | its safety | proofs |
| `Encoding` | every instruction helper down to the bits, and the byte image | state machine |
| `EncodingProofs` | that it implements `Emitter`, and that its bytes mean the listing | proofs |
| `Lexer` | the scanner, one turn of its loop per step | state machine |
| `LexerProofs` | theorems about `Lexer` | proofs |
| `Parser` | one operator per parse function | recursive operators |
| `Grammar` | what the productions in the comments of `parser.cc` derive | reference, not the code |
| `FrontEnd` | scanner, then parser | composition |
| `Words` | wraparound arithmetic of `interp.cc:38-72`, the operators of the walker | definitions |
| `Instructions` | the instruction helpers, `mov_imm64`, and the code `codegen` emits without a branch between: operators, the pops of a call, prologue, epilogue | definitions |
| `Ast`, `Sema` | the tree; acceptance and slots | definitions |
| `Interp` | the tree walker with values | recursive operators |
| `Codegen` | `codegen.cc`, on `Instructions` | recursive operators |
| `Calls` | `collect_calls_*` and `reachable_from` on trees | recursive operators |
| `Machine` | the processor, as far as emitted code uses it (external), and the two runtime functions | actions |
| `CompileProofs` | what a compilation takes in (`HotSet`), and what the straight-line code it makes does on `Machine` | proofs |
| `Engines` | compiled code against the walk of the same call | composition |
| `TieredEngines` | the walk in small steps, the counters, and compiled code for the hot calls | composition |
| `Transcript` | what a run may show on its two outputs | abstract specification |
| `Driver` | `main`, the pipeline, the three engines as far as they print, the output buffer | state machine |
| `DriverProofs` | theorems about `Driver` | proofs |

`MCTiering`, `MCHotSet`, `MCJitMemory`, `MCTieredMemory`, `MCEncoding`, `MCFrontEnd`,
`MCEngines`, `MCTieredEngines` and `MCDriver` define the instances; `Emitter` needs
constants only (`MCEmitter.cfg`). The modules with theorems, and what they use,
have no recursive operator.

### How they fit together

```
 Driver --implements--> Transcript        lexer and parser: FrontEnd = Lexer + Parser,
   | stages are open choices                       against Grammar
   v
 TieredEngines --follows--> TierPolicy <--implements-- Tiering <--implements-- TieredMemory
   = Interp (small steps) + Calls                        | uses Reachable         |
     + Machine (runs what Codegen made)               CallGraph                implements
                                                         ^ computed by            v
 Engines = Machine + Codegen + Sema                    HotSet                 JitMemory
     + Interp (the oracle)
                     Encoding --implements--> Emitter
```

`Tiering` takes a hot set to be `Reachable`, the least closed set. That
`reachable_from` computes it is what `HotSet` shows (and `CompileProofs` proves),
given the calls of each body; that `collect_calls_*` finds those calls in every
position of a tree is exercised by `Engines`, where a missed call is a BL
without a landing (`NeverFaults`), and by `TieredEngines`, where the compilation gives
up and the call waits for ever (`Terminates`). `FollowsPolicy` then compares what became
native together with what is reachable, by a reading of the program that looks for
calls in whatever a node holds (`Mentioned`) and shares nothing with
`collect_calls_*`. `Codegen` keeps its own
small copy of labels and fixups inside a record, since a compilation is a function
there; `Emitter` is the same machinery as a state machine with an arbitrary client,
and `Encoding` the same again with real words. The records of instructions are
the same in `Codegen`, `Machine` and `Encoding`, those of `Instructions`, so what `Machine`
executes is what `Encoding` shows the bytes to mean.

### Tiering

The state is the call graph, `counts`, `compiled` (for each function the index
of the region to enter, 0 if none), `regions` (what each holds) and `stack`. A
stack entry is an interpreted activation, a call whose arguments are being
evaluated (`eval_call` between `interp.cc:236` and `241`), or a native
activation in one region. Values and control flow are abstracted: a body may
call what it names in any order and number, return, or divide by zero. `Call`
is `Interpreter::call` with `on_call` inside it: `EnterCompiled`, `EnterCold` and
`EnterHot` are its three outcomes, and `CompileHot` is part of the last, since
the program sees nothing between them; `TieredMemory` takes it apart.

`counts` stops at the threshold because a compiled function is found before the
counter is touched; the code's `int` therefore cannot overflow. The threshold is
at least 1 (`main.cc:66-72`). `MaxDepth` bounds the stack.

### JitMemory

`mem` is what stores see, `point` the place where the data cache and instruction
fetches meet, `icache` the instruction cache. Write-backs, fills and evictions
happen at any time. Mapping reuses addresses of destroyed buffers; the kernel
hands out zeroed lines and the caches keep what they held. `writable` is the
thread's view of all JIT pages. `Copy` and `Enter` fault when the view is wrong.

### TieredMemory

The region numbered r is the `JitMemory` object r, and its words are the code of
the set it was compiled from. A promotion is the counter (`CompileBegins`), the
steps of the constructor with the hardware between them, and the store of the
entries (`CompileEnds`); the interpreter waits meanwhile. What the users of
buffers do is written without `JitMemory`'s assumptions about them, and
`UsesMemoryAsAssumed` shows that they are met. A frame fetches through the caches
(`FetchesOwnCode`).

### Emitter

A word is its branch family and its displacement field, `plain` standing for all
else. `Half26` and `Half19` are the reaches, 2^25 and 2^18 in the code. Clients
may bind, and branch to, labels that were never issued or are bound already;
these are the aborts of `emitter_bug`.

### Encoding

A word is the set of its one bits, so the `|` of the code is a union and a mask an
intersection, and operands that overlap do so here too. Each helper is an action
with the operand checks of the code; `Decode` is written from the architecture,
not from the emitter. The mnemonic of a listing line is the record of the
instruction it names.

### Lexer, Parser, FrontEnd

Characters are one-letter strings; a loop to the end of a run (spaces, a comment,
a word, a number) is one step, everything else a turn of `lex`'s loop. `phase` is
the error thrown, if any; a dedent pops the stack before it finds out that no width
fits, as the code does. A literal is what the cast to `int64_t` makes of its residue
(`Signed`). In `Parser` a position is an index into the tokens, and
a `CompileError` is a negative one: no token is there, so every caller gives up as
an exception would make it. `parse_` names the nonterminals that occur in each
other. `Grammar` gives, for a sequence of tokens, all trees it derives, by cutting
it in all ways; it has no cursor and no lookahead. In `MCFrontEnd` keywords are
spelled with one letter, so that short texts hold many of them.

### Engines

`compile` is a function from a list of resolved functions to a list of
instructions with displacements. `Machine` executes it from the state in which
C++ calls in. What the code may not rely on is `Junk`: the registers an entry
does not pass, caller-saved registers and flags after a host call, memory
below `sp` after a host call, all of the stack at the start. The oracle is what
`Interp` computes for the same call. The case decides whether the program is
compiled whole and entered at `__main__` (`run_jit`), or as the hot set of one
function and entered there with arguments (`compile_hot`, `invoke`).

A word is four chunks, as 64 bits are four halfwords, and `ChunkSize` is the number
of values of one: 2^16 in the code, 2 in the runs, any even number in the proofs.

### TieredEngines

`Interp` again, but with its C++ stack made explicit: `ctl` is what the walker is
about to do, `rest` what it is in the middle of. At a call it asks the tier
manager as `Interpreter::call` does, and a hot one hands over to `Machine`, whose
result the walk goes on with. The oracle is the walk without a tier manager.

### Driver

`main`'s loop over its arguments, the stages, and the errors each of them may end
in. Whether a source is accepted, and what a program prints, is open. Under
`--tier` a run alternates between the walk and machine code; both print into the
same buffer, and a division by zero flushes it from either. The buffer of standard
output is written out at each line (a terminal) or at any time (a pipe), by
`fflush`, and by `exit`, not by `abort`. The lines of `--time` go to standard error
at points nothing promises, and are kept apart in `timed`.

## 3. Runs

| Run | Bounds | States | Shows |
|---|---|---|---|
| `tiering` | 3 functions, threshold 2, 4 stack entries, every call graph in which all are reachable from main | 194,098 | buffers, entries, counters and stacks agree; `ImplementsPolicy` |
| `tiering_once` | 2 functions, threshold 1 | | violation, finding 1 |
| `hotset` | 3 functions, every body of up to 2 calls | 44,637 | termination and exactness of the worklist |
| `jit_memory` | 2 lines, 2 objects, 3 words | 34,073 | coherence, no fault, frozen code |
| `tiered_memory` | 4 functions, threshold 2, 3 stack entries, 2 lines, two call graphs | 50,750 | fetched code is one's own; refinement of `Tiering` and of `JitMemory` |
| `emitter` | 4 words, 2 labels, reaches 3 and 2 | 110,046 | branches, listing |
| `encoding` | one word with all operands at the ends of their fields and past them; two words and two labels of branches and returns | 76,038 | bytes mean the listing; refinement of `Emitter` |
| `frontend` | 34,176 sources: texts of up to 4 characters, files of up to 4 layout lines, 3, 4 and 6 lines of headers and statements, expressions of up to 7 tokens | 447,174 | stream, layout, tokens, grammar, tree, termination |
| `engines` | 4-bit words in 1-bit chunks, about 4200 programs and calls | 75,000 | agreement of compiled code and tree walk |
| `engines_far` | `Reach19` of 16 words | | violation, finding 2 |
| `tiered_engines` | six programs that change engine midway, thresholds 1, 2, 3 and 100 | 5,802 | agreement under tiering; termination; the policy |
| `driver` | command lines of up to 3 of 15 arguments, up to 2 printed lines | 92,068 | options, errors before output, refinement of `Transcript` |

Why the bounds are enough for the questions asked:

* three functions give two hot roots that share a callee, so a function is
  compiled twice and rebound; threshold 2 separates counting from promotion; four
  stack entries allow a promotion in the arguments of a call to the function
  that is promoted, and a native call from a native frame above it. Functions
  other than main are interchangeable (symmetry);
* two lines and two objects allow a buffer beside another and one on the former
  place of another; three words tell old code, new code and zeroed memory apart.
  In the composition, two lines and two compilations that share a function give a
  second region while the first holds part of what it rebinds, and mappings that
  fail, at the first compilation or the second;
* four words with a reach of 2 put displacements on, inside and beyond both ends
  of a field, in both directions; two labels fall on one word and on different
  ones;
* an instruction's encoding depends on one word only, so one word with every
  operand decides it; registers take values that set and clear each of the five
  bits, and immediates the ends of their ranges. Two words are what a branch needs
  to go forward or backward, and finalize to patch more than one;
* the scanner looks at most one character ahead, so four characters hold every pair of
  tokens that could merge, at every end of the file. Widths 0 to 3 and four lines
  give two levels closed at once, and a line between two levels. Six lines
  are an if, elif or else chain with a body in each arm and what follows it;
  expressions of three operators decide every precedence and associativity, and
  repeated prefixes go to seven tokens;
* 4-bit words make every pair of operands affordable, the most negative word by
  -1 and the wrapped products included; a chunk of one bit keeps the four chunks
  of `mov_imm64` and all 16 patterns of zero chunks. Nothing in the code generator
  looks at a word's width otherwise. Slot limits and offset ranges keep their
  real values: frames of 29, 30 and 31 slots are among the cases, and the last is
  refused by sema. Cases whose walk does not finish within `Fuel` nested calls
  and loop turns are not compared (a bound on the walk; the cases are chosen to
  stay within it);
* the thresholds 1, 2, 3 and 100 promote at the first call, during the recursion
  or loop of the programs, and never;
* three arguments are a file and two options, or an option overridden by one of
  its kind; two printed lines are one in the buffer behind one that has left it.

`CHECK_DEADLOCK FALSE` is set everywhere because every one of these systems
stops: programs end, worklists empty, an emitter is finalized, and, for
`JitMemory`, the process aborts.

**Fairness.** `HotSet!FairSpec`, `FrontEnd!FrontEndSpec`, `Engines!Spec` and
`TieredEngines!Spec` assume weak fairness of the next step: all are straight-line
execution on one thread, which nothing pauses. `Terminates` says in the first that
cycles do not keep the worklist busy, in the second that every turn of the scanner
moves, in the third that compiled code ends whenever the walk does (only such
cases are started), in the fourth that no call waits for ever for the other
engine. No other module assumes fairness, because what a program does next is
the program's choice.

**The examples in the comments.** `ExamplesDecode` of `MCEncoding` is an assumption TLC
evaluates: the words that the comments of `emitter.cc` give for their examples
decode to the instructions they name. It ties `Decode` to something other than
the emitter.

**Proved and not run.** Some invariants are theorems for all instances and no
longer worth a run: `CompiledClosed`, `ColdBelowThreshold`, `CompileOffStack`,
`HotStaysNative` of `Tiering`, the opcode and label properties of `Emitter`, and the type
invariants of `HotSet`, `JitMemory`, `Emitter` and `Driver`.

**Slips.** Definitions marked `Slip:` are not part of the model. Each is a mistake
that could have been made in the definition it stands beside, and replaces it
to see the property fail that is there to catch it.

## 4. Findings

Two statements of the documentation do not hold of the code; each has a run
that violates it.

1. *A function called once is never promoted, `__main__` in particular*
   (`tiering.h:15-17`). With `--hot=1` the counter reaches the threshold on the
   first call, and `__main__` starts compiled (`tiering.cc:166-171`). The repository's
   README shows the option in use.
2. *All three agree* (`README.md:28`), and *emitter_bug means the compiler is wrong*
   (`emitter.cc:27-30`). Every division tests its divisor with a CBZ to one stub after
   all functions, and CBZ reaches 1 MB. A legal program with more code than that
   behind a division stops with `branch target out of range` under `--jit`
   (and under `--tier`, once hot) and runs under `--interp`. The run scales the reach
   to 16 words.

Smaller differences, not runs:

* `codegen.h:41-42` and `codegen.cc:476` say functions are emitted in source order;
  a hot region is in the order of the worklist, which is a stack (`tiering.cc:110`).
  Harmless, as entries are looked up by name.
* `tiering.h:94-97` says an older copy may be executing when a newer one is made, but
  no native code is on the stack then (`CompileOffStack`). Keeping the buffers is
  still needed, since other functions keep entries into them.
* `tiering.h:63-64` says arguments are evaluated between `on_call` and `invoke`, but
  `eval_call` has evaluated them before either.
* `main.cc:54` and `tiering.h:55` speak of the calls before a function is compiled. N
  walked calls could be meant; the code walks N-1, and the N-th is the first to run
  compiled (`tiering.cc:167-171`). `TierPolicy` states what the code does.
* `tiering.h:9-10` says every call bumps a counter, but native calls do not.
* `runtime.cc:24-29` says output would be lost without the flush before the message;
  `exit` flushes too, so it would come out after the message. The order is what the
  flush is for.

## 5. Proofs

The theorems are of the form `Spec => []P`, `Spec => [][A]_vars` or a refinement, for
every value of the constants that satisfies the named assumptions in the modules
(finitely many functions, a positive threshold, positive reaches, an even chunk, an even
modulus for literals, operands of the helpers within their C++ types, the null values
distinct from real ones, an alphabet whose letters, digits, operators and layout
differ). Those of `CompileProofs` about the machine are about a piece of code instead
of the whole of an execution, as described below.

* **Tiering.** The inductive invariant adds three facts to the checked ones. A
  *region is closed and all its members are bound* (`RegionsClosed`): with it a
  NativeCall finds its callee, and `CompiledClosed` follows from `EntryInRegion`
  although rebinding mixes regions. *Native frames run functions of their region*
  (`NativeInRegion`). *Control is in a frame while the program runs*
  (`StackMatchesPhase`). `NoWayBack` is what makes `EntryIsCurrent` inductive:
  rebinding happens only in `EnterHot`, whose stack has no native frame.
  `RegionsBounded` uses that the root of a compilation was not compiled, so the set of
  compiled functions strictly grows. `TieringImplementsPolicy` maps a count to the
  number of walked activations (one less once the threshold is reached) and a
  compilation to a promotion; the promoted set is `Reachable`, and every other step
  stutters.
* **HotSet.** `SeenIsFoundOrWaiting`, `OnlyReachable`, `CallsAreSeen` and
  `NothingTwice`; when nothing waits, the marked set is closed and holds the root,
  so it contains the least such set, and by `OnlyReachable` nothing else. The proofs
  are the first part of `CompileProofs`, which has what a compilation takes in and
  what its straight-line code does.
* **JitMemory.** A live line holds its image in memory, at the point of coherence
  and, if anywhere, in the instruction cache; while a buffer is being made, the
  copied lines hold it in memory only. The view is writable exactly while copying.
* **Emitter.** Fixups and branch words correspond one to one, those before `next`
  are patched with a displacement that fits, and a field that fits reads back as
  the displacement (`FieldRoundTrip`). The second fixup of a word, which would undo
  the first, is excluded by `FixupsDistinct`.
* **Encoding.** All operands, and any number of words and labels. The assumption
  `OperandsHaveTypes` gives the operands their C++ types and no more: registers, halves
  and offsets are any integers, since the helpers check those themselves; the 16-bit
  immediate and the condition, which they do not check, have the ranges of
  `uint16_t` and of the enumeration.

  *Numbers and bits.* A word is a set of bits and a field a sum over them, by a recursive
  function. `SameBits` says that numbers are equal when their bits are, `FieldBits` that
  the bits of a field are those of the word there, and `FieldIs` that a word which
  shows a number's bits in a field reads back as that number. `SignedIs` is the same in
  two's complement. The shifts put operands in their places, and these places are
  disjoint from each other and from the opcode (`ThreeRegsFields`,
  `ImmediateFields`, ...), for the ranges the checks let through.

  *Instructions.* One lemma for each class of instruction says what the processor decodes
  from the bits of its opcode (`Decode...`), and one for each helper that its word is in
  that class with its operands in the fields (`...Encodes`). `cset` needs that the
  inverted condition fits four bits; the pair instructions that a multiple of 8 within the
  checked range comes back from seven signed bits.

  *The invariant.* `IInv` is `Emitter`'s own invariant, of the words as `Emitter` has them,
  and: each word is that of its listing line (`WordsMean`), either exactly
  (`PlainLine`) or as a branch of its kind with its register or condition,
  whatever the displacement. It has to say that before `finalize` too, when a branch has
  not got its displacement. `BytesMeanTheListing` follows because, at the end,
  `BranchesLand` of `Emitter` gives the displacement, and the bytes give the words
  back.

  *The refinement.* Each helper is a step of `Emitter` that appends a plain word or a
  branch with a fixup. Patching masks the field out and puts the displacement in:
  `PatchedBits` says which bits change, `FieldOfDelta` that what the field then has is
  what `Emitter` puts there, `PatchedReads` that the rest still decodes the same. A failed
  check of an operand, which `Emitter` does not have, is its abort on binding a
  label nobody made: the same states, by a different route.

* **TieredMemory.** The theorems about `Tiering` and `JitMemory` are taken over through
  INSTANCE: a step of the composition is a step, or a stutter, of either. For that
  three facts are needed besides the two invariants: a compilation is for a call
  that waits (`CompilesForACall`); the memory goes along with the tiers, with the
  processor in the region on top of the stack and the buffers those of the regions
  (`MemoryFollows`); and a region has lines, whose bytes are the code of its set
  (`CodeInPlace`). The refinement of `Tiering` hides the count of the function being
  compiled until the entries are stored. With it, `Coherent` says that what is
  fetched is the image, and the closedness of regions that it holds the callees.
* **Lexer.** A stream is *sound* if it nests and is made of lines. One token more keeps
  it so if it fits after the last (`OneMore`), and so do as many dedents as there
  are blocks (`ManyDedents`). The invariant says that the depth of the stream is the
  height of the stack, that the widths on the stack increase from 0, and that *a
  line of code that has begun has something on it* (`LineBegun`): without it, a line
  could end in a newline token with no token before. The counter's invariant
  is that lines are newlines passed (`LinesAreTrue`). `EveryTurnMoves` is the safety half of
  termination.

  *Types and literals* (`TypeCorrect`, `TokensAreAccurate`). The scanner reduces a
  literal digit by digit; `Positional` adds up its digits by place and reduces at the
  end. `ReduceBefore` says that one more digit may be added before or after reducing,
  and the rest is an induction over the digits (see below). `SignedIs` is the reading
  of the residue in two's complement, for which the modulus has to be even.

  *The lines of tokens* (`TokensAreAccurate`). The property does not read the counter:
  the line of a token is found in the source, from the number of newline tokens before
  it, which says how many lines of code are over. The invariant (`TokenInv`) says that
  a token behind `over` of them is on the next line of code, or, when none is left, where
  the text ends. `LinesDiffer` makes that line unique: two lines of code differ in how
  many precede them. With the counter's invariant each stamp is then right when it is
  made (`OneMorePlaced`), and a later turn moves no token (`SamePlacing`). The slip
  `NewlineCountedFirst` counts the newline before it stamps the token that ends the line.

  *Munching* (`TokensAreWhole`). One lemma per turn that makes a token: what it takes
  is a token, and the character after it would not have made a longer one. For
  operators this needs that no pair begins with a pair, and that no single
  character is tried before the pair it begins.

  *Layout* (`LayoutIsFollowed`). The reference defines the depth of a line as the number
  of earlier lines that are narrower than it and than all between; it has no stack.
  The invariant (`LayoutInv`) names the line `cur` the scanner is on and says that the
  widths on the stack are those of the lines still open there, and that every earlier
  line was aligned and has its newline token, as deep as it has enclosing lines.
  A wider line opens one more (`StackOpens`); a line of a width on the stack closes
  those above it (`StackCloses`); and a width that is not on the stack falls between
  two lines that the reference does not relate either, which is the error
  (`StackRefuses`). That each line has but one newline token follows from the
  count of newline tokens, which only grows.
* **Driver.** Until an error only output has come out (`SilentFirst`), and an error is the
  last line (`ErrorIsLast`). The transcript is what has come out followed, while the
  process can still write, by what is in the buffer: a print appends to the second,
  a spill moves the boundary, and neither `exit` nor a division by zero leaves
  anything behind. An abort may: there the boundary is where `Transcript` lets the
  message in and the rest be lost (`CutWhereJoined`). For the options the
  invariant says of each kind that it is what the last of that kind among the
  arguments read so far asks for; an argument of another kind leaves the last one
  where it was.
* **Machine code.** The theorems take a piece of code wherever it has been placed
  (`Placed(code, base)`) and whatever surrounds it, start the processor at its first
  word in any state with the operands in place, and let it go on while it is inside
  the piece (`StepIn`). What is proved then holds at the words behind the piece.
  `OperatorsAgree`: for all pairs of words of any width, `x0` holds what `Combine` of the
  walker gives, or the processor is at the stub and the operation was a division by zero;
  the stub is assumed to be further than the piece is long, which it is because
  `compile` puts it behind everything. The invariant is the state after each
  instruction; its arithmetic is that wrapped results are determined by their
  remainder, and that `msub` of the quotient is the remainder of the truncated
  division, the most negative word by -1 included. `UnariesAgree` is the same for minus
  and not. `ConstantsArrive`: after each instruction of `mov_imm64` the register holds
  the chunks below the next one, and a skipped chunk adds nothing; whichever of the 16
  patterns, four chunks are the word. `FramesAreMade`: for at most eight parameters (as
  sema ensures), any number of slots and any stack the frame fits on, the prologue
  leaves the link of the caller at `x29`, the parameters and the zeros in their slots,
  and the memory of the caller as it was. `FramesAreLeft`: the epilogue restores the
  caller's frame and stack pointer, and returns to the link, wherever `sp` was, so temporaries a
  `return` leaves on the stack do no harm. `ArgumentsArrive`: behind the pops of a call of
  up to eight arguments, each argument is in the register from which `FramesAreMade`
  takes it, and `sp` is where it was before the first push; the invariant is that after
  `k` pops the last `k` arguments are in place. `PrintsItsArgument` and `StubStops` put a
  call into the host behind the `mov_imm64` of its address: the first has printed `x0` once
  and kept the frame, though the host leaves junk in everything else it may; the second
  ends the process and never goes on behind the stub. Both assume that the two
  addresses are different 64-bit words. All but the frames also say that nothing
  changes but the registers the piece is entitled to.

All proofs are for any number of functions, lines, words, characters or arguments.
Where the instance variable is a sequence of unknown type, as the tokens are, a
sequence is typed by its own range.

**Recursive functions.** The library's induction theorems take an operator, which the
provers cannot instantiate. `LexerProofs` does without: `Least` finds the least
counterexample as a set element, `UpTo` makes a set of numbers that contains 0 and each
successor the whole interval, and `Recursion` shows that a recursive function on an
interval exists, so that its equation may be used. With them the value of a literal,
which `Lexer` computes by a recursive function, is proved for any number of digits.
`EncodingProofs` does the same for powers of two and fields: `UpTo` and `DownTo` there
take the set of positions at which a statement holds.
Trees have no such measure short of coding them, and remain with TLC.

Model-checked only:

* termination (of the worklist, the scanner, compiled code and tiered programs):
  liveness is outside the prover;
* what needs induction over trees, in modules with recursive operators: `EnginesAgree`,
  `NothingUndefined`, `NeverFaults`, `AbiHonoured`, `BalancedAtReturn`, `TiersAgree`,
  `FollowsPolicy`, `ParsesTheGrammar` and `TreeFollowsLayout`. The theorems of
  `CompileProofs` about the machine are the leaves of the first five: what a node of the tree adds to the
  code of its operands, and the ends of a function.

## 6. What is not modelled

* Exhaustion of the host stack (`interp.cc:107`) or of memory other than a refused
  mapping: the code has no check to model, and the engines really differ there.
* The place of the lines of `--time` among the others, and the text of
  `--dump-tokens`, `--dump-ast` and `--disasm`: a dump is one line in `Driver`.
* The wording of errors, which of several semantic errors is reported first, and
  the line numbers kept in tree nodes. The line of a scanner's error is modelled,
  the parser's is that of its failing token.
* The bounds of the vectors the parser indexes without a check (`parser.cc:83`): a
  position past the end could only fail in `Parser`. What is covered is that streams
  end in the one eof that no rule consumes, and what the parser makes of them.
* Whether the lines that wait in the buffer are lost when a compilation aborts in the
  middle of a program under `--tier`: that is the library's choice. `FailsBeforeOutput`
  exempts it; `Transcript` lets those lines be lost or come out behind the message, and
  asks that no other be, that their order stay, and that the status tell.
* The benchmarks and the test runner.

## 7. Plan

Done: the tier manager and its policy (first, because its hazards are the ones
tests reach least), the worklist, code memory, the emitter, the engines on single
entries into compiled code; then the composition of tiers and memory, tiers with
values, the standard streams and the driver, the scanner, the parser, the
encoding, and the proofs about the first two compositions and the scanner; then, as
theorems, the rest of the scanner (types, literals, munching, layout), the options,
what the machine does with the code of every operator, constant, prologue, epilogue,
list of arguments and call into the host, and that the bits of the emitter mean its listing.

What is left, in this order:

1. Pieces of code with other pieces inside, on the machine: that an operand pushed
   is there to pop behind any code that keeps the stack, a short circuit and its two
   ways, an `if` and a `while` around any body. This is the step of an induction over trees.
2. `TieredEngines` over `TieredMemory`: programs with values whose code is fetched
   through the caches.
3. Two compositions of the driver, with `FrontEnd` and with `TieredEngines` in the place
   of its open choices.
