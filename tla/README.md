# pracc in TLA+

`pracc` compiles *prac*, a concatenative, statically typed, stack-based language, to
x86-64 assembly. It is a sequential C program. The only things beside it are the
assembler and the linker, child processes that it starts and waits for, and the files that
runs leave in the directory. What is hard about it is that it keeps **two stacks in
step**: a stack of types, pushed and popped while the compiler walks the program once,
and the stack of the processor, pushed and popped by the emitted code in whatever order it
really runs: through branches, loops, calls, recursion and inlined bodies. Each argument is found
by an offset computed from the first stack and used on the second. A test runs one
program; the hazards are in combinations of constructs.

## Inventory

| component | state it keeps | operations | talks to |
|---|---|---|---|
| lexer (`lexer.c`) | a buffer of tokens for each open file; pools of lines and words; `LINE` | read lines, split them, classify words, `include` | files, through nested readers; parser, through the buffer |
| files, locations (`file.c`, `loc.c`) | `FILES`, `LOCS`, each with a limit | append, look up | lexer, errors |
| parser (`parser.c`) | `token_idx`, `next`, `if_count`, `else_count`, `cond_is_not_empty`, the open calls of `ast_token` | one branch of `ast_token` per token kind, signatures, blocks | ast store |
| ast store (`ast.c`, `ast.h`) | `ASTS`, `main_function` | append, `astid`, the search for main | every later stage |
| constant evaluation (`consteval.c`) | a simulation stack of values | simulate a body, result or report | driver, which stores the results in `const_map` and `var_map` |
| code generator (`compiler.c`) | `values_map`, `externs_map`, `proc_ctx`, `func_ctx`, label counters, used strings, `out.asm` | fill the maps, compile each AST kind, inline, call, branch | out.asm |
| emitted program (`compiler.c`, what it writes) | processor stack, `rsp_stack` and its pointer, variables, `ret_code` | the instructions | the C functions and system calls it uses |
| runtime (`dmp_i64`, `strlen` in `compiler.c`) | a frame with a buffer of digits | print an integer, a string | emitted program |
| driver (`main.c`) | `const_map`, `var_map`, timing | lex, parse, check `main`, evaluate constants, compile | all stages |
| toolchain (`main.c`, `nob.c`) | child processes; `out.asm`, `out.tmp`, `out.o`, `out` | start and wait for the assembler, rename, start and wait for the linker | driver; what earlier runs left |
| errors (`errors.c`) | none | report with a location and stop | every stage |
| arena (`vmem.c`, `malloc.c`) | two reserved ranges and how much of each is handed out | reserve, allocate, release | every stage |
| vectors, strings (`lib.h`, `stringutils.c`) | vectors behind pointers; a scratch buffer | append, insert, pop, grow; append, cut, clear, copy | every stage |
| vendored (`stb_ds.h`, `nob.h`) | | | hash maps; the build |

What makes each correct, and what is hard about it:

- **code generator**: it accepts a program only if its stack of types describes the
  stack of the running program at each instruction; labels are unique; the context
  of one routine never leaks into another's; it always stops. Hard: both blocks of an IF
  are compiled one after the other on one type stack, inline routines are compiled again
  at each use in a saved and reset context, the map of routines is walked while it grows.
- **emitted program**: a routine touches only its own part of the stack, its arguments and
  its results; the saved stack pointers nest like the routines do. Hard: recursion, inlined
  bodies in routines that inline again, results that go through registers.
- **parser**: a text is accepted exactly if it is a program, each field of an AST points
  to where its block begins, and each block's chain ends. Hard: one `next` and three
  counters serve all nestings, and the six loops that read blocks differ in what they do
  when a block ends with a block.
- **driver**: main is found, and every constant and variable reaches the compiler with the
  value of its last declaration.
- **toolchain**: the linker starts when the assembler is through, and links this program.
  Hard: no result is looked at, a killed child is waited for twice, and only one of the two
  builds renames what the other also would need renamed.
- **constant evaluation**: a constant has the value its body would leave at run time;
  the simulation stays within its stack.
- **lexer**: the tokens are the words of the text, an included file's in the place of the
  include, each with its location. Hard: three trims, quotes and comments that meet in one
  line, lines longer than the buffer, and files that include each other through shared pools.
- **runtime**: what is written is the decimal text of the number.
- **arena, containers**: blocks do not overlap and stay in their mapping; a vector is the
  sequence of what was put in it, also when it moves.

## Modules

```
Lang --- Asm --- Codegen --.          .- Safety --- PraccProof ---------.
   \       \                Pracc -----<                                 CertifiedProof
    \       `---- Machine -'   |       `- Compilation --- CompilationProof -'
     \                         |
      \                        `-- INSTANCE Routines (abstract specification)
       Driver --- Toolchain --- ToolchainProof

SeqFacts: lemmas for PraccProof, CompilationProof, ToolchainProof and DumpProof

Split --- Lexer --- Texts
              \
Parser ------- FrontProof                               Dump --- DumpProof
Memory --- MemoryProof   Memory -- INSTANCE Store (abstract specification)

ProgramLib --- Samples: programs as data     MC*: what TLC is given     *Claims: documented claims
```

The stages hand data on, and the modules are joined by the same data: one list of
declarations (**Samples**) gives the text the parser is run on, the ASTs it must make, the
ASTs the driver is run on, and the program, maps and main the driver must hand over,
which is what Codegen is run on. So `ParsesAsWritten` and `HandsOver` say that the
constants of the code generator's runs are what the earlier stages make.

- **Lang**: the kinds of values (`value_kind_t`), words of `Width` bits and the operators of
  the language with what their instructions compute: `div` is unsigned, `<` compares unsigned
  (`setb`), the other comparisons are signed.
- **Asm**: `out.asm` as a function `code` from positions to instruction groups. Next to each group stands,
  as history, the compiler's *view* of the stack just before it. `Certified` is one
  condition on emitted code: each instruction finds what it needs in its view and leads to
  the views of the instructions that may follow it; caller and callee agree.
- **Codegen**: `compiler.c` as a state machine. Each action is one AST kind of
  `compile_ast`, or one return of `compile_block`. The C recursion
  `compile_block -> compile_ast -> compile_block` is the sequence `work` of block
  activations, innermost last; an action that opens a nested block pushes to it and a
  `Returning(..)` action continues the code after the inner `compile_block`. `proc_ctx`,
  `func_ctx`, `values_map`, `externs_map`, `label_counter` and `while_label_counter` are the C globals. An
  outcome is `done`, `rejected` (`report_error`, which removes `out.asm`), `crashed`
  (`exit(1)`, `UNREACHABLE`, `TODO`, a signal) or `corrupt` (an access past an array, the type
  stacks or the table of `REGISTERS` registers). `Operand` is what a push leaves: the address of a literal is its place
  in the data section, which begins at `DATA`.
  `quirks` is history: the names of constructs the program used that the compiler
  accepts without keeping its two stacks in step (below).
- **Machine**: the emitted program. One step is the group of instructions written for one
  AST, prologue, epilogue or branch; `stack`, `rsp_stack`, `mem` and `pc` are the processor's, and
  `calls` is history: where each open routine's part of the two stacks begins. What a byte in memory holds is not
  modelled, whether it can be loaded is: `Readable` are the `DATA_SIZE` bytes of the literals, as long as no
  system call or C function has a hand in the memory. A load from any other address (`WildLoad`) goes well or faults. A write takes
  its own room on the stack: `dmp_i64` a frame of `FRAME` cells, `strlen` a return address (`NoRoomToWrite`).
- **Pracc**: compile, load, run. It has the type invariant, the safety
  properties and the liveness property.
- **Routines**: the abstract specification: each routine has a stack of its own, gets at its caller's only
  through arguments and results, and leaves nothing behind. `Pracc!Frames` is the refinement mapping.
- **Safety**, **PraccProof**: the inductive invariant of the emitted program, the
  theorems, and the proof of the refinement.
- **Compilation**, **CompilationProof**, **CertifiedProof**: the inductive invariant of the compiler; what holds of
  its maps, contexts, open blocks and labels for every program; the sorts of instructions and of the machine's
  state (the end of CompilationProof); and that accepted code is certified.
- **SeqFacts**: lemmas on sequences and natural numbers, and that a function given by a recursive equation on
  the natural numbers exists and is the one CHOOSE finds.
- **Split**: `split` and `type_token` over the characters of a line: `fgets` with its limit, the
  trims, quotes and comments, the table of operators and keywords. A word is classified by what it is.
- **Lexer**: `lexer_lex`, `handle_include` and `read_entire_file`. The C recursion
  `lexer_lex -> handle_include -> read_entire_file, lexer_lex` is the sequence `lexers`, innermost last; a step is one line read or
  one word lexed, or the return from an include, which copies the tokens. `below` is the byte
  below the line buffer, which `rtrim` can reach. The names that Parser has too begin with Lexer here, so that
  FrontProof can extend both.
- **Texts**: what a text means, read off the text by recursion over the files, for `LexesAsWritten`.
- **Parser**: `parser.c` as a state machine over tokens. The recursion of `ast_token` is the
  sequence `acts` of its open calls; a step reads one token, or the head of a declaration
  up to its `do`, and does all that the code does before the next token is looked at, in
  the callee and in the caller that appends its result. `parse = "past"` is an outcome of its own: the
  code uses a token behind the last one, be it a word it compares or the name of a declaration whose keyword ends the text.
- **Driver**: `main.c` from the ASTs to the compiler, with `consteval.c`: the search for main,
  the walk along the top level, and each body simulated one AST a step. `order`
  is chosen at the start and stands for what C leaves open: in
  `stack[stack_size - 1].value = last_two_binop(..)` (`consteval.c:171`) the index or the call that
  decrements `stack_size` may come first (gcc takes the index first).
- **Toolchain**: main as a whole: the driver, the file `out.asm` in the hands of the compiler,
  and `compile_asm_step`. Each tool is a process of its own that runs beside main until it exits,
  fails or is killed; main waits for it as `nob_proc_wait` does. What the
  tools do is external: they read one file and write another. `content` says of each
  file whose it is, `old` what earlier runs have left.
- **ToolchainProof**: the invariants and proofs of Toolchain, with Driver in it.
- **FrontProof**: the invariants and proofs of Parser and of Lexer with Split.
- **Dump**: `dmp_i64` and `strlen`, one block of their assembly text a step. The digits
  go into a buffer in a frame; what is written is compared with the number. **DumpProof** proves that they are equal.
- **Memory**: `vmem.c` and `malloc.c`, vectors and copied strings as bytes in two arenas. A vector
  is a pointer to its first element, with its header in front of it in memory; growth is
  a new block and a copy. The scratch buffer's length is decremented unchecked (`lexer.c:322`): of an empty buffer it wraps, and the
  copy made next does not fit the arena. **Store** is what that promises, a sequence for
  each vector and a text for each copied string, and `KeepsContents` is the refinement, whose mapping reads
  the sequences back through the pointers. **MemoryProof** proves both.
- **ProgramLib**: programs as nested statements, their text, and their ASTs by a
  recursive definition over the nesting, which knows nothing of tokens or of the parser's state. **Samples**: the
  programs of the runs.
- **Claims**, **ParserClaims**, **DriverClaims**, **LexerClaims**, **ToolchainClaims**: statements of comments, messages and examples that
  the code does not keep to.

Definitions marked `(faulty)` are wrong forms of the definition they precede, and no
specification uses them: each is a plausible bug that one of the properties catches.

### Quirks

A program whose compilation used none of these has certified code (`AcceptedIsCertified`):

| quirk | construct the compiler accepts |
|---|---|
| `syscall` | the machine pops the number and arguments of a syscall, the types are not popped |
| `branch` | the blocks of an IF change the size or the kinds of the stack; the second is compiled from where the first left it |
| `loop` | a loop's condition or body changes the stack: the comparison of sizes can never be made (`compiler.c:694`) |
| `inline_ctx` | a FUNC inlined in a PROC is compiled in the procedure's context |
| `inline_rets` | an inlined function's results are not checked |
| `extern_rets` | an extern with several results is recorded with all, and one register is pushed |

`MainAssumption` is `check_for_main_function` of `main.c`, through which each program passes
before it is compiled. `ProgramAssumption` is what the earlier stages have made of it by then: every field of an AST
is of the type `ast.h` gives it, what it links to is among the ASTs or the zeroed slot behind them, and the
top level goes forward from the first AST to main and from there to the end.

`ArgReads` stands for undefined behaviour: `check_for_arg` returns the
address of its loop's copy of the argument, and what is read there after the loop depends on the
build: the declared kind, a zero (`poisoned`), or a fault. The passing run allows all three.

## Runs

| run | question | what it shows |
|---|---|---|
| `programs` | straight-line mains, among them what makes, loads from and writes an address; routines called, inlined, chained, external, redeclared; IF and WHILE around every pair of short blocks, nested, inlined, in loops | the checks of `compile_ast` are enough (`AcceptedIsCertified`), labels are unique (`JumpsLand`), contexts do not leak (`ContextOfTheBody`), the compiler always stops (`CompilerStops`); the code runs with the types it was checked with (`StackIsTyped`), finds arguments at their slots (`ArgumentIsOwn`), nests its saved pointers (`SavedPointersNest`), faults only by a division by zero, a load from an address that is not a literal's, or a full stack (`FaultsAreLimits`); the inductive invariants of the compiler and of the emitted code hold (`CompilerInductive`, `Inductive`), and routines keep apart (`RoutinesKeepApart`, refinement of Routines) |
| `parser` | the texts of the programs with calls and branches, and every text of up to four to six tokens over nine alphabets | a text is accepted exactly if a grammar makes it (`AcceptsThePrograms`), its ASTs are the reference layout (`ParsesAsWritten`), chains only go forward (`ChainsGoForward`) |
| `driver` | the programs above, every body of up to three statements of a constant and a variable, texts without a main or with something beside it, texts that declare a name twice; then both builds among three sets of files, with tools that fail or are killed | what is handed over is the program (`HandsOver`), and of a name declared twice the last declaration (`LastDeclarationsWin`); bodies that push give the value they leave (`PushedValuesAreExact`); only a drop or an overfull stack leads out of the simulation stack (`OnlyDropsCorrupt`); the tools take turns (`ToolsTakeTurns`); a debug build in a directory without `out.tmp` links this program, if the tools do what they are asked (`DebugBuildLinksIt`); the driver and main stop (`DriverStops`, `MainStops`) |
| `lexer` | every line of up to three to five symbols over alphabets that bring blanks, quotes, comments and operators together, every short text of several lines, and three files that include each other | the tokens are the words of the texts, spliced where the copy is right (`LexesAsWritten`), each location is that of its word (`LocationsPoint`), a text of few words and lines keeps the lexer in its buffers unless a line begins with a comment (`TextsAreSafe`), and that it ends (`LexerStops`) |
| `memory` | any size of the arenas that the system grants, two vectors that grow and move in one, strings in the other | blocks never overlap nor leave the mapping (`BlocksApart`), its invariant (`Inductive`), and through their pointers vectors and strings are the sequences of Store (`KeepsContents`) |
| `dump` | every word of nine bits, strings with one zero and two | what is written is the number or the string (`WritesTop`), within the frame (`StaysInBuffer`), and it ends (`DumpStops`) |
| `inline`, `global`, `chain`, `example`, `splice`, `object` | modules of claims | counterexamples, below |

### Where code and documents disagree

| run | what is said | what the code does |
|---|---|---|
| `inline` | the current context is saved and reset (`compiler.c:258`) | a FUNC inlined in a PROC saves the wrong one |
| `global` | functions do not see the global stack (`README.md:77`) | after an IF whose blocks push, an argument load reaches the caller's part |
| `chain` | a block ends with `next` = -1 (`compiler.c:82`) | a WHILE that stands last before an ELSE runs on into the else-block |
| `example` | `const N 10 A * end` is a program (`prac/const.prac:2`) | it is refused: the last AST is simulated twice |
| `splice` | new tokens are appended right after the old ones (`lexer.c:331`) | the place of the copy counts the size of a token twice |
| `object` | after a run `out.o` holds the program (`README.md:49`, `Makefile:33`) | the default build writes `out.tmp` and links an `out.o` it has not made |

The models show more of the same kind, for which there is no run of its own:

- return values come back in the opposite order, so `swap` of `README.md:82` returns its arguments as it found them;
- a build that reads the dead copy in `check_for_arg` as zero refuses `square` of `README.md:67`;
- `if_count` and `else_count` count over a whole routine: a second ELSE is accepted if an earlier IF has none;
- a function of several results and no arguments is refused ("argument without a name");
- `extern func e int end` as the last words of a text makes `parse_func_signature` compare a word that is not there;
- with the index evaluated first an operator in a constant is no more than a drop;
- what follows main at the top level is never looked at (`ast.c:249`), so a statement there is accepted;
- the size check of a loop is never made: the condition that guards it cannot hold (`compiler.c:694`);
- a function pointer given as an argument is pushed and not called (`compiler.c:764`);
- the guard of the type stack is twice the length of the array (`compiler.c:98`);
- an extern of more than six arguments makes the compiler read past its table of registers (`compiler.c:340`);
- `+` on a `str` loads from the sum of its operands whatever they are: `"a" 0 + 1 +` and `"a" "b" +` are accepted and
  load from addresses that are nobody's (`compiler.c:825`);
- a constant or variable of kind `str` holds the address its text had in the compiler (`consteval.c:144`), which `.` hands to `strlen` and
  `+` loads from in another process;
- `dmp_i64` and `strlen` take room on the same stack, so a `.` may fault where what it prints was still pushed;
- a declaration keyword as the last word of a text is looked for its name in the place behind the last token: the
  test is `token_idx > count` (`parser.c:199`, `335`, `400`);
- a call of an extern is recorded among the routines (`compiler.c:500`), and its bare name after that reaches `UNREACHABLE` (`compiler.c:736`);
- `BNOT` in a constant goes on into the code of a push (`consteval.c:125`);
- a line that consists of a lone quote is a string;
- a line longer than the buffer is two lines, and the rows of all that follow are off by one;
- the buffer for lines is counted in pointers and holds half of what its cap says (`lexer.c:283`);
- a line that begins with a comment makes `rtrim` look below the buffer (`lexer.c:399`);
- a file that includes itself is lexed until a limit is met;
- the least integer is written as a lone sign;
- a debug build renames an `out.tmp` that an earlier default build has left, and links that.

`chain` and `example`, and, of these, what is said of externs, several results, operators and the top level,
was also seen with builds of the program.

## Bounds, and why they are enough

- `Width` 3: words of 64 bits shrink to what has a sign, a carry and a wrap, and tells the
  unsigned `div` and `setb` from the signed comparisons at more than one value.
- `MAX_STACK_TYPES_CAP` 20 and `CTX_STACK_TYPES_CAP` 10 keep the ratio of the code's 1024 and 512
  (`compiler.h`); no program of the passing runs reaches 10.
- `STACK_CAP` 10 and `RSP_STACK_CAP` 4: deep enough for three open routines with their arguments, small enough
  that recursion meets both limits. `REGISTERS` 2 stands for the code's six argument registers: externs of two and of
  three arguments are on its two sides. `FRAME` 8 stands for the ten cells of `dmp_i64` (return address, `rbp`, 64 bytes): an integer can be
  written from two cells up to the limit and not above. `DATA` 5 and `DATA_SIZE` 2: a word of three bits is a literal's address, a
  number below, or one above, and sums wrap around to each.
- `MaxNesting` 6 is the C stack: nested blocks and inlined bodies beyond it end in a crash. Programs nest up to
  three deep; only inline routines that inline themselves get there.
- straight-line bodies of up to two statements, and of three if the first pushes: an operator, what it works on and what is
  done to the result. A body of three that does not begin with a push is refused at its first statement, or begins with what a shorter body
  has shown.
- parser: texts of up to four to six tokens, and up to five after the head of a declaration, hold each keyword in
  each place of each block, two nested blocks, and each way to cut a signature off. Deeper nesting is
  in the texts of Samples. `MaxRets` is the code's 6, with 6 and 7 results in two texts.
- driver: `SIMULATION_STACK_CAP` 3 for bodies of three statements, of which the last counts twice, is
  reached and passed. `Leftovers`: a clean directory, one with the object and the program of an earlier run, and
  one with what a default build was told to write.
- lexer: `LINE_CAP` 10, `LINES_CAP` 6, `ITEMS_CAP` 5, `MAXIMUM_TOKENS_AMOUNT_PER_LINE` 4, `FILES_CAP` 4, `LOCS_CAP` 8, `PATH_CAP` 3, far below the code's:
  a short text passes them, alone or by including itself, and most texts stay below. `SIZEOF_TOKEN` 2 is enough to tell the copy's place from the right one.
- memory: `MaxCalls` 5, `MB` of 12 bytes, `INITIAL_CAPACITY` 1, elements of 8 and 4 bytes: two growths of one vector with a
  block of the other between them, and arenas that run out. `MAX_STRING_BUFFER` 4 is reached.
- dump: 9 bits have words of one to three digits, zero, both signs and the least; `ROOM` is as tight for them as DumpAssumption
  lets it be.

## Fairness

pracc is one sequential process: while it has a step to take it takes it. The compiler, driver, lexer and
runtime each have weak fairness of all their steps as one action (`Compiles`, `Drives`, `LexerFairSpec`,
`Spec` of Dump); no choice within a step is assumed fair. `MainFairSpec` has weak fairness of what main
does (`Goes`) and of each child that runs (`Runs`): a tool ends at some time, well or not, which is external to
pracc and is what `MainStops` rests on. Who goes first is not assumed. The emitted program may loop for
ever, so nothing is assumed or claimed of its termination. Deadlock is checked in every run: what has
ended stutters explicitly.

## What is proved

**The emitted program** (PraccProof). For every program, every `Width` and every limit, of `Spec`:

- `InductiveHolds`: `Inductive` is an invariant;
- `StackIsTypedHolds`, `ArgumentIsOwnHolds`, `SavedPointersNestHolds`, `FaultsAreLimitsHolds`: the
  safety properties of the emitted code that the run checks;
- `RoutinesAlwaysKeepApart`: the emitted code implements Routines.

The assumptions are those of the modules: `Width` positive, caps, `FRAME`, `DATA` and `DATA_SIZE` that are natural numbers, and programs
as the earlier stages hand them over (`ProgramAssumption`, `MainAssumption`).

The safety properties speak of the innermost routine, and none is inductive: when a routine returns, what holds of its
caller depends on what held when the call was made. `Inductive` says it of every open routine at once
(Safety): routine `k` stands at a call instruction, its part of the stack
(from its base to the next return address, less the arguments the callee took) matches the view recorded
there, its part of `rsp_stack` matches the recorded marks, and the return address leads behind the call. A
step changes the part of the innermost routine only (`LocalStep`, `PlainStep`), a call opens a part (`CallStep`),
a return closes one and uses what was kept of the caller (`RetStep`). Each machine instruction then has one lemma,
and `Certified` supplies that the views on both of its sides fit. The refinement goes the same way: a step that
keeps the calls is work on the last of the abstract stacks (`KeepsIsWork`), a call takes the arguments off it
and starts another (`CallIsCall`), a return ends it and leaves results (`RetIsReturn`); what is below is unchanged
because the invariant says where each part begins and ends.

`Limit` names every instruction that may fault in certified code, and none of it is about what the stack holds: a division by
zero, `WildLoad`, a push, call or write without room, an entry when `rsp_stack` is full. The types the compiler keeps say nothing of where an
address leads, so a load is on the list, and a checked program may end in a memory fault there and
nowhere else. A system call and a C function are taken to return.

These theorems are about certified code, whoever wrote it. That the compiler writes such code is the next part.

**The compiler** (CompilationProof, CertifiedProof). For every program and every limit, of `Spec`, from the same assumptions:

- `ShapeHolds`, `CompilerInductiveHolds`: `CompilerShape` and `CompilerInductive` are invariants;
- `TypeOKHolds`: instructions and the machine keep their sorts, in runs of code that is not certified as well;
- `ContextHolds` and `JumpsLandHolds`: contexts do not leak, labels are unique;
- `AcceptedIsCertifiedHolds`: the checks of `compile_ast` are enough;
- `AcceptedRunsSafelyHolds`: compiler and machine together, whatever a program accepted without a quirk does, and
  wherever it has got to, each open routine's part of the stacks is what the compiler recorded, and it
  faults only where `Limit` says. The certificate is no hypothesis here.

Of these properties none is inductive: between two steps the code has jumps to labels
that are not written yet, and the contexts to go back to lie in the block activations. `CompilerShape` says what holds whatever
quirks a program uses:

- the maps have each name once, with a declaration of that name;
- each open block is the body of a routine, of the body of one that is inlined, or of an IF or WHILE
  that the enclosing block stands at, and blocks of one body share its declaration;
- each context is that of the innermost procedure or function that an open block expands, and what an inlined
  body saved is that of the blocks below it;
- each label is in the code once, numbered below its counter; a jump's label is in the code or
  awaited by exactly one open block.

`ContextHolds` and `JumpsLandHolds` follow. `TypesInductive` adds to it what `TypeOK` needs, of code and of runs that nothing else is known of:

- `TypedCode`: what each kind of instruction has as operands. A variable it names is one of the program's, an argument it loads is one of
  as many as it says, and if it returns from main it returns something, for main's `ret` stores the topmost result;
- `MainFound`: that routine is the function `main_function_check` accepted, which is why the last is true;
- `MachineTyped`: the stacks, `pc` and the variables. An unsound program may pop a return address where a value should be, or store
  one; it remains a number. For `|`, which the model defines by its bits, this takes that every pattern of `Width` bits is that of a number
  (`PatternIsAWord`, by induction on the width).

`Balanced` is about the views, as long as no quirk was used:

- `InstructionsFit`: each instruction finds what it needs in its view, and its signature is the declared one, so that
  a call and the callee, compiled at any other time, agree;
- `CodeFlows`: each instruction leads to the view of the next, and the last to the view of what is compiled next;
- `JumpsMeet`: a jump leads to the view at its label, or, if that is not written yet, to the entry types of each block that
  will write it;
- `BlocksResume`: a loop's first label has the view its blocks were entered with; the stack under an inlined
  body is that of the block it was inlined in, its context and its arguments.

Each AST kind has one lemma (`BalancedIf`, `BalancedEndInline`, ...). Most of them append one instruction in
the innermost block: that is `BalancedOne`, proved once; branches and loops share `BalancedFlow`, routines `BalancedAround`. A quirk is
never forgotten (`QuirksGrow`), so a step that leaves `quirks` empty was taken without one. When no block is open, nothing is awaited, and
`Balanced` is `Certified`.

**The lexer** (FrontProof). For every set of files, every limit of its pools and buffers and either value of `below`:

- `LocationsPointHolds`: the location of each token names its word's file, line and column, if the lines of that file fit
  the buffer of `fgets`; includes may nest, repeat and copy tokens wherever they do;
- `TextsAreSafeHolds`: a text without includes, with lines as few and as short as the pools have room for, none of which
  begins with a comment, neither kills the lexer nor takes it out of a buffer.

`split` is a recursive function over the places of a line; `ScannedTo` is what a turn of its loop keeps, and by `Induction`
each word it cuts is a part of the line at its column (`WordAt`, `SplitIs`), whatever quotes, blanks and comments the line holds. `fgets` cuts
whole lines as long as they fit (`GetsALine`), and the k-th it cuts is the k-th of the text, which is a fact about the order of the newlines
(`NthStart`). `InvOfLexer` puts these together: each open file has been read up to some line's start (`ReadSoFar`), every file below the
innermost stands at a line that is there, and each token's location is in range and its word is there (`TokenAt`). The copy of an include
takes tokens from both buffers as they are, and `FILES` and `LOCS` only grow, so the locations stay true. Neither property
follows for lines that do not fit: they are split in two, and the rows of what follows are wrong.

For `TextsAreSafe` the tokens are counted: as long as one file is open, `count` is the length of `LOCS` and at most
`m * row + i - 1`, if no line has more than `m` symbols. That `m` and the number of lines fit the pools leaves room for each token
(`RoomForAToken`).

The assumption on constants, beyond positive limits and a `LINE_CAP` of two or more: paths and texts are finite sequences (`IsText`).

**The parser** (FrontProof). `ChainsAlwaysGoForward`, for every text, program or not, and every
`MaxRets`. The links are set in many places, some when the block they close is long
read; `Chained` says of every AST so far, and of every open call of `ast_token`, where what
it still has to link can lie.

**Memory** (MemoryProof). For every size of the arenas the system grants, every vector, value
and word, and any number of calls:

- `AlwaysInductive`, `BlocksStayApart`: each arena's blocks end at or below `allocated`, and `allocated` is less than the size of the
  mapping, until the assertion stops the program; a new block begins at the old `allocated`;
- `KeepsContentsHolds`: the bytes implement Store.

For the refinement `Inductive` says where things lie (`Layout`): each vector has bytes of its own for its header and
all its capacity, a copied string has a zero behind it below `allocated`, and no byte from `allocated` on
was ever written. A call on a vector writes bytes of that vector, or of
a block nobody has had before (`ChangesVector`), so the others read as before (`OtherVector`, `OneChanges`); what the
call makes of its own elements is followed through `expand_`'s three cases (`Expands`) and the loop that moves them
up (`MovesUp`). A copy gets no terminator; that its text ends where it
should rests on the byte behind it, which is handed out with it and never written (`CopyIs`).

**The toolchain** (ToolchainProof). `ToolsAlwaysTakeTurns` by `Turns`, which relates where main is to each
child's state; `DebugBuildAlwaysLinksIt` by `Held`, which says of each place in main what each
file holds. For every text, every leftovers and every way the tools end.

**The driver** (ToolchainProof). For every program whose links lead forward (`LinksForward`, which the parser's
`ChainsAlwaysGoForward` supplies), every size of the simulation stack and either order of evaluation:

- `OnlyDropsCorruptHolds`: the simulation leaves its stack only by a drop of the empty stack, or a push onto the full one;
- `PushedValuesAreExactHolds`: a body of pushes that is evaluated gives the value its last statement leaves;
- `LastDeclarationsWinHolds`: what is handed over is the first main along the top level, and maps that hold exactly the names
  declared there, each with its last declaration.

`Evaluates` relates the simulation to the body as a whole: the body is what has been run, followed by
what is reached from here; the stack is no higher than the number of statements run; and while all of these were
pushes, the top is the last of them. The body is a recursive function along the links. That such a function exists is a proof by
induction (`Induction` of SeqFacts), for which `LinksForward` is needed: a chain that goes round has no body.

`Told` relates the walk to the top level as a whole: what was passed is what is reached from the first AST and not from here,
it stands before what is still to come, and the maps hold its last declarations. The walk ends only behind the
last AST, where everything is passed.

**The runtime** (DumpProof). For every word of any `Width`, every string, and every buffer that holds the longest
number (`DumpAssumption`: `10^(ROOM - 2) >= 2^(Width - 1)`):

- `StaysInBufferHolds`: every byte is written within the frame;
- `WritesTopHolds`: what is written is the decimal text of the number, or the string up to its zero; the least
  integer, whose negation is itself, is the exception the property states.

`Dumps` says where the digits are: in the loop of divisions, the digits still to come are those of the quotient, and those in the buffer
are the rest of the number's from the end; in the loop that turns them round, both ends are in place and the
middle is as it was. That the number of digits is bounded is a lemma by induction on the number.

## What is only model-checked

- `ParsesAsWritten`, `AcceptsThePrograms`, `LexesAsWritten`: their references are RECURSIVE operators over the nesting
  of programs and of files (ProgramLib, Texts), which are outside what the provers take;
- `HandsOver`: it compares with the program the ASTs were made from, through the same reference;
  `LastDeclarationsWin`, proved, says what it can of the ASTs alone, `PushedValuesAreExact` of the values;
- the liveness properties `CompilerStops`, `DriverStops`, `MainStops`, `LexerStops`, `DumpStops`, which the provers do
  not reach.

## Not modelled

- the vendored `stb_ds.h` and `nob.h` beyond how the code uses them: a map that keeps the order of insertion; a
  child process that is started and waited for; `rename`;
- of `lib.h` and `stringutils.c`, what the compiler does not call: removal and sorting in vectors, hashing, slices, the printing of
  numbers, paths. They are most of the lines no module stands for;
- what a system call or a C function does besides taking its arguments and leaving its result: it is taken to return, with the stack
  it needs; and what the bytes in memory hold: a loaded byte is any byte;
- the text of the instructions, the names of string literals, the alignment of `rsp` before an extern is called (`compiler.c:346`);
- what an operator in a constant computes is explored in both orders and compared with nothing: with either order and the last AST
  simulated twice it is not the value of the body;
- text of more than one byte a character: a byte is a character in Lexer;
- wording, printing of ASTs and tokens, timing; the editor support and the build scripts, which are data.

## Plan

1. In the constant evaluation: what a body with operators leaves for each order of evaluation, against a reference
   that simulates its last statement twice.
2. Of the maps handed over: that a constant used in a body has the value of the last declaration before that body.
