# Verification of rinha-luajit-rs

`rinha-luajit-rs` compiles *rinha*, a small functional language, to Lua 5.1 and
runs the result in a LuaJIT it links against.  The compiler is a few hundred
lines of Rust whose difficulty is not in its data structures but in the
agreement between its passes: marks computed top down before any code exists
decide, much later, whether a term is written as an expression or as
statements, which temporary its value goes to and whether the function may
return there.  What the text then does depends on a prelude, and on the LuaJIT
vendored in the repository.

This directory holds TLA+ modules that model the whole pipeline (compile to Lua,
compile that to bytecode, run, print) and the three parts of the vendored LuaJIT
whose state every program shares (tables, the collector, the traces of the
compiler), TLC configurations that check them on small instances, and proofs,
checked by TLAPS, of the main invariants for instances of any size.

Paths below are relative to the repository, which is `src/` here; so the
generator is `src/src/generate.rs`.

## 1. The system

| Component | State | Operations | Hard part | Status |
|---|---|---|---|---|
| Syntax tree (`src/src/ast.rs`) | `Term { last, binds, depth, kind }` | read from json | none of its own | modelled |
| Annotation (`anotate`, `generate.rs:74-139`) | the three marks of every term | one recursive pass | `last` goes down, `binds` and `depth` come up | modelled |
| Generator (`gen_prog`, `generate_term`, `generate_free_term`, `generate_bin_op`, `generate_infix`) | the text so far, the recursion, the number of the first free temporary | one arm per kind of term, twice | an arm must test the marks of what it writes in place, keep results in temporaries apart, leave its value, return only last | modelled |
| Prelude and postlude (`generate.rs:8-72`) | print buffer, strings, environment | `__print`, `__new_str`, `__to_bit`, `__assert`, metamethods | output delivered only at the end | modelled |
| Integer arithmetic (`generate_bin_op`, `lj_num2bit`, `lj_vmmath.c`) | one double | `+ - * / %` | 32 bits in doubles, sums left unwrapped | modelled |
| LuaJIT's compiler to bytecode (`src/luajit/src/lj_parse.c`, strings of `lj_lex.c`) | lexer position, function states: registers, scopes, upvalues, jump lists | one function per production, emitting as it reads | priorities and suffixes decide what unparenthesised text means; one pass, so jumps and registers are settled late; limits | partly |
| Execution of generated code (`vm_x86.dasc`, `lj_func.c`) | slots, frames, upvalues; 120 temporaries shared by *all* activations | one step per instruction | a callee overwrites the caller's temporaries; upvalues are closed when their slot goes; tail calls | partly |
| Runner (`main.rs`, `luajit.rs`) | a `lua_State` | compile, load, `pcall`, print | an error loses the buffered output | modelled |
| Meta compiler (`generate_meta.rs`, `bin/meta-rinha.rs`) | the text | encodes a tree as a rinha value | one of its names is undefined in `meta-eval` | modelled |
| Meta interpreter (`meta-eval`, `meta-run`) | environment (a list of pairs), defunctionalised values | `eval` by kind | the only semantics of rinha in the repository | modelled |
| Tables (`lj_tab.c`) | array part, node vector, free pointer | get, set, next, length, rehash, resize | collision moves among dead keys, sizes one off | partly |
| Collector (`lj_gc.c`, `lj_str.c`, `lj_func.c`) | colours, lists, phase | barriers, incremental steps, sweeps | the program runs between any two steps | partly |
| Traces (`lj_trace.c`, parts of `lj_record.c`, `lj_ffrecord.c`) | patched bytecode, numbers, links, penalties | start, stop, abort, flush, stitch | machine code jumps to machine code that may be freed | partly |
| Tests (`tests/run_progs.rs`, `tests/test-jsons`) | none | run a program, compare output | | partly |
| LuaJIT: interpreter, IR, assembler, libraries | | | translate data, one machine at a time | not modelled |
| Build and packaging (`build.rs`, Dockerfiles) | none | run make | no logic | not modelled |

How they interact: `main` reads a json file into a `File`; `gen_prog` calls
`anotate(&mut root, false, 0)` and then `generate_term(root, temps = 0, bind =
__ret)` between the prelude and the postlude; `luajit::run` gives the text to
LuaJIT, runs it under `pcall`, and prints the string it returns.  There is one
thread and nothing is persisted.  Three things interleave all the same: the
recursion of the compiler (what an arm wrote, what it will write after a nested
call returns, and what that call does to the temporaries); the activations of a
rinha function, which share their temporaries; and, inside LuaJIT, the program
with the steps of the incremental collector and of the trace recorder.

What makes each part correct:

* annotation: `binds` of a term says exactly that it needs statements; `last`
  is on a term only if the enclosing function returns its value next;
* generator: no statement where an expression is expected; no temporary reused
  while it holds a value; every arm delivers its value; order of evaluation is
  the source's; an early return skips nothing; it terminates;
* generator and parser: the text is Lua, and groups as the source does;
  function literals check the number of their arguments;
* LuaJIT's compiler: no register is read that was not written, every jump gets
  its target, a variable a closure refers to is closed on every way out of its
  scope, and a text is refused only because of too many variables, too deep
  nesting, too many registers or too long a jump;
* the whole program: it shows what the interpreter says the program prints, or
  fails and shows nothing; loops written as tail calls do not grow the stack;
* arithmetic: words of 32 bits, whichever way a sum was left;
* tables: a map; a loop that only changes or removes entries meets each once;
* collector: nothing reachable is freed, garbage is, every cycle ends;
* traces: no jump leads to a trace that is gone; no number is lost; what fails
  again and again is given up.

The hazards, each at its line with the properties that would catch it, are in
`PROJECT.json`.

## 2. Modules

| Module | Models | Checked in |
|---|---|---|
| `RinhaAst` | `ast.rs`: kinds of term, their data, their subterms | all of the compiler |
| `Annotate` | `anotate` | `MCGeneratedLua`, `MCRunner` |
| `LuaTokens` | the vocabulary of the text | all of the compiler |
| `Generate` | `gen_prog` and everything it calls | `MCGeneratedLua`, `MCRunner` |
| `LuaLex` | `lj_lex.c`, string literals | `MCGeneratedLua` |
| `LuaParse` | `lj_parse.c`, the grammar | `MCGeneratedLua` |
| `GeneratedLua` | composes `Generate`, `LuaLex` and `LuaParse` | `MCGeneratedLua` |
| `LuaNumber` | doubles that are integers, `tobit`, both remainders | `LuaArith` |
| `WordArith` | abstract: a register of 32 bit words | `LuaArith` |
| `LuaArith` | chains of generated operations, shown to implement `WordArith` | `LuaArith` |
| `LuaValue` | Lua values and the prelude's metatables | `MCRunner` |
| `LuaShow` | what `__print0` makes of a value | `MCRunner` |
| `LuaBytecode` | instructions (`lj_bc.h`) | `MCRunner` |
| `LuaFlow` | facts about bytecode that the interpreter takes on trust | `MCRunner` |
| `LuaEmit` | `lj_parse.c`: expressions, registers, jump lists, instructions | `MCRunner` |
| `LuaCompile` | `lj_parse.c`: variables, scopes, functions, statements; the prelude's locals | `MCRunner` |
| `LuaVM` | `vm_x86.dasc`, `lj_func.c`: running any bytecode | `MCRunner` |
| `Meta` | `generate_meta` and `meta-eval` | `MCRunner` |
| `RinhaRun` | abstract: what running a program promises | `MCRunner` |
| `Runner` | `main` and `luajit::run`; composes `GeneratedLua` and `LuaVM`, shown to implement `RinhaRun` | `MCRunner` |
| `LuaDict` | abstract: a map with a traversal | `MCTab` |
| `Tab` | `lj_tab.c`, shown to implement `LuaDict` | `MCTab` |
| `Heap` | the collector under a running program | `MCHeap` |
| `Trace` | trace management under a running program | `MCTrace` |
| `GenerateProofs`, `GenerateTailProofs`, `GenerateTempsProofs`, `GenerateOrderProofs` | theorems about `Annotate` and `Generate` | TLAPS |
| `LuaArithProofs`, `LuaVMProofs`, `HeapProofs`, `TraceProofs` | theorems about the module each is named after | TLAPS |
| `RinhaPrograms` | builders of trees, programs of `test-jsons` | MC modules |
| `MC*` | the instances | |

**Trees.**  A program is the sequence of its terms in postfix order, each with
the distances back to its subterms.  It is the order in which the recursive
passes return; the root is the last element and a subterm has a smaller index,
so nothing over trees needs a recursive definition, which keeps `Annotate` and
`Generate` within reach of the prover.  `WellFormed` is what serde guarantees:
the right number of subterms and data of the right type, each term in one
place.  Source locations are dropped: no pass reads them.

**anotate** is one recursive function whose two halves are independent: on the
way down it stores `last` and passes it on, on the way up it folds `binds` and
`depth`.  `Descend` is the first half for one term; `FoldSubterm` is one
iteration `term.binds = anotate(x) || term.binds` of the second;
`ReturnFolded`, `ReturnLeaf`, `ReturnFunction` and `ReturnStatement` are the
four groups of arms at their return.  The parameter `depth` of `anotate` is 0
at every call and is left out.

**The generator** is recursive and appends to one `String`.  The recursion is
modelled by its continuation `todo`, the sequence of calls and `write!`s that
are still to happen.  A step takes the first; a call is replaced by the calls
and writes of the arm it enters.  So an arm of the source is one action:

| Source | Action |
|---|---|
| `gen_prog` 805-820 | `BeginProgram`, `Finish` |
| `write!` | `WriteText` |
| the loops over arguments | `NextTerm`, `NextFree` |
| `generate_free_term` 449-560 | `FreePanics` (the assertion, and the arms behind it that are `unreachable!`), `FreeError`, `FreeLeaf`, `FreeCall`, `FreeBinary` (with `generate_free_infix` and `generate_free_bin_op`), `FreeFunction`, `FreePrint`, `FreeProjection`, `FreeTuple` |
| `generate_term` 562-803 | `TermInPlace` (the early return), `TermCallBoundCallee`, `TermCallFreeCallee`, `TermArithmetic`, `TermInfix`, `TermLogic` (with `generate_bin_op` and `generate_infix`), `TermFunction`, `TermLet`, `TermIf`, `TermPrint`, `TermProjection`, `TermTuple` |

The leaf arms of the match of `generate_term` have no action: a leaf has depth
0 and never binds, so the early return always takes it.  `generate_scope` and
`close_scope` write nothing and have no action either.  White space is left
out of the text; a literal, a temporary or a variable is one token with its
value.

**LuaParse** follows the grammar of `lj_parse.c` function by function, over
tokens: it gives a position and a tree.  Before that, `LuaLex` reads each string
literal the way `lex_string` does: the generator writes the value of a string
between quotes as it is (461, 589), so an escape in it becomes another
character, and a quote or a line break in it ends the literal.  The prelude, the
declaration of the 120 temporaries and the postlude are one token each.

Definitions whose name ends in `Slip` are used by no model.  Each is the
definition after it with one plausible mistake (a swapped order, a missing
`||`, an offset one too small); putting it in the place of the right one makes
TLC report the property it is listed with in `PROJECT.json`, which shows that
the property depends on that line of the code.

**Bytecode.**  `lj_parse.c` emits instructions while it reads, so `LuaEmit` and
`LuaCompile` go over the tree of `LuaParse` in the order of the text.  An
operator is a C function of the same name (`ExprToReg` for `expr_toreg`), takes
the `FuncState` `f`, with the enclosing one in `f.prev`, and gives the next,
with an expression descriptor where the C function updates one.  A jump list,
threaded through instructions in the source, is a set of positions; constants
stand in the instruction that loads them, and variants of an instruction for
kinds of operands (`ADDVN`, `USETS`) are one.  The limits that are exceeded are
noted in `f.err`, by name, and end the parse (variables, upvalues, registers,
nesting, and the length of a jump); a failed `lj_assertFS`, which release builds
do not compile, in `f.asserted`.  Frames are those of the build: the Makefile
and `luajit_patch.patch` disable `LJ_GC64`, so `LJ_FR2` is 0 and the interpreter
is that of `vm_x86.dasc`.

`LuaVM` runs the bytecode, an instruction (or a test with the jump behind it) a
step.  The slots of all activations are one sequence; registers above those of
a call's results are `Stale` after it, as are those of a new activation but its
parameters.  Upvalue objects are open, at a slot, or closed; a closure is the
path of `FNEW` instructions that lead to its prototype, with its upvalues.  The
main chunk declares `N_TEMPS` temporaries, which are upvalues of every function;
a temporary beyond them is a global of the empty environment the prelude sets.
What the prelude computes into its locals is not compiled: they are registers
that hold built-in functions with the meaning `LuaValue` gives them.

LuaJIT does not verify bytecode: its interpreter trusts that registers are
written before they are read, that jumps have targets, that a variable is closed
before its slot is used again.  `LuaFlow` states that trust.  Facts about a
chunk give, for every instruction that can be reached, the registers that were
written (`w`), the variables that may have an open upvalue, and whether these
are declared immutable (`held`), and where all results of the last call lie
(`open`).  `Accepts` says that facts agree with the code along all its `Edges`,
and that under them every instruction is `Safe`: well formed, reading only what
was written, leaving held variables in their slots, and with none of them held
where a function returns or makes a tail call.  It is a condition on the code
alone: no run is needed to decide it, and it speaks of instructions no run
comes by.  `Runner!Analysis` computes such facts, in one pass over each
function, as no jump goes back.

`LuaVM` takes two operators as constants: `Print0`, which `MCRunner.cfg` sets
to `Shown`, and `Flow`, facts about a chunk, which it sets to `Analysis`.  They
are constants so that `LuaVM` does not reach the recursive definitions behind
them; nothing in the behaviour of the machine depends on `Flow`.  The machine by
itself, starting any chunk, is `MachineSpec`; `Runner` starts the one that
`LoadString` gives, and takes the same steps (`RunNext`).

The bytecode that `LoadString` gives was compared, instruction by instruction,
with what the LuaJIT built from the repository prints (`luajit -bl`) for the
text, with two temporaries, of every function under every main expression of the
run (420 programs, section 3) whose text is Lua: they agree.

`Meta!Eval` is the recursive function `eval` of `meta-eval`, over the encoding
`generate_meta` writes, misspelt names included.  `RinhaRun` turns it into a
specification of a process: one step, in which a program whose interpretation
is proper (no `ValErr`, no Lua error) shows exactly what it prints, and any
other may fail, showing nothing.  `Runner` maps its own state to it; the
variable `defined` of `RinhaRun` is true unless the program has one of the
causes of section 3, and exempts those programs from the first half only.

**Numbers.**  `LuaNumber` keeps doubles that are integers, with the spacing
they have beyond 2^53, and derives `tobit` from what `lj_num2bit` does (add
2^52 + 2^51, keep the low word).  The widths are constants `W` and `Q`.

**Tables.**  The operators of `Tab` work on a table given as a value, as the C
functions work on a `GCtab`: `Get`, `Next`, `NewKey` with `MoveAway` and
`RechainAll`, `Rehash` with the counting of `countint` and `bestasize`, `Resize`,
`Length`.  The hash of a string is chosen freely, and may change while the table
holds no value for it: the string has been collected, and a new one allocated
at its address, so that dead nodes compare equal to it.

**Heap.**  One table field, closure upvalue and stack slot stand for all of
them, as colours tell no more apart.  The program moves values between slots,
fields and upvalues, allocates, closes upvalues, and finds strings by content;
the collector starts, propagates one object, runs the atomic phase, sweeps one
object, or is told to collect fully; each is one action, in any order.  The
barriers are part of the stores that carry them.

**Trace.**  The state is `jit_State` with the bytecode it patches: every
function header and return is plain, compiled, or blacklisted.  The program
turns into the compiler at a hot call, at a side exit, or when a C function
returns to a continuation frame; from then on each instruction recorded is one
step, until the trace is saved, or aborted, or everything is flushed.  What is
recorded is abstracted to the places a recording comes by, and how often is any
number, so all unroll limits can be hit at any time.  A saved trace keeps what
it refers to in two ways: by what its machine code jumps to (`link`, and the
side trace each of its `exits` is patched to lead to), and by what the
collector marks from it (`link`, and the `sides` in the chain of a root trace).
A number is only a number: when a trace is freed, another may take it.  The
collector frees, in between, any trace it would not mark.

## 3. Runs

| Run | cfg | Question | States | Result |
|---|---|---|---|---|
| `generator` | `MCGeneratedLua.cfg` | marks, temporaries, returns and results; the text is Lua, groups as the source and checks argument counts, but for known causes | 427 thousand | holds |
| `never_panics` | `MCNeverPanics.cfg` | the assertion at 450 | | violated |
| `results_kept` | `MCResultsKept.cfg` | no result is overwritten unread | | violated |
| `runner` | `MCRunner.cfg` | compile, load, run, print against the interpreter; registers, jumps, upvalues, limits | 76 thousand | holds |
| `shared_temps` | `MCSharedTemps.cfg` | the same of a recursive function that keeps a result across its call | | violated |
| `arithmetic` | `LuaArith.cfg` | generated arithmetic against words; what is left unwrapped | 15 thousand | holds |
| `table_chains` | `MCTableChains.cfg` | collisions in the hash part | 195 thousand | holds |
| `table_parts` | `MCTableParts.cfg` | array and hash part, loops, length | 161 thousand | holds |
| `heap_safe` | `MCHeapSafe.cfg` | nothing reachable is freed | 1.1 million | holds |
| `heap_frees` | `MCHeapFrees.cfg` | garbage is freed, cycles end | 92 thousand | holds |
| `traces` | `MCTrace.cfg` | no jump to a trace that is gone, numbers, blacklisting | 475 thousand | holds |
| `trace_failures` | `MCTraceFailures.cfg` | recordings that fail end, with evictions from the penalty cache | 18 thousand | holds |

### The compiler

`MAX_DEPTH` is 16 in the source.  It is the only number in the generator, and
the generator only compares `depth` with it, so the run uses a small one: with 4,
expressions of three operators are written in place, and terms of every kind are
built that are one level below it, at it, or above it.

`MCPrograms`: every kind of term over every choice of operands from one of each
sort that the generator tells apart (a leaf; an expression too deep to write in
place; an `if`; a `let`; a function literal), calls with zero, one and two
arguments, four operators for the four routes of `generate_bin_op`; terms that
are the first too deep, over an operand that is not (`AtMaxDepth`); and each of
these alone and in seven contexts (body of a function, branch of an `if` in tail
position, body and value of a `let` in a function, second of a pair, left of a
subtraction whose right side binds, argument before the last).  Beside them,
programs of `test-jsons`: `fib`, `closure`, the loop of `tco`, tuples, and the
operators with boxed operands of `crazy1`.  `MCTexts` adds expressions of two and
three operators with suffixes and calls, and ten strings with and without quotes,
backslashes and line breaks at each place where a literal is written: 7677
programs in all.

* `TypeOK`: the type invariant.
* `PanicOnlyFromLastArgument`: the assertion `!term.binds` fails for the last
  argument of a call and for nothing else.
* `ScratchAboveHeld`: whatever is read after a pending call, and not assigned
  in between, is below the temporaries that call may use.  This is the
  contract behind all the `temps + 1`, `temps + 2`.
* `ResultsKeptOutsideInfix`: between two calls that leave a result in the same
  temporary, something reads it.  Except in programs where a comparison or
  logic operator has a binding right operand.
* `EarlyReturnSkipsNothing`: a term marked `last` is the last thing to generate
  in its function apart from branches not taken, and its value goes to
  `__temp_0`, the result of the function.
* `SourceOrder`: pending subterms are in source order, but for a callee, which
  may be evaluated after its arguments.
* `ValueLeftOutsidePrint` (of every step): an arm assigns `bind` or returns, in
  both branches of an `if`; only the statement form of `print` does not.
* `Termination`.
* `NotLuaOnlyFromCauses`, `GroupingKeptExactly`, `ArityCheckedUnlessDeep`: the
  text is Lua unless one of four causes is there (a logic operator compiled to
  statements, a tail call through a temporary, a suffix after a literal or an
  operator, a string with a quote, a backslash or a line break); a program that
  is one expression means what its source does exactly when no operand is looser
  than its operator, no suffix follows a literal or operator, and every string
  is read back as it is; a function literal with parameters checks its argument
  count unless its body is too deep (one without never does, and is left out).
  Strings with which a text becomes Lua again after a quote of theirs ended it,
  and escapes of control characters and character codes, are not among the
  instances.

There are no bounds besides the programs: no counter is capped and every
compilation is followed to its end.  A program is compiled deterministically,
so the states are the sum of the lengths of the compilations.  Three nested
levels of statement arms are only reached in some contexts; that is where the
theorems take over.

### The whole program

`ClosedPrograms` (457 programs): a function with each of 20 bodies (results held
across recursion, prints in every order, closures, also in branches and before
and after returns, tail calls of both forms, conditions used for their value),
under each of 21 main expressions that call it, some of them in error after they
printed (420 programs); `Shadowing`, seventeen programs that bind a name twice,
in six of which the text means another binding; strings that are kept, changed,
and not read; and `AtLimits`, ifs and functions nested ever deeper, branches
ever longer and a call with nine arguments.  `MAX_DEPTH` is 3, so that both
forms of every term occur in small trees; two temporaries are declared, so that
the third, a global, occurs too; words have 1024 values, and no sum leaves them.
The limits are small, so that each of them is met exactly by a program that is
loaded, and exceeded by one that is refused: 18 locals (200 in `lj_def.h`), 5
upvalues (60), less than 21 slots (250), less than 14 levels (200) and jumps
over 26 instructions (32767).

* `RunTypeOK`: the type invariant; the program counter stays in the code of the
  running function, which a jump without a target does not.
* `CodeVerified`: `Analysis` gives facts about the bytecode of every program
  that `Accepts` agrees with.  So the three properties that follow hold of every
  way through the code, whatever values are tested on it: see section 4.
* `AssertionsHold`: the assertions of `lj_parse.c` about registers, scopes and
  expressions, which the build does not compile, hold.
* `RegistersWritten`: no instruction reads a register that was not written
  since its function was called, or that a call has clobbered, on whatever way
  control got there.  It is what register allocation and the patching of jumps
  that bring a value have to achieve together.
* `OpenUpvaluesLive`: an open upvalue is at a slot of an activation that has
  not ended, and no other is at the same slot: blocks, returns, early returns
  moved behind a `UCLO`, and tail calls close what they must.
* `ImmutableKept` (of every step): a variable the compiler marks immutable for
  a closure does not change any more while that upvalue exists.
* `LoadedUnlessLimits`: LuaJIT refuses a text that is Lua exactly if it has too
  many variables or nests too deep, both counted on the tree without regard to
  how the compiler goes over it, or the compiler runs out of registers or needs
  too long a jump, for which there is no measure but the compiler.  The
  generator writes nested ifs and functions, calls with any number of arguments
  and branches of any length, so each of these can happen to a program.  The
  limits on constants and on the size of a text (2^16, 2^26) are not modelled.
* `ImplementsRinha`: the pipeline implements `RinhaRun`, unless one of these
  causes, each of which makes compiled code depart from `meta-eval`, is there:
  the compiler panics; the text is not Lua; an operand is loose; an infix
  operator has a binding right operand; `print` in statement form is used for
  its value; a temporary is held across a call of a function that uses
  temporaries; a name means another binding in the text than in the source
  (`NameMistaken`: no `do` block is written, so the local of an inner `let`
  stays, and a `let` whose value ends in one of the same name assigns that one);
  the order of two effects in the arguments of a call (the interpreter goes from
  the last to the first) shows; LuaJIT refuses the text because of its limits.
  A name that is bound twice is no cause by itself: most of the programs of
  `Shadowing` have to come out right.
* `TailCallsReuseFrame`: the only calls in tail position that keep a frame are
  those `generate_term` does not write in place and whose callee is free.  It is
  about instructions: a `CALL` keeps a frame if all that follows it, over jumps,
  is the return of its result.

### Arithmetic

Words of 16 values, doubles exact up to 128: every chain of operations with
every operand, sums followed up to 40.  An operand is a term like any other, so
it can itself be a sum that was not wrapped.  `ImplementsWords` is the
refinement of `WordArith`, `TracesComputeSameRemainder` compares the remainder
of compiled traces with the interpreter's at every pair of words, and
`OnlySumsExceedWords` says what can be left unwrapped: a sum, and a remainder by
a number that is itself larger than a word, `(0 - 1) % s` where `s` was bound to
a large sum; `generate_bin_op` wraps everything else.

### Tables, collector, traces

Tables: four strings with hashes that collide in every way, in a hash part of 1
to 8 nodes with at most five nodes used (`table_chains`); integers 1, 2 and 4
and a string that move between both parts while a loop deletes and changes
entries (`table_parts`).  `MAX_USED` bounds the nodes in use.  The names and
values are symmetric, since nothing orders them; the `VIEW` drops the hash of a
string the table does not hold, which will be chosen anew.  `ImplementsDict` is
the refinement of `LuaDict`: every key reads as last stored, and the traversal
meets every entry once.

Heap: `MAX_OBJECTS` objects at a time out of a table, a weak table, a closure,
an upvalue and a string, with two stack slots (`heap_safe`); a table and two
closures that may share an upvalue (`heap_frees`).  Three objects are a chain
with a middle that changes hands, and a cycle with a reference into it, which is
what the barriers are for.  No symmetry is used.

Traces: one function that calls itself, so there are two places a root trace
may start at (its header, and its return, for down-recursion), and three trace
numbers, one less than root, return, side and stitched trace need, so that the
compiler runs out of them; one exit per trace, one side trace per root before
the next only returns, two penalty slots, and a place is blacklisted at its
third failure.  With two functions and two numbers, and with two side traces
per root, the same properties hold.  `trace_failures` has two functions and one
penalty slot (64 in the source), so that the failures of each throw the other
out of the cache, and two trace numbers.

* `EntriesSaved`: a compiled instruction, put back for a while or not, enters
  a saved root trace that was recorded from there and is in its chain (the
  assertions of `trace_unpatch`).
* `RunsSavedOnly`: wherever execution can get to from there, over links, exits
  and continuations, there is a trace, and its root with it.
* `AttachedToSaved`: the trace a recording will be attached to is still there.
* `PatchOnlyRecording`: no instruction stays put back after its recording.
* `NoNumberLost`: the hint `freetrace` is never above a free number.
* `OnlyHeadersBlacklisted`: `blacklist_pc`, whose arithmetic on opcodes is right
  for loops and headers only, is never applied elsewhere.  That it is not when
  an abort for down-recursion runs out of numbers and is aborted again is due to
  the flush that comes with it.
* `FailuresEnd` (`trace_failures`): if no more functions keep failing than the
  penalty cache has slots, they are given up, whatever the other functions do
  to the cache meanwhile, unless flushes clear the penalties again and again.
  The bound on their number is needed: `penalty_pc` (403-410) replaces its slots
  in turn, so functions that are more than the slots and fail in turn each come
  back at the least penalty, and their recordings fail for ever (TLC finds that
  behaviour, of two functions, if the bound is left out).

### What the violations show

Each is a `finding`, with the line it contradicts.

1. The scan at 607 starts at the last argument and stops there, so it is
   written in place even if it binds: `f(if (c) {1} else {2})` aborts the
   compiler at the assertion of line 450.
2. `generate_infix` (193-199) uses one temporary for both operands.  An `if` or
   `let` on the right of a comparison overwrites the left operand.
3. The temporaries are upvalues shared by all activations: `n + (if (true) {
   f(n-1) } else { 0 })` loses `n` to the recursive call.

Other departures from what the tests or the interpreter say are carried by the
passing properties as their exact exceptions: `print` of a term that needs
statements (747-753) does not assign `bind`; `gen_prog` returns `Ok` with text
that is not Lua (`not not (` before statements, `return f(..)` followed by
`return __temp_0`, `1(..)`, strings with quotes, backslashes or line breaks,
which are written as they are; `generate_meta.rs:38` does the same); operands
are never parenthesised, so `(a + b) * c` is written `a + b * c`; a function
literal too deep to be written in place has no count check, although
`tests/run_progs.rs:45` expects one; `generate_scope` (141) writes no block, so
the local of a `let` in an operand hides the one outside behind the operand, and
`let x = 1; let y = (let x = 2; x) + 0; print(x)` prints 2 (without
`NameMistaken` among the causes `ImplementsRinha` is violated, by this program
among others); a conjunction is written `ExpAns`, which `meta-eval` does not
define.

### Fairness and deadlock

`Generate` has `WF_vars(Next)`: a sequential program that nothing blocks takes
its next step.  `Runner` has no fairness, as nothing is said of when a run ends:
a rinha program need not.  `Heap` has weak fairness of the collector's steps and
none of the program's: every allocation drives `lj_gc_step`, and a program that
no longer allocates needs no collector; the program may store, and so queue work
for the collector, as long as it likes.  `FailuresEnd` needs no fairness: it
says that something happens only finitely often.

Deadlock is checked where a system must not stop: a compiler or a process that
has ended stutters in an action of its own.  `Tab` and `Trace` have
`CHECK_DEADLOCK FALSE`: a program may simply have no more to ask of a table, and
a function that is blacklisted never calls the trace compiler again.

## 4. Proofs

`GenerateProofs` proves, from `ProgramsAreTrees` (every program is
`WellFormed`) and `MaxDepthPositive`, for any set of programs and any
`MAX_DEPTH`:

* `TypeCorrect`: `Spec => []TypeOK`;
* `PanicsOnlyFromLastArgument`: `Spec => []PanicOnlyFromLastArgument`.

The property is about the end of a compilation, so it is not inductive.  What
is inductive is `Inv == AnnotateTypeOK /\ Annotated /\ Generating`:

* `Annotated`: once `anotate` has returned from a term, the term is `Marked`:
  an `if` or `let` binds, and a folding term binds if any of its subterms does.
  While the fold of a term is under way, this holds of the subterms already
  folded, which needs that subterms come earlier in the postfix order.
* `Generating`: every pending call is in `SafeTask`: a pending
  `generate_free_term(n)` has `binds[n]` false, or `n` is the last argument of
  some call.

The heart of the proof is one lemma per arm: from a call in `SafeTask`, the arm
leaves only calls in `SafeTask`.  For `generate_free_term`, the term itself
passed the assertion, so by `Marked` no subterm of a folding term binds.  For
`generate_term`, an arm that writes a subterm in place has tested its mark, but
for the arguments after `last_binds`: the lemma `LastBindsSplits` shows that
those are free or the last one.  `EnterKeepsInv` then lifts each of them to the
state.  A proof of `TypeOK` needs the same invariant, because the fields of a
pending call depend on its kind.

`GenerateTailProofs`, `GenerateTempsProofs` and `GenerateOrderProofs` build on
`Inv`, from the same two assumptions.

`GenerateTailProofs` proves that statements leave the value they are for:

* `ReturnsSkipNothing`: `Spec => []EarlyReturnSkipsNothing`;
* `EveryArmLeavesItsValue`: `Spec => ValueLeftOutsidePrint`.

The first relates two passes.  `anotate` makes the marks `last` top down, before
any code exists, and the generator must reach a marked term as its last act.
What connects them is `TailTerms`, defined from the program alone: the least set
with the body of every function, what follows a `let` in the set, and the
branches of an `if` in the set.  `LastInTail` says that a pass in progress marks
no other term; `TailTodo` says that a pending `generate_term` of a tail term
`EndsFunction`: it binds temporary 0 and all that is pending up to the
`FunctionEnd` behind it is the rest of an `if`.  An arm keeps `TailTodo` if each
call it makes is of a term outside `TailTerms`, is the body of a function
literal, or takes the place of the call itself (`TailCalls`); for the first, a
term is the subterm of one term in one place, so what an arm generates that is
not a tail subterm is not in `TailTerms` for another reason.  The second is about
single steps, and has one lemma per arm: the calls and writes of the arm assign
`bind` or return, and on both sides of an `Else`.

`GenerateTempsProofs` proves that temporaries do not get in each other's way:

* `ScratchNeverHeld`: `Spec => []ScratchAboveHeld`;
* `ResultsAlwaysKept`: `Spec => []ResultsKeptOutsideInfix`.

Both are about pairs of pending calls of one function body, and both are
inductive with one more fact, `Bounded`: a call leaves its result in no
temporary above the first it may use as scratch.  An arm puts its calls in the
place of the first task, so a new pair is two calls of the arm, which is a
matter of its offsets, or one of them and a task that was pending before.  For
these it is enough that the calls promise what the task they replace promised
(`TempsCalls`): their scratch is within its scratch, and what they leave a
result in is read within the arm or is where the task itself left its result.
`CallsKeepTemps` lifts that to the invariant, and there is one lemma per arm.
What a text reads is computed from its tokens (`Reading`).  The loop over
arguments that has none left uses no temporary, whatever `temps` it carries:
`NeedsScratch` says so, and the program `CalledCall` of `MCGenerate` shows why,
as the loop for the arguments of a call without any stands before the read of a
temporary above it.

`GenerateOrderProofs` proves that subterms are generated in source order, but for
the callee of a call:

* `TermsInSourceOrder`: `Spec => []SourceOrder`.

A call is replaced by calls for its subterms, and `SourceOrder` alone says
nothing of how these relate to the terms that were pending before.  So the
invariant `OrderInv` adds that pending terms are `Apart`: none is `Below`
another, where `Below(n)` is the least set with `n` that has the subterms of its
members.  As a subterm is in one place (`KidBefore`), a subterm of `n` then has
no sibling that was pending beside `n`, and is apart from what was apart from
`n`.  What is left is a matter of the arm: the calls it makes are for different
subterms of its term, each before the next (`Arm`, `Precedes`), and there is one
lemma per arm.  The arguments of one call that two loops share, those up to
`last_binds` and those after it, are in order because the loops are.

`LuaArithProofs` proves, from `WidthsFit` (words of an even number of values, a
quarter of the exact doubles a whole number of words, units at least a factor of
two apart), `LargestIsExact` and `ScalesReach` (every magnitude up to
`128 * Q * Q` has its unit among `Scales`), for every width:

* `ImplementsWordArith`: `Spec => ImplementsWords`.  A step of `LuaArith` maps to
  the step of `WordArith` with the same operator, or, once an operand was out of
  range, to one that promises nothing.  The heart is that `NumToBit` of a sum
  is the wrapped sum of the words (`ModUnique`), also when the sum was never
  wrapped, as long as it stays within the exact doubles.
* `TraceRemainderIsLuas`: `Spec => []TracesComputeSameRemainder`.  `lj_vm_modi`
  takes the signs off, divides as unsigned and puts the signs back; the lemma
  `ModIIsModulo` follows the four cases (`ModuloBySigns`), the least integer,
  whose negation is itself, included.
* `LargerThanWordsOnlySums`: `Spec => []OnlySumsExceedWords`.  `NumToBit` gives a
  word for every double that a product of two numbers that are followed can be,
  rounded or not (`NumToBitIsWord`): the bits it takes are below the leading one
  of a mantissa.  A remainder is smaller than its divisor (`RemainderBound`), so
  it is a word when that is one.  The invariant `SumInv` adds the bound on the
  numbers that are followed.

The doubles of the program satisfy the assumptions: `W` is 2^32, `Q` is 2^51, and
with the powers of two up to 2^57 as `Scales` every magnitude up to 2^109 has its
unit.

`LuaVMProofs` proves, from no assumption on constants, for every chunk, every
`Print0` and every `Flow`:

* `MachineInvariant`: `MachineSpec /\ []CodeVerified => []Inv`;
* `MachineTypeCorrect`, `UpvaluesLive`, `NothingStaleRead`: the same for
  `RunTypeOK`, `OpenUpvaluesLive` and `RegistersWritten`;
* `ImmutablesKept`: `MachineSpec /\ []CodeVerified => ImmutableKept`.

They split what the run `runner` shows of whole programs in two.  That the
compiler makes code about which there are facts, `CodeVerified`, is about
recursive functions over trees, and TLC checks it of each program; that such
code can be trusted, whatever it computes, calls and captures, for any number
of activations and upvalues, is proved.  `CodeVerified` is a hypothesis because
it is a real condition: `StartRun` takes any chunk, and there is code the
machine would not survive.

The four properties are not inductive, and neither are the facts in front of
the running instruction.  `Inv` says that there is a set `G` of values with which
all of this holds:

* `DataOK`: `G` has every value in a global or upvalue, and in every slot but
  stale ones; a pair in `G` has its components in `G`, and a closure in `G` is
  `Sound`: its prototype exists, it has an upvalue for each that the prototype
  declares, and those that are declared immutable are among the `frozen` of the
  prototype.  `G` stands for a recursive definition of what a value is;
* `TopOK`: what the facts claim in front of the running instruction is so: its
  registers in `w` have values, and those from `open` on that `multres` says;
* `WaitingOK`: an activation that waits stands behind a call, and has values in
  the registers that were written in front of the call and lie below it; the
  registers of the activations above begin behind that call (`Above`);
* `HeldBy`: an open upvalue is a variable of the running activation or of one
  that waits, and among the `held` of the facts there; `OneEach`: no two open
  ones are at the same slot.

A call carries the facts in front of it over to the time it has returned:
`WrittenAfter` keeps the registers below the call only, which are those a callee
cannot reach, and `HeldStays` has every held variable below it.  A tail call and
a return need `held` to be empty, as the slots go; a `UCLO` is what makes it so.
`FNEW` is the hardest step: it finds an open upvalue at a slot or makes one,
with the same immutability each time (`CapturesAgree`), and the new closure has
to be `Sound`.  There is one lemma per action for `Inv`, and one per action for
`ImmutableKept`, which follows from `HeldStays` where the variable is open, and
from `frozen` where a closure assigns it.

`HeapProofs` proves, for any number of objects and slots:

* `HeapTyped`: `Spec => []TypeOK`;
* `CollectsOnlyGarbage`: `Spec => []NoDangling`.

What is reachable is not inductive: a step of the sweep frees an object whether
or not it can be reached.  `IInv == TypeOK /\ RefsTyped /\ Sound /\ Colours /\
Tricolour /\ Lists` is.  `Sound` says that no reference of a stack slot or a
live object leads to a dead one, and implies `NoDangling` by the definition of
reachability as the least closed set; a sweep keeps it because it frees only
dead objects.  What makes objects dead is the swap of whites in the atomic
phase, and that `Sound` survives it is what the rest is for: `Tricolour` (no
black object refers to a white one, gray ones are in a list), `Lists` (the main
thread waits to be traversed again) and `Colours` (what colours a phase
admits).  One lemma per action shows that it keeps `IInv`.

`TraceProofs` proves, from `ParametersAssumption` (at least one trace number,
exit and penalty slot, an array that starts with two) and `ValuesAssumption`
(the values `Null` and `Cur` are no traces), for any number of functions,
traces, exits, side traces and penalty slots, every safety invariant of `traces`:

* `TypeCorrect`, `EntriesAlwaysSaved`, `RunsOnlySaved`, `AttachedAlwaysToSaved`,
  `PatchesEndWithRecordings`, `NumbersNeverLost`, `HeadersOnlyBlacklisted`.

The inductive invariant is `Good(J)`.  `RunsSavedOnly` is about what execution
can reach, `Enterable`, and freeing is decided by what the collector can reach,
`Kept`; neither is inductive, and the two follow different references.  Between
them is `Alive`, the least set with the root traces in the chains of the
prototypes, what links lead to, and the side traces of each root trace, and
what is kept invariant is that it is closed (`Tidy`) and `Tied`: a link leads
to a root trace or back to the trace itself, an exit leads to a side trace of
the same root trace.  Being tied is what makes an exit of a side trace, which
the collector never looks at, lead to something the root trace keeps; so
`EnterableAlive` and `AliveKept` hold, and a collection frees nothing that can
run.  The rest of `Good` says that entries are saved (`Entered`), where free
numbers are (`Numbers`), and what a recording starts from (`Begun`,
`Attached`).  The handlers are compositions of `Pendpatch`, `FlushRoot`,
`Started`, `Stopped` and `Aborted`, so `Good` is a predicate of a state `j`, and
there is one lemma per operator and then one per action.  A flush of one root
trace in `check_call_unroll` may leave the recording attached to a dead trace;
`Base`, which is `Good` without `Attached`, is what survives it, and the abort
that follows in the same instruction restores the rest.

The proof corrected the model: when side traces were found by the number of
their root trace alone, `RunsSavedOnly` failed with four trace numbers, as a
number can be used again.  The code goes by its chains and its patched jumps,
and so does the model now.

Only model-checked: liveness (`Termination`, `GarbageIsFreed`,
`CycleEnds`, `FailuresEnd`), which the prover has no rules for; what is about
parsed text and compiled code, as `LuaParse`, `LuaCompile` and `Meta` are
recursive, and `GeneratedLua` and `Runner` reach them (`NotLuaOnlyFromCauses`,
`GroupingKeptExactly`, `ArityCheckedUnlessDeep`, `AssertionsHold`,
`LoadedUnlessLimits`, `TailCallsReuseFrame`, `ImplementsRinha`, and
`CodeVerified`, the hypothesis of `LuaVMProofs`); and `Tab`, whose insertion,
rehash and search for the border are recursive (`TypeOK`, `LengthIsBorder`,
`ImplementsDict`).  Every safety property that a passing run checks in the other
modules has its theorem.

## 5. Not modelled

* Reading and deserialising the file, formatting and white space: no property
  is about them.
* Of LuaJIT's parser, what generated text does not use: loops, `goto`, varargs,
  methods, concatenation, multiple assignment; the lexer but for strings, the
  escapes of control characters and character codes, debug information and
  the layout of constants.  The prelude, which is the same in every text, is not
  compiled but for its locals.
* Of execution, stack overflow and memory: a run has the frames it needs.  Hot
  counters and the entry of traces are in `Trace`, garbage in `Heap`.
* Of tables, `lj_tab_dup`, colocation and freeing of the array, the length hint
  of compiled code, the cache of missing metamethods.
* Of the collector, userdata and finalizers, coroutines, prototypes, weak keys,
  the registry, the resizing of the string table, thresholds.
* Of traces, loops (generated code has none), prototypes with the compiler off,
  `jit.*` calls, hooks, vmevents and profiling, the retry with another area of
  machine code, hot counters (any place not compiled may be hot), the random
  bits of penalties, freed prototypes, and C functions that call back into Lua
  while a continuation frame holds a trace: none that rinha calls does.
* The rest of the 86 thousand lines of LuaJIT: instruction selection, register
  allocation, folding of IR, assembly for six machines, the FFI, the Lua
  libraries, and `minilua.c`, a second Lua used to build the first.  They
  translate data by tables of cases, with no state that operations share and no
  protocol between them; a model would be the tables again.  The modules above
  cover what generated code relies on.
* The build and the Dockerfiles keep no state the program depends on.

## 6. Plan

1. **More proofs.** The node vector of `Tab` with its recursive walks written as
   functions, so that "every key is in the chain of its main position" could be
   proved of `NewKey` and `MoveAway`; the registers and scopes of one `ParseStmt`
   of `LuaCompile`, as a step towards `CodeVerified`.
2. **The prelude compiled.**  `__print0` is recursive and the metamethods call
   back into Lua; with concatenation and `elseif` in `LuaCompile` they could run
   as bytecode.
3. **Deep recursion.**  The stack limit of LuaJIT as an error of `LuaVM`, to
   state which programs of `meta-eval` compiled code cannot run.
