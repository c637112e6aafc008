# A verification project for the Roda compiler

Roda is a small ahead-of-time compiler written in C (`src/src`), with its own unit tests
(`src/src/tests`) and a directory of Roda programs it must accept or reject (`src/tests`). This
directory holds TLA+ models of its algorithms, TLC configurations that check them on small
instances, and TLAPS proofs.

## The system

`rodac` (`src/src/rodac/main.c`) fills a `CompilerContext` (parameters, the interned strings, the
set of input files, the messages, the type context) and calls `runCompilation`
(`src/src/compiler/compiler.c`), which runs the passes one after the other over all files. A pass
talks to the next one through fields of the syntax tree and through the number of errors in the
message context: most passes run only while that number is zero.

| component | state it keeps | operations | what is hard, and what makes it correct |
|---|---|---|---|
| driver (`compiler.c`, `main.c`) | none of its own | `runCompilation`, exit code | which pass runs after which errors; every error is reported once and code is emitted only for a program without errors |
| messages (`msgcontext.c`, `msgkind.c`) | list of messages, counters, filter | add, merge, print | the limit on errors, the counters and the gates of the driver must agree |
| message printer (`msgprint.c`) | none | print a message with source lines | layout only |
| lexer and parser (`lexer.l`, `parser.y`, `wrapper.c`) | Flex and Bison state | parse one file | generated; syntax errors become messages |
| literals (`literal.c`) | none | escape codes, numbers, strings | code points cut short, bytes lost |
| syntax tree (`ast.c`, `astlist.c`, `astwalk.h`, `astprinter.c`) | nodes | constructors, walk, print | the order of the walk is the order of every pass |
| interned strings (`text/symbol.c`) | open-addressing table | `getSymbol` | identity of names is stable while the table grows |
| file set (`files/fileset.c`) | table and list of files | `createFileInSet`, `searchFileInSet` | one `File` for one path |
| files, paths (`file.c`, `fs.c`, `path.c`) | location counters | locations, normalising, relative paths | boundary cases of `.` and `..` |
| text (`string.c`, `utf8.c`, `format.c`) | none | strings, UTF-8 | round trip of code points, invalid input |
| symbol tables (`symboltable.c`, `variable.c`) | one table per scope, parent link | add, look up, look up immediately | shadowing, growth, wrap-around of the probe sequence |
| name resolution (`varbuild.c`) | tables, `binding` of every name | two walks | forward references to global definitions only, one definition of a name |
| control-flow references (`varbuild.c`) | innermost loop and function of the walk | `break`, `continue`, `return` targets | the walk context across nested functions |
| return check (`controlflow.c`) | none | `controlFlowEndsWithReturn` | every path of a function with a result returns |
| types (`types.c`, `types/eval.c`) | arena of types, classes of equivalent types | create, compare, evaluate | structural comparison of recursive types, cached results |
| inference (`infer.c`) | type of every node, flags | `inferAstTypes` and its helpers | fixed point over mutually recursive definitions |
| type checks (`check.c`) | none | `checkTypeConstraints` | writable, addressable, matching types |
| constants (`defeval.c`, `eval.c`, `value.c`) | value of every definition | evaluate on demand | cycles between definitions, 64-bit results |
| big integers (`bigint.c`) and fixed width integers (`fixedint.c`) | words | arithmetic, shifts, comparison | carries, signs, width boundaries |
| code generation (`codegen/llvm`) | LLVM module, current block | one function per kind of node | every block has one terminator, phi nodes name their predecessors |
| temporary allocator (`tmpalloc.c`) | free lists by size | allocate, free, reuse | buffers are neither lost nor handed out twice |
| sorting, hashing, allocation, console, options (`util`) | none | heap sort, hashes, `malloc` wrappers, argument parsing | heap order |
| test runner (`tests/test.c`, `testrun.c`) | jobs, results | fork tests, collect results | the only concurrency: a signal handler and the main loop |

The compiler is sequential: it has no threads, and nothing survives a run but its output files. What
is hard in it is the order in which passes and walks build on each other, state that is read long
after it was written (bindings, classes of types, marks, pages of the allocator), on-demand
evaluation with cycles, and what still happens after one step has failed. The test runner is the
exception: its main loop, two signal handlers and the processes of the tests run concurrently.

## The modules

| module | models | uses |
|---|---|---|
| `OpenAddressing` | search, insertion, growth rule of a hash table with linear probing | |
| `ScopeMap` | abstract: what a scope promises, a map from (name, kind) to the newest declaration | |
| `SymbolTable` | `symboltable.c`: the table of one scope, with the rebuild slot by slot | `OpenAddressing`; implements `ScopeMap` |
| `Resolve` | `varbuild.c`: both walks that bind names | a scope is the map that `SymbolTable` implements |
| `LexicalScope` | reference: what the names of a text mean | `Resolve` |
| `ControlFlowRefs` | `varbuild.c`: targets of `break`, `continue`, `return` | |
| `Syntax`, `SyntaxBodies` | the statements and expressions that direct control; the bodies that runs enumerate | |
| `ControlFlow` | `controlflow.c`: the check for missing returns | `Syntax` |
| `CodeGen` | `genmodule.c`: a function body becomes basic blocks, phi nodes and branches, call by call | `ControlFlow` |
| `TreeRun` | abstract: what a body does, read off its tree | `Syntax` |
| `Lowering` | the generated blocks at work | `CodeGen` |
| `LoweringTree` | that they do what the tree says | `Lowering`; implements `TreeRun` |
| `TypeTerms` | `types.c`: types as terms, unsure types and their table, predicates on kinds, partial and sized types | |
| `TypedSyntax` | `ast.h`: the nodes, children, parents and names that the passes over types look at | `TypeTerms` |
| `TypeCheck` | `check.c`: the constraints of every kind of node | `TypedSyntax` |
| `Inference` | `infer.c`: the passes of inference and checking over a program | `TypeCheck` |
| `Typing` | reference: what a well-typed program is, without any order | `Inference` |
| `TypeCompare` | `types.c`: structural comparison, classes of equal types, unsure types, sizes; the casts of `check.c` and of `genmodule.c` | |
| `ConstEval` | `defeval.c`, `eval.c`: constants evaluated on demand | |
| `BigInt` | `bigint.c`: integers of any length, word by word | |
| `FixedInt` | `fixedint.c`: integers of a fixed number of bits | `BigInt` |
| `IntegerValues` | `eval.c`, `literal.c`: chains of operations on both, next to the integers they stand for | `FixedInt` |
| `TempAlloc` | `tmpalloc.c` | |
| `Driver` | `main.c`, `compiler.c`, `msgcontext.c`, both `codegen.c`: one run of `rodac` | |
| `TestRunner` | `testrun.c`: the main loop, the signal handlers and the tests | |
| `SymbolTableProofs` (with `OpenAddressing`), `ControlFlowRefsProofs`, `ConstEvalProofs`, `TempAllocProofs`, `DriverProofs`, `TestRunnerProofs`, `LexicalScopeProofs`, `CodeGenProofs` | theorems and their proofs | the module they are named after |

The `MC...` modules give the constants their values, and each `.cfg` is one run.

How state and actions correspond to the code:

- **SymbolTable.** `hashed`, `count` and `symbols` are the fields of `SymbolTable`. `AddSymbol`
  enters `addSymbolToTable` and decides whether to grow, `MoveSlot` is one turn of the loop of
  `rebuildHashTable`, `Insert` stores the symbol and puts it on the list. Symbols are hashed by
  their address, so the hash is any function, chosen at the start. Lookups change nothing and are
  operators.
- **Resolve.** A file is its text: the tokens that open and close scopes, define and use names. One
  action per token and walk: `RootDef`, `RootFn` and so on for the first walk, `LocalFn`,
  `LocalLet`, `LocalUse` for the second. `func` is the argument that carries the enclosing function.
  A use is looked up by `findEntryInTable`, a table at a time: `look` is the table of its current
  call, which `LookOutwards` moves along the links until `LocalUse` takes the answer.
- **ControlFlowRefs.** The tree is unfolded while it is walked: a step enters a loop, a function, a
  constant, a jump, or leaves the innermost node. `function` and `break_target` are the context that
  all files share.
- **CodeGen, Lowering.** The frames of `stack` are the calls of `buildLlvmFunctionBody`, with their
  locals; a step is what a call does up to its next call for a child or up to its return. `blocks`,
  `at` and `value` are the LLVM function, the insertion point and the value returned last.
  `Lowering` lets the generator finish and executes the blocks, one instruction a step; the answers
  of calls are chosen by the environment.
- **TypeCompare.** Types are the nodes of a graph. The frames of `stack` are the recursive calls of
  `compareStructuralTypesHelper`, `equiv` is the union-find structure, `actual` what unsure types
  were resolved to. The stages are the passes of inference and checking that compare types, and code
  generation, which asks again whether a cast changes the type. `fallen` and `misled` are history:
  which comparisons turned out wrong after classes had been joined.
- **ConstEval.** The frames of `stack` are the calls of the C functions, `value` and `evaluated` the
  fields of `SymbolVariable`; `REC` is `RECURSION_CHECK_TYPE`. `todo` are the walks over all
  definitions.
- **BigInt, FixedInt, IntegerValues.** An integer is its row of words, as in the code; the word size
  and the length from which products are split are constants. `Ripple` is the loop that carries from
  word to word. `val` is the value so far and `want` the integer it is meant to be, computed with
  TLA+'s own arithmetic; where the code is known to deviate (see Deviations) `want` follows the
  code, so that the histories go on behind it. `answer` is what a question (a comparison, a length,
  the printed digits) yields and what it should.
- **Inference.** `res` is the field of each node, `table` the unsure types with the nodes they were
  given to, `varType` the types of variables. A pass over the program is an action; what a pass does
  in between (handing a type on to the nodes around, to the other uses of a variable, and from a
  resolved unsure type to every node it was given to) are operators from the types before a call to
  the types after it, in the order of the calls. A check is a condition on the nodes, because a
  check changes nothing but the number of errors.
- **TempAlloc.** `pages`, `next`, `count`, `capacity`, `used` are the fields of the structs;
  addresses are numbers of buffers. A walk along links is the least set that is closed under them
  (`Chain`), and the walk over the buckets that enters a new buffer is given by the set of buckets it
  visits (`LinkedFrom`).
- **Driver.** One action per step of `main` and of `runCompilation`; the list `Walks` is the list of
  walks with the gate each stands behind. What a pass computes is left out: at any module it may
  raise errors. A message is known by its position among all messages of the run.
- **TestRunner.** `job` is the table `running_tests`. The main loop runs in steps of one access to
  the table; each handler is a frame that runs in steps of one turn of its loops. A handler
  interrupts the loop and the other handler between any two steps. Where the C code reads a field
  twice without need, the model allows both what a build that reads it twice and what one that keeps
  it in a register does (the debug build and the release build differ here).

## What is checked

| run | question | bounds, and why they are enough |
|---|---|---|
| `symbol_table` | to lookups, is the table of a scope the map of `ScopeMap`, also in the middle of a rebuild? | four keys and three home slots collide and wrap around in every way; five symbols make a table grow from 0 to 4 and to 6 places, so entries are moved from one table to another. The proofs remove the bounds |
| `resolve` | does every use get the symbol the text means, and are exactly the well-scoped files accepted? | one name, because names do not interact; six tokens hold two nested functions with a definition and uses before, in and behind them; a second kind of name in texts of four tokens |
| `control_flow_refs` | does every jump get the target of its place, in programs without functions in loop bodies (see Deviations)? | four loops and functions five deep in any other nesting, over several files: the context saves one level, so two levels and a sibling show a wrong restoration |
| `lowering` | are the blocks well formed, and do they do what the tree says? | all bodies of up to seven nodes: every construct inside every other, but for the two shapes under Deviations; four answers. The proofs remove the bounds on bodies for the first question, and for whether every path of an accepted body returns |
| `type_compare` | are types found equal exactly if they are built alike, do comparisons end, are sizes finite? | six programs: recursive types that differ below a pointer, a type and its unrolling, unsure types, one that is resolved after its cast was checked, functions and arrays, types after an error; two comparisons a stage, because the second one sees the classes of the first |
| `type_compare_casts` | is code left out only for casts that change nothing? (violated, see Findings) | as above |
| `inference` | is what is accepted well-typed, is the only typing found? | functions with one or two variables without a type and two statements about them in both orders: a type comes from behind or from in front, over one or two steps, and meets another; a dozen types to tell them apart |
| `integers` | do integers in words tell the integers of arithmetic, whatever was computed before? | words of two bits and products split from two words on, so that six words are small numbers: carries into and out of every word, both signs, sizes that fill their words and sizes that do not; computing ends at values of more than three words |
| `const_eval` | has each constant the value its definition means, and one if it means any, are exactly the cyclic ones reported, what can an accepted one lack, does evaluation end? | three constants and three items: a cycle with a constant leading into it, entered from any side; two failures in one program. All but the end of the evaluation is proved for any number of constants |
| `temp_alloc` | is live memory handed out once, within its buffer, is what is linked reusable? | three buckets of doubling size and four buffers, so that a bucket is in the middle, buffers exceed the last bucket, and a chain has inner links |
| `driver` | do output and exit status agree with the errors, do messages come out once and in order? | two files in the orders that matter, two front-end messages anywhere, limits below, at and above that number, every failure of the back end, builds with and without LLVM and `DEBUG` |
| `test_runner` | is the report right, is every process collected before the table is freed, does the runner get to its report? | three tests in two jobs: a job is used again while the other is busy, and two processes can end for one signal; five ways to end; one interrupt |

The properties, by the hazard they are for:

- *Lost or shadowed names.* `EntriesReachable`, `SearchesEnd`, `NewestWins` and the refinement
  `ImplementsScopeMap`; `BindingsLexical` and `AcceptsWellScoped` against an independent reading of
  the text.
- *Stale walk context.* `BreaksEnclosingLoop`, `ReturnsFromEnclosingFunction`.
- *Malformed or wrong code.* `OneTerminator`, `PhiMatchesPredecessors`, `EveryPathReturns`, and the
  refinement `ImplementsTree`: the calls happen in the order, and the result is the one, that the
  tree says.
- *Cached results.* `EqualTypesAreAlike` and `AlikeTypesAreEqual` compare the classes with what the
  types are when nothing is assumed; `ValuesAreRight`, `DefinedMeansValued`, `RecursionIsReal`,
  `AcceptedMeansValued` and `CyclesMeetAMark` do the same for constants.
- *Types in any order.* `AcceptedIsWellTyped` and `TheOnlyTypingIsFound` compare the outcome of the
  passes with `Typing`, which knows nothing of their order.
- *Words and their boundaries.* `ValuesAreRight` and `AnswersAreRight` of `IntegerValues`;
  `WordsFit`.
- *Memory in use twice.* `NoOverlap`, `LinkedIsReusable`, `ChainsAreSorted`.
- *After a failure.* `ExitTellsErrors`, `MessagesInOrder`, `OutputOnlyForValidPrograms`,
  `BinaryOnlyIfClean`.
- *Signals.* `ReportIsRight`, `NoTestLeftBehind`, `ReportsUnlessEarly`.
- *Endless recursion or waiting.* `ComparisonsEnd`, `SizedTypesAreFinite`, `Terminates`,
  `ReportsUnlessEarly`.

**Fairness.** `ConstEval`, `TypeCompare`, `Lowering` and `Driver` are sequential programs that never
wait: weak fairness of their steps says that the program goes on running. In `TestRunner`, weak
fairness is assumed of the main loop, of the handlers, of the delivery of signals, and of the end of
each test. The last is an assumption on the tests: the runner has no timeout, and a test that writes
more to its pipes than they hold, since nobody reads them before it ends, waits forever. Nothing is
assumed of the interrupt.

Runs have `CHECK_DEADLOCK FALSE` where the program ends or a bound stops the environment.
`control_flow_refs` and `temp_alloc` can always go on and are checked for deadlock.

## Findings

One run is expected to fail. Both ways to do it were reproduced on the compiler itself.

- **Types equal by a guess that failed** (`type_compare_casts`, `types.c:962`): types that are found
  equal stay in one class, whatever they were equal by, and code generation takes a cast between
  them for no change of type (`genmodule.c:550`) and leaves it out. A literal whose type is still
  open equals the `i64` it would fall back to (`types.c:828`); the casts are checked before the types
  of variables are assumed, by which it can become an `i8` after all. And pairs that are equal while
  an enclosing pair is assumed to be stay equal when the assumption fails: later casts between
  different structures are even accepted.

### Deviations

Further behaviour met while modelling. The models contain it, and the properties or the programs
that are enumerated leave it out where it is in their way:

- *A return that may be skipped counts* (`controlflow.c:36`): a return in the right operand of `&&`
  or `||` satisfies the check for missing returns, although README.md:169 of the compiler says that
  all paths end with one. The bodies of `lowering` leave it out; `LazyAssumption` says so in the
  proof of `PathsReturn`.
- *`break` out of a function* (`varbuild.c:273`): a function defined in a loop body keeps the loop
  as the target of its own `break` and `continue`. The programs of `control_flow_refs` have no
  functions in loops.
- *Phi nodes of if expressions* (`genmodule.c:505`): the phi names the blocks in which the
  branches begin. When a branch generates blocks of its own, these are not the predecessors. The
  bodies of `lowering` leave such branches out; `StraightAssumption` says so in the proof about phi
  nodes.
- *Array sizes in a constant's own value* (`eval.c:581`): the mark that detects recursion is set
  only after the types in the value were evaluated, so ``const a: int = ([1] as [a]int)[0];``
  recurses without end. The programs of `const_eval` leave this out.
- *Constants that failed their type check* (`eval.c:580`): success is read off the number of errors,
  and the checks are skipped when errors exist already, so that an ill-typed constant can be
  evaluated, against the assertion at `eval.c:110`.
- *`!` on boolean constants* (`eval.c:303`): the check accepts ``const a: bool = !true;``
  (`check.c:625`), the evaluation has no case for it and reports nothing, so the constant counts as
  evaluated and its value is a null pointer. The code generator reads it wherever the constant is
  used (`genmodule.c:293`, `genconst.c:9`), although the program is "guaranteed to represent a valid
  program" by then (README.md:171 of the compiler). `AcceptedMeansValued` says that an operation
  without a case is the only way to get there. Its terms are "unhandled" in `ConstEval`.
- *A condition that is not a `bool`* (`infer.c:685`): with `b` a `bool`, `while b as f64 {}` is
  accepted. A condition gets the type `bool` by an assignment, over the type that a cast has by
  then, and nothing compares the two. `AcceptedIsWellTyped` excepts it.
- *Types without an end* (`infer.c:53`): `let x; x = &x;` makes an unsure type a part of itself,
  which nothing looks for. The properties of `inference` except it.
- *Words of big integers.* `bigint.c`: quotients by a divisor with several words can be wrong, since
  the first guess counts a zero word in front (`2^128 / 2^32`, against the comment at line 217); a
  remainder of 0 keeps a zero word, and compares as different from 0; `|` and `^` with 0 give 0; bit
  operations with a negative operand go wrong where the word above is all ones; shifting a negative
  integer to the right rounds towards zero, and 0 with a sign becomes -1. `fixedint.c`: extending
  the sign loses a carry, so that `-2^32 / 2` is 0 in an `i64` and a divisor can become 0; a shift
  by exactly all words reads behind the array; where the size does not fill the words, a shift to
  the right brings in bits from above it (`255u8 >> 1` is 255). A real number becomes an integer
  with zero words in front (`5.0 as isize` is not equal to 5), one between -1 and 1 to zero words
  with its sign.
- *Constants of the size of a pointer* (`eval.c:175`): a cast of an `isize` to `f64` reads the
  `BigInt` as a `FixedInt`. Division by a constant zero is met by an assertion only.
- *Buffers missing from smaller buckets* (`tmpalloc.c:54`): a new buffer is not always entered in
  the chains of all smaller buckets, so that free memory may go unused; what is linked is right.
- *The fork of a test* (`testrun.c:87`): a test that ends before its pid is stored is never noticed,
  and the runner waits for it forever. If it ends before the pid is read back on the next line, a
  debug build takes the runner for the test. `ReportsUnlessEarly` says that there is no other way to
  miss one.
- *Interrupting the tests* (`testrun.c:55`): SIGCHLD between the test of a pid and the kill can make
  it `kill(0)`, which is for the whole process group, in a build that reads the pid twice. An
  interrupt between the release of the table and the removal of the handlers reads a null pointer.
  An interrupted run exits with 0.

## What is proved

TLAPS checks these for every value of the constants, under the named assumptions of the modules
(`CapacityAssumption`: the initial capacity is above 3; `NullAssumption`, `HashAssumption`,
`MaxSymbolsAssumption`, `BoundsAssumption`, and `ParametersAssumption` of `Driver`, `TempAlloc` and
`TestRunner`: the constants have their types; `ProgramsAssumption` of `ConstEval`: they have, and
the array sizes in constants descend, since the code recurses without end otherwise;
`TextsAssumption` of `Resolve`: a file is a tree written down, so every scope that is opened is
closed and nothing else is, and functions, parameters and variables have names of variables; its
`NullAssumption`: `NULL` is neither a place nor a symbol; `TreesAssumption` of `ControlFlow`: nodes have
the children the grammar gives them; `ProgramsAssumption` of `CodeGen`: a `break` or `continue` of a
body has its loop in the body, or the body is rejected before any code is generated, and
`SimpleAssumption`: `Simple` holds calls and blocks of simple nodes only, which is what "begins no
block" means). Two more are no assumptions of a module but the hypothesis of one theorem each:
`StraightAssumption` of `PhisNamePredecessors` and `LazyAssumption` of `PathsReturn`. Without them
the code is wrong (see Deviations); the run assumes them of the bodies it enumerates.

- **SymbolTableProofs.** `EntriesReachable` is not inductive: an insertion keeps it only if a search
  ends at a free slot, which needs room in the table, and whether there is room is decided by
  `count`. The inductive invariant `IInv` adds `CountExact` (`count` is the number of used slots),
  `RebuildKeepsEntries` (the new array holds the entries of the slots passed so far, each once) and
  `GrowthKeepsRoom` (what the growth rule leaves free, before, during and after a rebuild). The
  lemmas on `OpenAddressing` say what a search finds and what an insertion leaves in place,
  for any hash function. From `IInv` follow `TypeCorrect`, `Reachable` and `SearchesTerminate`.
  `Implements` shows the refinement: the answer to a lookup depends only on the set of entries, a
  rebuild step leaves that set alone and so is a stutter, and `Insert` is `Bind`. `NewestSymbolWins`
  follows along the same cases.
- **DriverProofs.** `IInv` is `Typed` (the types that the arithmetic needs), `Counted`
  (`error_count` is above zero exactly if an error was raised), `StatusTells`, `ParsedOrFailed`
  (files behind the current one have a tree or an error was raised) and `BackEndClean` (in the back
  end all files are parsed and the front end raised nothing). Each action is shown to be quiet or to
  add one message, and then preserves each part. It yields `ExitStatusTellsErrors` and
  `OutputIsForValidPrograms`. For `BinaryOnlyOfCleanPrograms`, `DiskRight` says when a temporary
  object can be there (in the back end of a build of a binary only), and that a binary is written
  only by a linker that found nothing failed before it. For `MessagesComeInOrder`, printing is shown
  to leave `Out`, the printed and the waiting messages together, alone, and adding to append the new
  message at most (`OutStep`); which messages the limit leaves depends on `error_count` being the
  number of errors (`LogRight`), and the new message is later than all of them (`NewMessage`).
  `TypeCorrect` adds where each stage may stand in its list (`PlaceRight`).
- **ControlFlowRefsProofs.** The code keeps the context of the walk in variables that it saves and
  restores, the property speaks of the tree. The inductive invariant reads the context off the open
  nodes: `CurrentRight` (the variables are the innermost function and loop of the open nodes),
  `SavedRight` (what each open node has saved is what was right around it) and `FramesRight`.
  `ReturnTargets` and `BreakTargets` follow, the second for programs without functions in loops.
- **ConstEvalProofs.** Three invariants about the stack of calls. `CyclesAreNoticed`: a chain of calls
  that only do types goes down (`Descends`), because a type asks for smaller constants only
  (`AskSmaller`); so a constant that comes twice lies behind an evaluation, and evaluations are
  marked (`Marked`, `MarksAreCalls`; a mark stays until its own call ends, because no call further
  in is for the same constant). While there is no error, every constant is evaluated, to be visited, or
  just being visited (`AllPlanned`).
  `ValuesFollowDefinitions` speaks of finished values, so its invariant `VInv` says what the calls on
  the way have: in every valuation that satisfies the definitions, the items behind a call sum up to
  what it has so far (`SumRight`), those before it are the rest of its definition, with the chosen
  branch in place of an `if` at most (`RestOfItems`), and what it waits for comes next and is not
  being evaluated further out (`WaitRight`, `WaitForIdle`: so a call that resumes never takes a mark
  for a value). For `ReportedRecursionIsReal`, the calls from the one that evaluates the constant up
  to the one that asks for it again form a cycle (`OpenIsCyclic`); a solution in which nothing on the
  cycle has a value is made from any solution at all, and that one exists is `CompleteExists` (the
  valuation with the fewest constants open, among those that claim no more than follows from them).
  `DefinedAreValued` and `AcceptedAreValued` are about constants without a value, so `NInv` says what
  may be missing. A constant is `Lost` if its definition, array sizes included, has no meaning and,
  as long as there is no error, rests on an operation without a case. What was evaluated without a
  value is lost (`LostValues`), a call that has given up its value, or whose check has met an error,
  is one for a lost constant (`LostCalls`), a call goes on with a constant that was not evaluated
  only if that is lost (`LostWaits`), and so is what is not evaluated and not to be visited any more
  (`LostPlans`). Being lost is handed on from the constant asked for to the one that asks
  (`LossHandedOn`), and every error is a loss (`ErrorsAreLosses`): one on a cycle because the calls
  that are open form it. So a constant with a meaning is never given up, whatever fails around it;
  and without an error the only reason left is an operation without a case.
- **TempAllocProofs.** `MemoryIsHandedOutOnce`: besides `Disjoint`, the induction needs `BelowUsed`
  (new memory starts at the end of the used part), `WithinCapacity` and `AllCounted` (a buffer is
  emptied when its count says that nothing lives in it, so the count must not be below the number of
  live allocations). The links do not occur: whatever the search finds, the memory is new.
  `SearchesAreSorted` is about the links alone. That no buffer is its own successor is kept by any
  insertion of a new buffer, but that the search for bucket `i` passes large buffers only is not: a
  walk that stops early could leave the new buffer behind a page of a larger bucket. `Links` adds
  `PagesNest` (if the page of a bucket lies in the chain of a higher one, all the buckets between
  begin with it too) and `NullAbove` (above a bucket that is empty all are). With these the pages
  that lead to the place of the new buffer are the buckets from its own downwards, so the walk that
  the code ends at the first bucket without a change has missed none (`NotFromAbove`). Chains are
  least closed sets; the lemmas on lists (`ChainAfterEntry`, `EntryKeepsAcyclic`, ...) say what
  becomes of one. `FoundIsReusable` needs one fact of them: an insertion leaves nothing in the chain
  of the first page that was not there, but the new buffer (`FoundFromFirstPage`), so a buffer that
  freeing once did not find, and whose count is wrong since then, does not come back.
- **TestRunnerProofs.** `NoTestStaysBehind` is about two moments, the end of the loop and the end of
  the handler of SIGINT, and `NoTestLeftBehind` knows nothing of what comes before them. `IInv` adds
  `Started` and `Entered` (a process that is not reaped belongs to a running job with its pid, or
  its test is just being started), `BusyCounted` (`running_tests` is the number of jobs that are not
  idle, but for the one being started) and so `DoneWhenFreed`, `JobsMatch` (only a running job has a
  pid), and `HandlersSettle`: the handler of SIGINT leaves nothing alive in the slots it has passed,
  also when SIGCHLD comes between its look at a pid and its kill. The loop stands still while a
  handler runs, so each action is either one of the loop, where no handler has settled anything, or
  leaves the loop's variables alone.
  `ReportIsTrue` is about the end of the run. Its invariant, on top of `IInv`, is `Table` (a test is
  in one job at most, and in one from its start to its report), `ResultsRight` (a test that was
  taken from the table has the result its process ended with, and of any other one only what it sent
  is known), `CountsRight` and `OutcomeRight`.
  `TypeCorrect` comes after it because the counts stay in their ranges only as they count results,
  and `running_tests` only as it counts jobs; two handlers at most are in progress since none is
  entered for a signal that has one (`FramesTyped`).
- **LexicalScopeProofs.** The code has a table for each scope that changes while it walks, a link to
  the table around, a mark on each variable and a stack of calls; `Meant` and `WellScoped` know the
  text only. The lemmas on texts come first: around the next token are the scopes around this one,
  one more or one less (`ScopeStep`, from `LevelsTell`: the level counts the scopes around), and
  scopes are nested (`Nested`). With them `IInv` reads each variable off the text: `WalkRight` and
  `SavedRight` (the walk stands in the scope and function around its token, and has saved those
  around it), `TablesRight` (a table holds the first definition of each name up to here in the first
  walk, what `InBlock` and `AsParam` say in the second), `ParentsRight`, `OwnersRight` and
  `FunctionsBound` (a function is marked by its symbol, unless its name is taken). `LookRight` says
  that no scope further in than `look` knows the name, so where the search ends is what the text
  means (`FoundIsMeant`). `ErrorsRight` is about all errors at once, and it has to be: whether a use
  is reported as a capture depends on the mark of a function whose name may be taken, and it is as
  `Home` says only while nothing was reported (`CapturesRight`). `NamesMeanWhatTheTextSays` and
  `WellScopedIsAccepted` follow.
- **CodeGenProofs.** `OneTerminator` is about the finished function; a function under way has empty
  and open blocks. `BlockInv` says which: `at` is being filled (`Open`), the blocks that a call has
  created for later (`Later`: the right operand, the branches, the body, the end) are empty, and all
  others are done (`ShapeOf`). It needs to know that no two calls own the same block
  (`OwnedApart`), since a step fills the blocks of the innermost call only; each action then moves
  `at` to a block that it takes out of those for later. `OneTerminatorEach` follows for every body.
  For `PhisNamePredecessors`, `PhiInv` follows the branches instead: they lead to blocks that exist
  (`EdgesWithin`), so nothing leads to a new one; to the end of an open `&&`, `||` or if expression
  only the block branches that the call remembers (`ExpectedRight`), because `break` and `continue`
  lead to the blocks of a loop around them (`LoopsAround`) and a loop's condition, to which the code
  goes back, begins with no phi (`AgainNoPhi`). In a branch of an if expression the generator is
  still in the block in which the branch began (`StraightOn`, where `StraightAssumption` is used).
  Neither theorem bounds the number of statements in a block, where the runs have pairs. The blocks
  of loops can have any predecessors, and they do: code behind a jump ends in branches as well.
  `PathsReturn` joins three things: the check, a fixed point over the tree; the generator; and the
  run of what it has generated. The invariant is that there is a set of blocks, `live`, which
  control does not leave before it has passed a store (`Flows`), and which the run is in as long as
  the return slot is undefined (`RunWith`). While code is generated, the set grows with the targets
  of each branch that ends a block of it (`LiveWith`). What has to be shown is that it never gets to
  the end of a body that the check accepts: where the block at hand is in `live`, none of the calls
  under way has a child behind it that always returns (`GoesUpTo`, `HasReturned`), where a block for
  later is, the call has come that far (`LaterLive`), and the end of an if is not when both branches
  return (`JoinsDead`). `break` and `continue` are where it is not local: they lead from the inside
  of a loop to its condition and its end, so both are in `live` when the body is (`LoopLive`), and
  the check must not take a loop for returning because its body returns. That the check satisfies
  its own recursive equation is proved too (`EndsIsSolved`), from the least set of nodes that is
  closed under one step of it.

Only model-checked: liveness (the prover has no `ENABLED`), and what depends on operators that are
recursive over syntax trees, types and words, so that a theorem would be an induction over data:
`ImplementsTree` (over `Meaning`), the properties of
`TypeCompare`, of `Typing` over `Inference`, and of `IntegerValues`.

## Plan

The models hold the decisions other passes rely on: names, control flow, types, constants, the gates
of the driver. What could come next, in this order:

1. **Types** (`types.c`, `types/eval.c`): the evaluation of type definitions, which can be
   recursive, in front of `Inference`, so that named types are the graphs of `TypeCompare`.
2. **StringTable** (`symbol.c`, `fileset.c`): the other two tables as instances of `OpenAddressing`,
   with identity of names as their abstract specification; the lemmas are in
   `SymbolTableProofs`.
3. **Text** (`utf8.c`, `path.c`): decoding and normalising against reference definitions.

## What is not modelled

- *Lexer and parser* are generated; `Syntax`, `Resolve` and `ControlFlowRefs` follow the grammar in
  what they enumerate. *Text* and *paths* are in the plan, as are the *interned strings* and the
  *file set*.
- *Types* that a program defines are evaluated before inference; `Inference` starts from the result.
  Types that contain themselves occur in `TypeCompare` only, so their way through inference is not
  modelled, and the trees of `Inference` have no constant expressions in types.
- *Real numbers*: an operation on them is the one of the machine. `IntegerValues` has those that are
  integers.
- *Message printer, tree printer, options, console*: input and output.
- *LLVM* itself: `Lowering` gives blocks, branches and phi nodes their meaning; optimisation, types
  and debug information are left out. In `Driver`, its calls may fail or succeed.
- *Memory*: allocation is taken to succeed, since the compiler stops when it fails.
- *Worker processes of the test runner* (`isolated` off): no program or option selects them. Pids
  are not used again in the model, and files and pipes do not run out.
