# A TLA+ development of the AC compiler

The AC compiler (`ac-compiler/`) translates one source file of the AC language
to one of its sixteen backends, or with `--all` to all of them. This directory
holds TLA+ modules that model parts of it, TLC configurations that check them on
small instances, and theorems whose proofs TLAPS checks. Paths such as
`main.cpp:1229` are relative to `ac-compiler/src/`.

    tlc -workers 2 -config cache_concurrent.cfg MCCompileCache
    tlapm CompileCacheProofs.tla

## 1. The system

One process of `ac` runs `main` (main.cpp), which calls, in this order:

| part | source | state it keeps | operations |
|---|---|---|---|
| driver | main.cpp `main`, `compileOne` | command line, outcome of the build | read source, parse or load, inject imports, lower or load, emit, run toolchains |
| AST cache | acc_cache.hpp | `<base>.acc`: key and tree, for all backends | `saveCache`, `loadCache` |
| IR cache | ir_cache.hpp | `<base>_<tgt>.irc`: key and IR, for one backend | `saveIRCache`, `loadIRCache` |
| import injection | main.cpp `injectFlibModules`, `injectDatacImports` | the visited set, `g_importStack`, `g_injectedSources` | splice `use flib/elib/clib` files and `use datac` tables into the tree |
| `.datac` parser | main.cpp `parseDatacRows` | the row being collected | one line at a time, rows out |
| `--all` pool | main.cpp:2083-2119 | atomic counter `next`, totals `ok` and `fail`, output files | threads claim backends, each runs `compileOne` |
| backend registry | backend_registry.cpp | a table, written before any thread runs | names, extensions |
| lexer, parser | lexer.cpp, parser.cpp | `indentStack`; `pos`, `tagStack`, `customTags`, `errors` | text to tokens to tree; skip to the next statement after an error |
| IR lowering | ir.cpp, ir.hpp | symbol table, arena, label and temporary counters | tree to instructions |
| IR passes | ir.cpp:6333-7957 | the instruction lists | constants, copies, dead code, restart loops, automatic shutoff |
| text backends | ir_codegen.cpp | `g_crossListParams` (static), declared names, `loopDepth_`, `scopeSaveStack_`, `definedSoFar_`, `javaDeadCode_`; in a program in C, `_ac_try_stack` and its depth | instructions to the text of a language, one at a time: blocks, `try` clauses, what a loop saves and puts back, what is dropped behind a `return` |
| `.acl` lowering | lib_lower.hpp | the rules of a library | name to call, with a wildcard rule |
| machine code | exp_bny.cpp, exp_arm.cpp | while compiling: live intervals, registers, labels of `try`. In the program: registers and stacks, the block of handlers (`__try_stack_ptr`, `__try_depth`), state blocks of generators (`__ac_gen_cur`), the spinlock of `atomic`, a heap (`__heap_cursor`, `__heap_limit`), an event table | instructions to an executable image; in it calls, traps, switches of stack, growth of blocks, binding and triggering |
| runtime libraries | library/ilib | web server, audio, os, camera, ... | bindings to the system |

How they interact: `main` calls the parts one after the other and hands the
tree and the IR on by reference. What is shared is

* the two cache files and every output file, by all compiler processes that run
  on one source (for instance `make -j` with a rule for each backend) and by the
  later compilations of the same source;
* the counter, the totals, the output files and the static map
  `g_crossListParams`, by the threads of `--all`;
* the static visited set and import stack, by the nested calls of the recursive
  import injection.

There are no messages and no callbacks in the compiler. Time comes in only as
the mtimes in the cache keys. A compiled program has control of its own:
exceptions, generators that run on stacks of their own, `atomic` sections and
events.

### What is hard, and what makes each part correct

| part | hard behaviour | correctness |
|---|---|---|
| caches | stale keys, files torn by a kill, two writers, a lenient compilation that fills the cache of a strict one | a build depends on its inputs only; `--force` is fresh; an error is never cached away |
| import injection | cyclic and shared imports, `export` filters that drop what an exported function needs, order of variables | each definition once; nothing needed is missing; recursion ends |
| `.datac` parser | rows found by searching for keys in collected text, quote depth | rows as written |
| pool | claiming, a throwing backend, files with the same name | each backend once; totals and exit code right; outputs whole and not each other's |
| list parameters | a fixpoint in a map that threads share | the least fixpoint; declarations agree |
| IR passes | a block boundary, an alias or a call between definition and use | the program prints what it printed before |
| text backends | every way out of a `try` (`return`, /end, a second error) in languages whose blocks, scopes and clauses differ; a stack of `jmp_buf`s in C; dead code dropped by a flag | the text is a program of its language, and that program does what the AC program promises |
| machine code | registers that run out, values that live over calls, loops, traps and switches of stack; handlers that are left by another way than the end of their `try`; blocks that grow and move; tables of fixed size; a spinlock | every operand finds its value; the handlers are those of the clauses entered; a list is a list; the program ends |
| lexer, parser | indentation that closes several blocks or none, comments on lines of their own, a file that ends in a block; recovery after an error in any block; tags that their own name closes; a precedence of its own for each unary operator | every statement is in the block its width says; errors name the broken lines and nothing else is lost; operators bind as the table says; it ends |

`PROJECT.json` lists the hazards line by line with the properties that cover
them, and those that none covers with the reason.

## 2. The modules

| module | what it is |
|---|---|
| `BuildModel` | what a compilation is a function of: texts, command lines, trees, IRs, `FreshOutcome` |
| `UncachedCompiler` | abstract: a compiler that has no disk |
| `CompileCache` | the driver with both caches, processes, edits, kills |
| `CompileCacheProofs` | theorems about it |
| `FlibInject` | import injection, and the loop over the data imports |
| `DatacRows` | `parseDatacRows` |
| `DataImports` | composes the two: the import's text is parsed line by line, its rows take its place |
| `FlibInjectProofs` | theorems about both |
| `BackendJobs` | abstract: backends taken in order, ended once, one exit code |
| `AllBackends` | the pool of `--all`, `compileOne` as far as it touches files |
| `AllBackendsProofs` | theorems about it |
| `CrossListParams` | `computeCrossListParams` and its readers, by several threads |
| `CrossListParamsProofs` | theorems about it |
| `IrMachine` | the IR, how statements are lowered to it, an interpreter of it |
| `OptPasses` | the optimiser at every level, pass by pass |
| `RegAlloc` | the native backend's linear-scan register allocator |
| `BnyMachine` | composes it with what its code runs on: calls, loops, `try`, generators, `atomic` |
| `BnyMachineProofs` | theorems about `RegAlloc`, which `BnyMachine` implements, and about the handlers, stacks and temporaries of `BnyMachine` |
| `AcObjects` | abstract: variables that hold lists and dicts, an event table |
| `BnyHeap` | the heap of a native program, word by word |
| `BnyHeapProofs` | theorems about it |
| `ControlText` | how the loop of `genInstr` writes control as text for Python, C++, C and Java |
| `AcSource` | programs of AC, how `ir.cpp` lowers them, and what they promise |
| `ControlRun` | what the compilers of the four languages make of the text: they refuse it, or it runs |
| `ControlPromise` | composes these: what the texts owe to the programs |
| `ControlProofs` | theorems about `ControlText` |
| `AcLayout` | the lexer's lines: INDENT and DEDENT |
| `AcCursor` | the parser's cursor, its reports and its recovery |
| `AcGrammar` | expressions, statements, blocks and tags |
| `AcParser` | composes these: from a file to its tree |
| `ParserPromises` | what tree and errors owe to the file, told from its lines alone |
| `AcLayoutProofs` | theorems about `AcLayout` |
| `MC...` | the small instances |

Operators named `Bug_...` are plausible faults of the definition that follows
them. No action uses them. Each property is checked against one of them: TLC
must find the property violated when the definition is replaced by it.

### CompileCache: the driver and its caches

A process `p` walks through the labels `pc[p]`, which are the places of `main`
and `compileOne` where it touches shared state or may stop:

| labels | code |
|---|---|
| `idle` -> `accHead` or `parse` (`Start`) | main.cpp:903-1099, reads the source and the compiler's mtime, decides by `ReadsCache` |
| `accHead`, `accTail` | `loadCache`: magic, version, key; then the tree |
| `parse` | main.cpp:1101-1163, a syntax error ends a strict compilation |
| `accOpen`, `accWrite`, `accFlush` | `saveCache`: truncate, first chunk, rest; the open may fail |
| `inject` | main.cpp:1165-1179, reads the imports |
| `ircHead`, `ircTail` | `loadIRCache`, with its test of the stream at the end |
| `lower` | main.cpp:1243, `generateIR`, foreign blocks refused |
| `ircOpen`, `ircWrite`, `ircFlush` | `saveIRCache` |
| `gates` | main.cpp:1251-1304, stop after IR; an operation the backend has no code for, a missing entry point, an infinite `<mainloop>` refused; emit |

`Crash(p)` kills the process at any label; `Change` is an edit of the source or
an import, a rebuild of the compiler or of a library's FFI file.

Abstractions. A text is a model value; sets say which texts have a broken
statement, a `RAD` assignment, a foreign block and so on. An IR is the record of
everything it was made from. Digests are injective: `hashForCache` and the .acc
hash are 64-bit FNV, and collisions are not modelled. A file is two chunks,
because it goes through a stream buffer: what lies in the first is in the file
before the rest, and a kill or a reader may come between. Contents that differ
only in layout are equal. What a file writes in 8 or 16 bits has a size: a tree has
the length of its longest string (`str`), its most attributes and its most children,
an IR its longest constant (`const`) and its most operands, attributes or parameters
(`ops`). `StoredAst` and `StoredIr` cut what the code cuts, and `LoadedAst` is
`Garbage` for a tree whose counts have wrapped, as all its attributes and children
are written and the reader takes the rest for other nodes. `loadIRCache` refuses an
entry with more than 100000 symbols, 10000 functions or 1000000 instructions in a
section, which is a miss and nothing else, and is left out, as are the .lir that
cannot be written (1273; nobody reads it again) and a backend that nobody has registered
(1301). The .ilib rules that decide what a backend has no code for are the set
`Unsupported`.

Abstract specification. `UncachedCompiler` has `Begin`, `Resolve`, `Deliver` and
`Abandon`: a compilation sees one source and one state of its imports, and
delivers `FreshOutcome` of them. The mapping sends every label to `idle`,
`source` (imports not read yet) or `imports`.

### FlibInject: imports

A frame of the recursion is an element of `stack` (the file), `next` (the child
the loop is at) and `work` (its locals `toAppend`, `toVars` and the tree).
`Skip`, `Reimport`, `CannotOpen`, `Enter` and `Return` are what one turn of the
loop at main.cpp:513 may do; `Return` is the rest of the recursive call's turn,
with the export filter, the helpers an exported function needs (the worklist at
main.cpp:657-681), forwarded imports and the variables that go before the
program. `ImportsDone` and `InjectDatac` are the rest of main's part; the second
goes over the spliced list and passes a node (`PassNode`) or puts assignments in
the place of a data import (`Expand`), in the list that it runs over. A tree
node has a kind, a name, the file it comes from and the names it mentions.
Paths are canonical already; `elib` and `clib` differ from `flib` in where the
path comes from only.

### AllBackends: `--all`

Each thread is `claim`ing, `compile`ing or `gone`. While it compiles, `stage`
says where `compileOne` is: lowering, the `.lir` file, the checks, the native or
text output, the toolchain, the header of a library, the removal of an
intermediary. A file's content is two halves, each tagged with the backend that
wrote it; a writer truncates and writes the first half, then the second, and
another thread may come between. `fail` of one backend is an exception that the
worker's `catch` counts. The refinement mapping to `BackendJobs` hides the
stages and the files.

### CrossListParams: list parameters

A function stands for its one parameter, the map for the set of functions in it,
and every statement of `computeCrossListParams` that reads or writes the map is
a step. `prog.slots` is the size of the pool. A data race on `std::map` is
undefined behaviour; `Collide` is the outcome that the process dies, the other
outcomes are the interleavings.

### DatacRows and DataImports: data files

A line has a kind and fields; a field has a key, whether its value has an odd
number of quote characters, and the keys whose `key:` its text contains. Those
are the three things about the text that the parser's searches depend on.

`DataImports` runs the parser (`Parser`, an instance of `DatacRows`) inside of
the injection: `Splice` is `injectFlibModules`; then for each import `Read`
opens its file, each `Parse` takes a line, and `Replace` hands the rows to
`Expand`. `ImportSpec` implements the `Spec` of `FlibInject`, where the rows are
any (`CompositionInjects`).

### IrMachine and OptPasses: the optimiser

A program is a sequence of statements (`Programs`) and functions (`Library`).
`Lowered` gives its instructions, with the operands, temps and labels of ir.cpp;
`Shown` runs instructions and gives what they display and whether the program
dies. The actions of `OptPasses` are what `generateIR` does after lowering:

| action | code |
|---|---|
| `Round` | one turn of the loop at ir.cpp:7512: constant folding in every function and in the main code; at `-O4` also the evaluation of calls by the compiler, copy propagation and dead code |
| `Clean` | ir.cpp:7547-7549, dead code at every level |
| `DropDeadStores` | ir.cpp:7551-7619 |
| `Runtime` | ir.cpp:8034-8035, `--runtime`: copy propagation and dead code alone |
| `Expand` | ir.cpp:8038, a store into a variable is one into its aliases too |

After each action the code in hand is run and compared with the code as it was
lowered. `Evaluate` is the compiler's own interpreter (`tryConstexprEval`), which
differs from the machine on purpose: it has no program variables and no
exceptions.

Left out: types and what depends on them (smart division, widths, floats,
strings), the constants and functions of the math library, names that are read
inside strings, bundle fields, `after` clauses, nested `try`, the restart loop
and the automatic shutoff. The main code and functions are folded in one step
each; no function in the instances calls another, so their order does not
matter.

### RegAlloc: registers of the native backend

`begins` and `ends` are the live intervals of a function's temporaries. `Extend`
is one extension of the fixpoint over the loops (exp_bny.cpp:638-682), in any
order; the scan starts when nothing is left to extend (`Reached`). `TakeFree`,
`Evict` and `StayOnStack` are the three branches of the scan (704-768), each
with the expiry of what has ended (`Alive`) before it. `std::sort` orders
intervals with one start as it likes, and so does `IsNext`. The active list is
kept in the order of ends by the code; the model picks the furthest end.
Registers are their indices in `POOL`.

### BnyMachine: native control

Compilation first: `PlaceTemps` and `FinishFunction` allocate `main`, `f` and the
generator `g` one after the other. Then the program runs on a processor:

| state | code |
|---|---|
| `regs` | RBX and R12 to R15, the registers of `POOL` |
| `stacks`, `fiber` | the frames on each stack, the one that RSP is in; a frame has its slots and the registers its prologue pushed |
| `tries`, `depth` | the block at `__try_stack_ptr`, `__try_depth` |
| `gens`, `genCur` | the state block of each generator, `__ac_gen_cur` |
| `lock` | the spinlock of `atomic` |

| actions | code |
|---|---|
| `Make`, `Range_`, `Construct` | instructions that make a value; the last two are inline code that writes registers of the pool (exp_bny.cpp:3740-3842, 3107) |
| `Call`, `Return`, `Halt` | prologue, epilogue, the end of the program |
| `Label`, `JumpTo`, `GoOn` | loops |
| `LockBegin`, `LockEnd` | `atomic` (4057) |
| `TryBegin`, `CatchBegin`, `TryEnd`, `Divide`, `Trap` | 3568-3669 and `emitDivZeroTrap` (1546) |
| `GenCreate`, `GenNext`, `GenSkip`, `GenCrash`, `Yield`, `GenReturn` | 3268-3400, `emitFiberSwap` |

Each value is a new number of the clock. A frame's `want` is what the IR says a
temporary holds; no action reads it, and `UsesFind` compares it with what the
instruction finds in the register or slot. What jumps to a frame that is gone
leads to the mode `lost`, a spinlock that its own program holds to `spin`, a
handler past the block to `overrun`: the code would go on with whatever is there.

Left out: encoding, arguments (they are copied to slots on entry and never
stay in registers), floats and strings, and what an instruction computes.

### ControlText, ControlRun, AcSource, ControlPromise: control as text

`ControlText` is the generator. Its unit of work is an instruction of the IR;
its state is what ir_codegen.cpp remembers from one instruction to the next:

| state | code |
|---|---|
| `unit`, `at`, `text` | the loop at ir_codegen.cpp:21930, the lines written |
| `loopDepth`, `saveStack` | `loopDepth_`, `scopeSaveStack_` (22248-22330) |
| `defined`, `declared` | `definedSoFar_`, the strategies' `declared` |
| `dead` | `javaDeadCode_` (21943) |

`FreeVars` and `Hoisted` are what the generator finds out before it writes
(`freeVarNames_`, `hoistVars_`). An action is a group of cases of `genInstr`:
`Assign`, `LoopBegin`, `LoopEnd`, `TryClause`, `Lock`, `Return`, `IfBranch`,
`Plain`, and `Suppress` for what is dropped. The four strategies differ in
`PyClause`, `CppClause`, `CClause`, `JavaClause`, `Bracket`, `Saves`. A line of
text is its kind, the name it is about, and whether it declares the name.

`ControlRun` stands for the compilers of Python, C++, C and Java: what opens and
closes blocks, which clause may follow which, in which block a name is declared,
and then what the lines do. This is semantics of the languages, not code of the
repository, and is marked external, but for the lines that the runtime of
ir_codegen.cpp prints (the depth of `_ac_try_stack`, its `longjmp`, the lock).
`longjmp` gives a local variable that was changed since `setjmp` either value,
as C says; into a frame that has returned it is `wild`.

`AcSource` has the programs, their lowering and `Meaning`, which says what
README.md promises: a `try` catches, `after` always runs, a `return` leaves
everything. `ControlPromise` says for which shapes of programs the text of a
language keeps that (`Carries`) and for which its compiler accepts the text
(`Compiles`).

The model was compared with the compiler: all 600 programs of `MCControl` in
Python, C and C++, 1800 texts, were generated by the compiler at `-O0`, built and
run, and each was refused or printed what `ControlRun` computes (a `wild` jump
counts as any outcome). There was no Java to run.
`Accepts` has no rule for javac's "unreachable statement", the error that the dropped
instructions of Java (ir_codegen.cpp:21911) are there to avoid: no program of the
instance leaves such a statement in its text.

Left out: parameters and values of functions (results are printed), nested
functions, classes, generators, the other twelve strategies.

### AcLayout, AcCursor, AcGrammar, AcParser: lexer and parser

A file is a sequence of lines; a line has a width and words. A word stands for the
token that the lexer makes of it, so what is left of `Lexer::tokenize` is the part
that looks at more than one line: `FirstLine` (which is never measured),
`BlankLine`, `Deeper`, `LevelOrShallower`, `IndentError` (the process exits) and
`EndOfFile`, with a line feed before the end or without.

The parser is class `Parser` as operators from a cursor to a cursor. A cursor is
the object's state (`at` is `pos`, `errors`, `tags` is `tagStack`, `custom` is
`customTags`), the node that the function returns, and `up`: how control comes
back. "thrown" is a syntax error on its way to the `catch` of `parseStatement`
(parser.cpp:905, `Caught`), "many" is the exception at the error limit, "spins" a
loop that went round once without taking a token or reporting anything, and
therefore goes on for ever. Every function of the class is the operator of its
name; the long `parseStatementInner`, `parsePrefix` and
`parseIdentifierStatement` are one operator for each statement or form
(`Export`, `Command`, `Use`, `IndexStatement`, ...); `Parse` is both
`parseExpression` and `parseStatement`, because the recursion of all the others
goes through it. A step of `AcParser` is a line
for the lexer and a statement of the outermost level for the parser.

A node keeps its type, the token it is made from and its children. Statements
that the code parses in the same way are one (`compfold` and `cp` as `const`,
`continue` as `skip`, `lazy_eval` as `eval`, /kill, /stop and /restart as /end).

`ParserPromises` does not look at how the parser goes. `Enclosing`, `Sibling` and
`Owner` find the statement that a line belongs to from the widths; `InPlace` and
`Intended` say which files their author can have meant, with broken lines
(`Broken`) anywhere in them; `Levels` is the table of precedences.

The model was compared with the compiler's lexer and parser: for all files of
`MCParser` and more than 50000 random ones (lines, blocks and expressions, broken
and not) the real parser, linked into a driver, gave the model's tree and the
model's error lines, or did not come to an end where the model spins.

Left out: how a line's text becomes words (quotes, numbers, comments, foreign
blocks), format strings and byte strings, the line that names the backend, screens
and hitboxes.

### AcObjects and BnyHeap: objects of a native program

`mem` is the words of the regions mapped so far, an address is a position in
it. `Alloc` is `__ac_alloc__` with its cursor and limit, `AppendTo`
`__ac_append__`, `PutInto` `__ac_dict_set__`, `Bind` and `Trigger` the event
helpers, `ListLiteral`, `RangeList`, `DictLiteral` the forms of ALLOC. `Copy` is
an assignment, which copies a pointer. A growing block moves, and the variable
that grew it gets the new address; others keep the old one.

`AcObjects` says what a programmer sees: elements in their order, variables that
change together until one is given room of its own, the first function bound to
a key. `ImplementsObjects` reads kinds, elements, sharing and bindings back from
memory and shows that each operation changes those it should and no others.

Left out: reclaiming (the code has none), strings and floats as elements, and
indices that the list does not have (LOAD_INDEX and STORE_INDEX, 3933-4022,
do not compare them with the length).

## 3. The runs

Every run passes or fails within about two minutes with two workers, also when TLC
counts coverage.

| run | instance | question |
|---|---|---|
| `cache_sequential` | 1 process, 3 texts (one broken), 2 imports, 2 builds, 2 stamps, 8 command lines, 3 compilations, 2 edits or an edit and a kill; strings of 65535 characters, 65535 children, 255 attributes and operands | `ImplementsUncached`: is the driver with its caches the compiler without them? `IrcWhole`: is a half-written .irc ever used? |
| `cache_concurrent` | 2 processes, 3 compilations, 1 edit, 1 kill, 4 command lines; strings of 65540 characters, 300 operands | `EntriesKeyed`, `OutcomeFromInputs`, `BypassIsFresh`, `StrictRejectsBad` |
| `flib_graphs` | 4 files, 3600 import graphs: two imports each at most, cyclic, shared, missing; with `export` prefixes, lists, AC LIB; 1364 programs with two data files: tables of two rows, three keys, every layout of lines | `OnceEach`, `HelpersFollow`, `NothingDangles`, `LibVarsOrdered`, `DataAsWritten`, `Ends` |
| `all_pool` | 2 threads, 13 backends, both kinds of host, every kind of program | `ImplementsJobs`, `Reports`, `NoCollateral`, `CompilesOwnText`, `AllDelivered` |
| `lists_race` | 2 backends, 3 functions; all 6560 programs in a pool of one thread, three in a pool of two | `OwnUsesKept`, `AloneDeclared`, `Ends` |
| `lists_lost` | 2 threads, the same three programs | **violated**: `AllDeclared` |
| `opt_passes` | 1152 programs, 4 functions, `-O0` to `-O4` and `--runtime` | `TameSame`, `TempsDefined`, `AliasesTogether` |
| `opt_free` | a call that writes a variable through `free` | **violated**: `LevelsSame` |
| `bny_code` | 200 programs: 10 main parts, 5 functions, 4 generators; 2 registers, 3 handlers, 2 jumps | `NeverShared`, `UsesFind`, `HandlersLive`, `SwapsHome`, `Ends` |
| `bny_heap` | 2 variables, 2 keys, 2 functions, regions of 7 words, capacities from 1, ranges of no element and of one; nothing is appended to the first (`RoomySpec`) | `RoomIsOwn`, `NeverFull`, `ImplementsObjects` |
| `text_control` | 600 programs: 15 main parts, 10 functions, 4 continuations; Python, C++, C, Java | `SavesPair`, `TextAccepted`, `HandlersMatch`, `DoesAsAc` |
| `parse_layout` | 12057 files, each with a line feed at its end and without: blocks in blocks to three levels, 90 statements, 24 broken and 24 garbled lines in every place, comments and lines out of place, expressions of up to three operators; an error limit of 3 | `Balanced`, `OutlineKept`, `ErrorsExact`, `SpinsOnOpen`, `OperatorsBind` |

`cache_sequential` has two constraints. `FewEvents` lets a kill take the place of
an edit. `AccWhole` stops a history once a kill has left an .acc cut short, as
such a file is taken for the program (section 5); an .irc may be cut short
anywhere. `cache_concurrent` has no such constraint, but cannot have `IrcWhole`:
a reader may meet an .irc that another process is rewriting.

Why the bounds are enough. *Caches*: an entry can go wrong only for a
compilation that reads it, so one that writes, one that rewrites and one that
reads (three compilations) with an edit between any two show every stale key;
sizes count only by the side of 256 and 65536 that they are on, and
`cache_sequential` has each at the largest that fits;
two processes are enough for two writers or a writer and a reader of one file,
because a file has two chunks and a third process finds the contents that two
can make. Two targets matter because the .acc is shared by targets and the .irc
is not. *Imports*: four files hold a chain of three, a cycle, a diamond, a cycle
through the program, and two imports next to each other. *Pool*: the totals and
the claim are symmetric in the threads, and a file has two halves, so two threads
make every mixture; the 13 backends hold every pair of file names but those of
ARM, ASM and C, which meet others (section 5). The theorems are about any
number of threads and any backends. *List
parameters*: three functions hold a chain that needs two rounds and a cycle;
calls come in every order. The bound of 50 rounds (`MaxRounds`) is the code's and
is not reached. *Data files*: what a row boundary depends on is the row before
it, so two rows are enough; a second import shows what the first has left behind,
in the parser and in the list that is run over. *Optimiser*: a pass goes wrong when something comes
between the instruction that makes a value and the one that uses it; two
statements of 24 kinds (loops, branches, `try`, aliases, calls that are pure,
write a variable, fail or recurse, simultaneous assignments), one after the other
in every order, with and without a third that reads `x`, put each kind between.
758 of the 1152 programs are within the assumptions at `-O2` and 512 at `-O4`, and
the others show that the assumptions are needed. `MaxSteps` (60 instructions) ends
the runs of programs that loop for ever, which are not compared; in
`Evaluate` it stands for the code's 15 million. `MaxDepth` is the code's 64.
*Registers and control*: with two registers three values that live at once already
make the allocator evict one and put one on the stack, and the theorems are about
any number of registers and any code. The programs hold each construct in each
other one that the code treats on its own: values over calls, loops and traps,
`try` in `try`, in a catch clause and in a generator, `after` with and without an
exception, a generator resumed in and after a `try`, two generators in turn,
`return`, `yield` and recursion in a `try`, `atomic` in loops and with a trap.
Two jumps (`LoopBound`) run a loop body three times, three handlers (`TrySlots`, 32
in the code) are as deep as the programs nest without recursion. *Heap*: one
step of growth is all of it, since the new block is one like any other; 7 words
are a region that two blocks do not fit into, so blocks are made at the end of
one region and the start of the next, and 15 words (`MaxWords`) two regions of
which the second may be longer; two variables are one that grows and one that
shares or lies behind it. A run makes at most two objects (`MaxMade`).
*Text*: a program is a first part, a second and a function that either calls; the
parts leave a `try`, a loop, an IF and an `atomic` in every way there is (end,
error, `return`, /end, an error of the callee, one in a handler), from one and
from two levels; loops run twice (`2`), since the second time finds what the first
left. Of the 600 programs 464 fit Python, 197 C++, 93 C and 319 Java; the rest show
that each condition of `Fits` is needed. *Parser*: a block is closed by what comes
after it, so each kind of block stands before, behind and in each kind, to three
levels, with a good line, a broken one or both in it; each statement stands alone,
before each kind of statement, in a function, at the end of a block before a
branch, and at the end of a file that is in a block. Two errors and one at the limit
of three (`MaxErrors`, 10 in the code) are all there is to counting. Three
operators are one with a neighbour on each side.

`Deadlock` is not checked: all programs end, and `MaxStarts`, `MaxEdits` and
`MaxCrashes` end the history of the caches, `MaxWords` that of the heap, the end of the
file the parser.

Fairness. `flib_graphs` (`FairImportSpec`): weak fairness of the one sequential program. `all_pool`
and `lists_race`: weak fairness of each thread of the pool, which the operating
system schedules, and of `main` after the joins; the toolchains are assumed to
end. No property assumes that a lock is handed over fairly, as there are none.
`bny_code`: weak fairness of `Next`, a processor that runs on; a jump is taken at most
`LoopBound` times, so that `Ends` is not about the program's own loops. The caches
have no liveness property: a compilation is straight-line code that waits for
nobody. `text_control` has none: its programs end because their loops count. That
the parser ends is an invariant (`SpinsOnOpen`): a statement is one step, and a loop
in it that would not end leads to a phase of its own.

Conditions. The properties of `bny_code` are about programs that do none of what
section 5 lists, and each condition is needed: `LeavesTry` (`return` or `yield` in
a `try`), `AfterInCatch`, `LeavesLock` (a trap or a call in `atomic`),
`RecursesInTry`, `Exposed` and `HandlesSafe` (a value that lives over inline code
which writes its register). `NeverShared` has none.
`DoesAsAc` is about programs that `Fits` the language, `HandlersMatch` about those
that do not leave a `try` by `return` or /end (`LeavesTry`); `TextAccepted` has no
condition: it says of every text whether it is accepted. `DataAsWritten` is about
files without the shapes of section 5 (`Clean`). `OutlineKept` and `ErrorsExact` are
about files as their author means them (`Intended`), which may hold any number of
broken lines but none that damages the lines after it (`Garbled`), and which do not
end within a block in a statement that takes the rest of its line (`EndTaken`, section
5); `Balanced` and `SpinsOnOpen` are about every file.

## 4. What the caches promise, and what they do not

* Every chunk of an entry was made from the inputs its key names
  (`EntriesKeyed`), whatever the interleaving.
* What is built was made from the build's own source, imports, compiler, target
  and mode (`OutcomeFromInputs`), except from a torn .acc or from an .irc that
  another process was rewriting. The optimisation level, the angle unit, the
  fields that are not stored and what long strings and lists lose are not among
  the inputs that this covers.
* `--force` and `--no-cache` do not see the disk (`BypassIsFresh`).
* A broken text is never accepted in strict mode, even after a lenient
  compilation left its IR under the same key (`StrictRejectsBad`). The reason is
  that a strict compilation parses first, and the .acc of a broken text is never
  written.
* Without a torn .acc, without two processes at once and without the exceptions
  below, the caches are invisible (`ImplementsUncached`), also after a kill.
* An .irc cut short is never used (`IrcWhole`): `loadIRCache` tests its stream at
  the end.

## 5. Where the code and its documentation disagree

Two disagreements have a run that shows them:

1. `lists_lost`: `g_crossListParams` is cleared and filled by all threads of
   `--all` without a lock. A forwarded list parameter may be declared a scalar,
   the prototype may differ from the definition, and the process may abort.
2. `opt_free`: constant folding keeps what it knows of a variable across a call,
   but a function may write it through `free`. `x = 5`, a call of a function that
   sets `x` to 7, then `y = x + 1` gives 6 at the default level and 8 at `-O0`;
   ir.cpp:7506-7508 calls these levels "provably-safe".

The models also contain these, which the passing properties step around (each
says how) and which no run is spent on:

* The .irc key (main.cpp:1229-1237) lacks the optimisation level, which
  `generateIR` takes: `-O0` after `-O2` reuses optimised IR. All command lines of
  `cache_sequential` have one level, and `OutcomeFromInputs` does not ask for it.
* A file imported first through an importer that filters its exports, then by the
  program, is only marked as inlined (main.cpp:581): what the filter dropped is
  missing. `NothingDangles` is about files imported from one place (`ImportedOnce`).
* `serializeNode` (acc_cache.hpp:56) does not store `angleUnit`: a second
  backend of one source loses `RAD`. `StoredAst` has it; `cache_sequential`
  has no such text.
* `saveIRCache` (ir_cache.hpp:126) does not store `hasShutoff`, `hasRestart` and
  `importedLibs`: the second build of a program with `<shutoff>` does not call
  it. `StoredIr` has it.
* Both caches cast the length of a string to 16 bits (acc_cache.hpp:51,
  ir_cache.hpp:42), and a list literal is one string: of one with 65540 characters the
  second build has 4, where main.cpp:1092-1093 says that "an entry is reused only for
  the same program". In the same way the count of attributes wraps at 256 and that of
  children at 65536, while all are written (acc_cache.hpp:59-65), and of operands,
  attributes and parameters of the IR the first 255 are kept (ir_cache.hpp:64, 69, 160).
  `StoredAst`, `LoadedAst` and `StoredIr` have it; in `cache_sequential` each size is
  the largest that fits, and with any one of `Long16`, `IrLong16` or `IrLong8` in its
  place `ImplementsUncached` fails.
* `loadCache` (acc_cache.hpp:114) does not test its stream: an .acc cut short by
  a kill is taken for the program. `ReadAccTail` has it; `OutcomeFromInputs`
  excepts torn files.
* A file of the program that imports the program splices the program's own
  functions in a second time (main.cpp:1171 starts with an empty visited set).
  `OnceEach` speaks of the other files.
* A `use datac` of an AC LIB file is forwarded to the end of the program
  (main.cpp:682-687), and its path is resolved from the program's directory.
* On an ARM host, BNY's C intermediary is the file of the C backend
  (main.cpp:1466), and ASM's listing that of RISC; on any host ARM and BNY both
  write `<base>.acb` (main.cpp:1428), though main.cpp:2090 says "each backend
  writes distinct files". `all_pool` is without ARM, ASM and C.
* `parseDatacRows` searches `key:` anywhere in the collected text, so that `id`
  after `pid` starts a new row, and both quote characters toggle one flag, so
  that an apostrophe swallows the next field. `DataAsWritten` is about files without
  either (`Clean`).
* Folding also keeps values across a store through an alias and into a catch
  clause (`FoldingSees` excepts both).
* Copy propagation (ir.cpp:6333) moves a store up to where its temp is made and
  looks at nothing in between. ir.cpp:7504-7506 calls that "safe in practice ONLY
  next to constexpr folding", but `--runtime` has it without: `x, y = y + 10,
  x + 10` with x = 1 and y = 2 gives 12 and 22, not 12 and 11 (`StoresFollow`).
* At `-O4` a call is replaced by its value although it writes a variable through
  `free`, which `isSideEffect` lacks, or divides by zero in an operation whose
  result it does not use; ir.cpp:6634 says that this "must stay a RUNTIME error"
  (`CallsArePure`).
* An alias is not written when the variable is assigned from a call, nor, at `-O4`
  and with `--runtime`, when copy propagation has turned its store into an
  operation (`AliasesTogether` excepts them).
* A folded `//` truncates (applyBinOp), the Python text floors: `-7 // 2` is -3 or
  -4. The machine has one division and the instances no negative operand.
* Inline code of `range` (exp_bny.cpp:3740-3842) works in R12 to R15 and RBX, that
  of an object's construction (3107) in RBX, which are the pool's: a temporary
  that lives over it is lost. The note at LOAD_INDEX (3955) says that such code
  must keep off the pool (`Exposed`).
* A generator that resumes another leaves `__ac_gen_cur` at the other one
  (3333-3347), and its next `yield` goes back to itself. The programs have no such
  generator.
* A generator that an exception leaves is not marked as done (a trap jumps to the
  handler, 1551-1581, and the block still has the last `yield`). The next
  `GEN_NEXT` resumes it there, with the registers of then and the slots of when it
  was left: of two temporaries it computed together, one is old and one is new. So
  `UsesFind` is false of `LABEL b; YIELD {1}; MAKE 2 {1}; MAKE 1 {2}; DIVIDE 3;
  JUMP_IF_TRUE {3} b`, after `MAKE 1`, when `main` resumes it in a `try` and then again. No
  program of the run has temporaries like that; the theorem excludes it (`Calm`).
* RETURN in a `try` (exp_bny.cpp:3268-3288) leaves `__try_depth` as it is. A trap
  after that, outside of every `try`, jumps to the catch clause of a frame that is
  gone, where exp_bny.cpp:1546-1549 says that it prints the error and exits
  (`LeavesTry` of `BnyMachine`).
* `after` inside a catch clause takes the label of the outer clause
  (`catchSkip_`, 3658-3661; `AfterInCatch`).
* A trap in `atomic` leaves the lock taken, and so does, in a call, a second
  `atomic`; the program spins for ever (`LeavesLock`).
* Of 32 handlers and 64 bindings nobody keeps count (3581, 5262-5309): recursion
  in a `try` writes past the block (`RecursesInTry`, the mode `overrun`); `Bind`
  is guarded by `EventSlots`.
* The list of an empty range has capacity 0 (exp_bny.cpp:3807), which `__ac_append__`
  doubles to 0. It takes a block of two words and writes the element to the third,
  which is the first of the next block. The comment at 5004-5006 says that "cap is
  never 0 here". `RoomySpec` is the programs that do not append to such a list, which
  `bny_heap` and the theorems are about; with `Spec` in the .cfg `NeverFull` fails.
* A list or dict that two variables share is two after one of them has made it
  grow. `Change` in `AcObjects` allows that.
* In C `_ac_try_depth` goes down at the end of a body and in its handler only: a
  `return` or /end in a `try` leaves it, and the next error jumps to a `jmp_buf` of
  a `try` that is over (ir_codegen.cpp:5601; `LeavesTry`). Locals are not
  `volatile`: what the body of a `try` changed is indeterminate in its handler
  (`Clobbered`).
* A division by zero in an `atomic` assignment leaves the mutex of C and C++ taken
  (ir.cpp:3178); the next `atomic` waits for ever (`LockKept`). Python and Java give
  it back.
* A loop of the mainloop puts back the variables that it saved (22248), also those
  that a function it called has written through `free` (`FreeLost`). The native
  backend does not, and keeps the write.
* What a loop saves is what has been assigned in the text before it, in whatever
  block: in Python it may have no value (`NewBeforeLoop`, a NameError).
* Hoisting (`hoistVars_`) does not take a `try` for a block: a variable that is
  new in one is not declared behind it, and C++, C and Java refuse the text
  (`NewInTry`). Neither do slots know blocks (`SlotReused`).
* A second `catch` becomes a second `else` in C, which C refuses, and in Java a second
  `catch (Exception _ac_exc)` (ir_codegen.cpp:10562), which javac refuses as already
  caught (`SeveralCatches`); `README.md:792` (of the repository) has "Multiple `catch` clauses tested in order".
  Each language's first clause takes every error.
* C++ and C have no `finally`. The code of `after` is a plain block behind the `try`
  (ir_codegen.cpp:7554, with the comment "after (always runs)"), so a `return` or
  /end in the `try`, or an error in a handler, skips it (`AfterSkipped`).
* Behind a `return` Java drops instructions until one of `isBlockBoundaryOp`
  (21943-21946), which `after` and the end of a `try` are not: with a `return` at the end of the last
  `catch` the `after` and the closing brace are gone (`CatchReturns`).
* lexer.cpp:629-630 adds DEDENTs at the end of the file so that "a file ending inside
  an indented block (no trailing newline) doesn't throw "Expected dedent" on
  otherwise-valid code". A statement that takes the rest of its line takes them for
  part of it, since it looks for a line feed only: with `IF x` above, a last line
  `x[1] = 1` (parser.cpp:2603), `t.a = 1`, `use x`, `Make x x` or `/halt` without a line
  feed is the error that the comment excludes (`EndTaken`, `Greedy`).
* An argument that is no expression is neither taken nor reported, and the loops over
  arguments (parser.cpp:428, 452, 478, 2628) wait for a `)` that they never come to:
  `x = -x(1]` or `f(:)` in an expression hangs the compiler. The limit of errors that
  parser.cpp:28-30 calls a backstop "against a pathological non-advancing loop" does not
  count there (`SpinsOnOpen`).
* A line that holds only a comment or a carriage return is measured like code
  (lexer.cpp:168 knows blank lines only): a comment at the left margin closes the blocks
  around it (`Aside`).
* `x = f(1) + 2` is an error: the form for arguments by name (parser.cpp:2943) takes
  every call at the start of a right-hand side and stops behind its `)`. The files
  have no such line.
* What is left of a line after a statement is skipped without a word (`x = 1 2`), and so
  is a stray OTHER, whose block then runs unconditionally (parser.cpp:1823, `Garbled`).
* A tag that is not known stays in its place after its error, and is an error again
  until the limit is reached (parser.cpp:978: recovery stops at tags).
* A `[` or `f(` that is not closed takes the rest of the file, without an error
  (parser.cpp:2126, 2517).
* `README.md:295` (of the repository) has `#` with the unary operators that bind tightest;
  it binds like `not`, at 3.

## 6. The theorems

All are proved for any values of the constants that satisfy the assumptions of
the modules (which TLC evaluates in the runs).

**CompileCacheProofs.** For any number of processes, texts, targets, edits and
kills: `TypeCorrect`, `CacheKeyed`, `BuildsFromInputs`, `BypassFresh`,
`StrictSound`. The inductive invariant `IInv` adds `MemoryOK(p)` to the three
properties: what a process holds at each label is what the label promises. For
instance, from `parse` on the tree is that of the text the process read, or
`Garbage` from a torn file; from `ircHead` on `ikey` is the key of its own
inputs; what it is going to write is what its own inputs give. Without it
`EntriesKeyed` is not inductive, because what is written to a file comes from
memory. One lemma for each action shows that `IInv` is preserved. `BypassFresh`
and `StrictSound` have an invariant of their own on top: for a forced
compilation, memory is fresh at each label; for a strict one, no label after
`parse` has a broken text, because the .acc of a broken text is never there.

`NoTornIr` and the refinement are about one compiler at a time (`OneAtATime`: at
most one process). `AloneInv` says that a file which only one process writes is
nothing, a head, or a head and its own tail, and does not change between the two
reads of a load; a load that finds no tail fails, so no torn IR is delivered. On
top of it `TrueInv` says what an entry holds: the tree and the IR that a compiler
without caches would make from the entry's key. `CachesTransparent` follows by
one lemma for each group of steps: a move within one of the stages of
`UncachedCompiler` is a stutter, and what `Exit` delivers is the outcome that this
determines from what was read. Its hypotheses are the ways in which the code breaks the
promise, one by one: `NothingDropped` (`serializeNode` and `wInstr` leave fields out
and cut or misread what is too long: strings of 65536 characters, 256 attributes,
operands or parameters, 65536 children; `StoredWhole` has that nothing else is lost),
`OneModePerKey` (neither the optimisation level nor `--allow-foreign` is in the
key), `OneAtATime`, and `AccNotCut`, that no kill left an .acc with a head only,
whose tail `loadCache` reads as zeroes. `CachesTransparentUnkilled` has no condition
on the run, for `MaxCrashes` 0. Kills inside of `saveIRCache`, edits, rebuilds,
forced and strict compilations are all within the theorem.

**FlibInjectProofs.** For any set of files and any import graph: `TypeCorrect`;
`ChainCorrect`, the import chain is the call stack and no file is entered
twice; `DepthBounded`, for finitely many files the recursion is at most one
call deeper than there are files. The invariant is `TypeOK` and `ChainIsStack`
together: a file can be entered only if it is not `visited`, and the chain is
within `visited`. `CompositionInjects`: with the parser in the place of any rows
the composition implements `FlibInject` (a step of the parser is a stutter), so
that `ComposedChain` needs no proof of its own; it needs of the parser that its
rows are a list (`RowsStay`).

`DeclaredOnce` is about what is spliced: no declaration of an imported file arrives
twice. `SInv` says, on top, what each call in progress has collected (`CallOK`):
nodes of files, no two of which clash, and, the point of the proof, that the files
of what a call has collected are done, `visited` and not in the `chain`, and that no
two calls have collected from one file. A `Return` moves what the inner call has and
the file's own nodes, which were in the chain up to then, to the importer. `ResultOK`
goes on after the last call: the names of data imports and of their rows stay apart
while `injectDatacImports` replaces nodes. Its hypothesis `NamesApart` is what the
property takes for granted when it knows a definition by its name: no two imported
files declare one name, no file declares it twice, and no file declares
`dc_<alias>_<r>` of its own. Of the lists that a filter, a splice and a replacement
make, lemmas (`KeptIs`, `SplicedIs`, `ReplacedIs`) say which element is where.

`HelpersFound` and `NothingLost` are about what is *not* there: whatever a definition
mentions of its own file, and, where each file is imported from one place, of the
files it imports, is in the program when the imports are done (`HelpersFollow`,
`NothingDangles`). `FInv` adds to `SInv` that what each call has collected finds
what it mentions, whoever wrote it (`FindsOK`, by `KnownTo`: what the code of a file
may count on), and that a call has what each of its finished imports provides
(`Settled`). Neither is inductive without the other: a file hands over only what it
exports and what that needs, and this is complete only if the file had collected all
of it before. What an export list needs (`Needed`) is closed because each round adds one
of finitely many names until none is missing (`GrownIsClosed`, which also counts the
rounds of `Reached`). The case that fails in the code, a file that a second importer
finds `visited`, is excluded by a tree (`SingleTree`), which `OneImporterIsTree`
gets from `ImportedOnce` for finitely many files. Both theorems need `DefsApart`: a
name tells one definition, the program's own included. `defByName` keeps the later of
two with one name, so that of the earlier the helpers need not follow. TLC evaluates
both hypotheses to `TRUE` for the 4964 programs of `flib_graphs`.

`VariablesInOrder` is about positions: for any imports without a cycle, a variable of
an imported file stands behind the variables of the files that this one imports and
before the statements that mention it (`LibVarsOrdered`). `OInv` adds to `SInv` and
the positions of the calls (`Positions`) that all that a file which is done imports is
done (`DoneOK`), and that what each call has collected is in order, with nothing that a
call further in has collected mentioned by it (`OrderOK`, `Backless`). Both need that a
file which is done imports no file that is still being injected. On a cycle it does: the
inner file finds the outer one `visited`, goes on, and hands over its variables before the
outer file's, which they may mention. Without a cycle the innermost call imports nothing
on the stack (`NoneAbove`, by `LoopFree`: sets of files closed under imports, none with
its own file, which `AcyclicIs` gets from `Below` for finitely many files). The hypothesis
`MentionsImported` says of programs that a file which mentions another file's variable
imports it, directly or through files that can be read; a mention without an import is
of a name the file does not know, about which the order of imports says nothing. TLC
evaluates it for the programs of `flib_graphs` (`VariablesImported`). `ComposedOrder`
carries the theorem over to the composition.

**AllBackendsProofs.** For any list of backends and any finite set of threads:
`TypeCorrect`; `ClaimsAreUnique`; `TotalsAddUp`, by counting the busy threads
in each action; `PoolImplementsJobs`, the refinement. `PoolInv` holds the type of
the pool, that a job is smaller than the counter and held once, and that the
counter passes each number of a thread that has left. A step of `compileOne` is
a stutter of `BackendJobs`.

`FileInv` is about the files. `Writes(b)` is what `compileOne` of a backend writes;
a file is a backend's `Own` if no other backend of the list writes it, and a backend
is `Lone` if all its files are. What a thread has written so far to an own file is
still there (`TextsKept`), and so is what it finished (`OutputsKept`); each stage
is on the way of the thread's own backend (`OnTheWay`). `LoneOutputsDelivered`
needs no hypothesis. `NoneHarmsAnother` and `OwnTextCompiled` need that the texts
which toolchains read are apart: `ListedOnce`, since the registry is a map, and
`TextsApart`, which only an ARM host can break, where BNY writes the `.c` of C. They
cover all sixteen backends on any other host. `EverythingDelivered` needs
`FilesApart`: BNY and ARM write one `.acb` on every host, ASM and RISC one `.s` on
ARM. These hypotheses are the shared names of section 5 and nothing else: that no
other two backends share one is proved from the table of their extensions
(`HasName`).

**CrossListParamsProofs.** For any programs, backends and pool: `TypeCorrect`;
`NeverTooMany`, however the threads race no scalar parameter is declared a
list, since each write of the map adds what the least fixpoint has;
`OwnUsesSurvive`, a parameter that its own function indexes is declared a list.
The last needs that the loop over the functions has collected the direct uses
among the functions it has passed (`ProtoSoFar`, `DefinedSoFar`).

`AloneComplete` is the other direction, for one slot: the lists are the whole least
fixpoint. `AloneInv` counts the rounds: each one that has changed something has
added a caller to what the bodies say themselves (`Cardinality(Added)` is at least
the number of the round), and all that are added are callers that only forward, so
that with `EnoughRounds` (no more of those than `MaxRounds`, 50 in the code) the loop
ends with a round that changed nothing, and then the map is closed.

**BnyMachineProofs.** For any number of registers and any code: `Invariance`;
`RegistersNeverShared`, two temporaries that live at one instruction are in
different registers; `PrologueSavesAll`, each register that a temporary is in is
pushed by the prologue; `VictimThere`, when the registers have run out somebody
active has one, so that `std::prev(active.end())` is never taken of an empty
list. The invariant says that `free` and the registers of `active` partition the
registers, that active temporaries hold different ones, and, for those the scan
has left behind, that they ended before what shares their register began. It
needs that the scan runs only when no interval is to be extended any more.

`CompilesByAllocator`, the compiler and the processor
implement `AllocSpec` (a step of the program is a stutter of it);
`ProgramsNeverShare` and `ProgramsSaveAll` follow from the theorems above.

Of the program that runs: `HandlersAsOpen`, the block at `__try_stack_ptr` holds the
handlers of the try clauses that the program is in, the outer ones first;
`NeverLost`, no exception and no switch of stacks goes to a frame that has been left;
`LeadsHomeAlways`, a running generator's block leads back to the `GEN_NEXT` that
resumed it, and `SwapsHomeAlways`, that `GEN_NEXT` names this generator;
`UsesAsMeant`, an instruction finds in its operands what the IR says that they hold.
They hold for programs of any size, any number of handlers and
generators, and any depth of calls. The invariant `HInv` says that each frame of a
stack waits at a call for the one above and is older (`StackOK`), that a suspended
generator is resumed in the frame at the base of its stack, behind a `yield`
(`Suspended`), that the frame below a running one waits at `GEN_NEXT` (`AwayOK`), and
that the handlers are those of the open tries, each inside of the ones below it
(`Match`). All that happens to a stack is that it is cut and gets another frame on
top (`Cut`), so that a step is described by the frame and the place of the cut
(`Goes`), and `GoesOK` has what all steps share. A trap pops the handler that all
others are around; what the stack has above its frame has no open try, or there would be
a handler inside of it (`TrapOK`).

What temporaries hold is `VInv`, about `HInv`'s stacks and the compiler's tables.
`TableOK` is what it needs of a table: temporaries live at one instruction are not
together, what a loop uses lives to its end, the registers are among those that the
prologue saves. It comes from `IInv` and from `Covers`, which each scan keeps. A
temporary counts where it is still to be used (`Live`: the places `Needs` has, within
its interval). `Snap` says of a frame and a set of registers: were it to go on with
them, it and every frame below it would find what the IR says, in the slot, in the
register, or in what the nearest frame above saved of it, or junk where inline code
uses the register (`Bare`). A switch takes up registers that were stored before, so
`Snap` is kept at each place that has some: the running stack, each handler
(`TrySnap`), the block's caller (`AwaySnap`), and each suspended generator (`GenSnap`).
A step changes one frame, and `Snap` of the frames below depends on the registers only
through those the frame saved, which is what makes calls, returns and traps go through.

The hypotheses are about the code of the functions, and `MCBnyMachine` assumes them
of its programs, so that TLC evaluates them (`HypothesesMet`). `Nested`: the clauses of
a try are in the order in which the lowering emits them, and no jump enters or
leaves one; its second half, about catch clauses, is not needed of a function with an
`after` in a catch, which the last part of `HandlersLive` leaves out.
`OneGenerator`: only `f` is called, only `g` yields, nothing on a generator's stack resumes
another (which hangs, section 5), and no `yield` is in a catch clause. The
last is needed: when a generator that yielded in a clause is later left by an
exception, it is resumed in that clause once more. `Assigned`: a temporary is given a
value on every way that leads to a use, what a try clause assigns is not used by its
catch clause nor after it, and jumps have a label. `UsesAsMeant` has one more, `Calm`,
which it does not need while the stack of `main` runs: no exception leaves the
generator. A generator that is left by one goes on, when it is resumed, with the registers of its
last `yield` and with the slots of the moment it was left (section 5), and the
invariant for its block is false.

**BnyHeapProofs.** For any values, seeds, slots, region size and program: `RoomOwned`,
`RoomEnough` and the refinement `ObjectsAsPromised`. A lemma for each helper says
what it does to any heap: the words it may change (`InPlace`: behind the capacity of
its own block; `Fresh`: none that was in use), and what the block has afterwards.
`IInv` says that each variable's block is whole and below the cursor (`ObjectAt`),
that the blocks of two variables are one or apart (`Between`), and that the tables
of events are apart from all (`Aside`). It also has that a dict holds each key
once, without which `PutInto`, which changes the first pair with the key, would not
be `Put`, which changes all. Then what a step writes is in one block, and every
other variable reads what it read. A dict literal folds `PutInto` over its pairs,
and the abstract one folds `Put`; both are recursive functions, whose values are
proved by a least counterexample (`WFMin` of the library), as is that the folds
agree after each pair (`DictMade`). Ranges may be empty; the theorems are about
`RoomySpec`, the programs that append to no list of capacity 0, for the reason given
in section 5: `AppendOK` needs a capacity to double (`Doubles`).

**ControlProofs.** For any programs whose loops are nested (`ProgramsAssumption`)
and any of the four languages: `SavesAlwaysPair`, the entries of
`scopeSaveStack_` and the open loops of the mainloop pair in every text, and what
is saved is a free variable that was assigned in the text before. The invariant
says that `loopDepth_` is the number of loops opened and not closed among the
instructions before the one at hand (`DepthCounts`), so that an end of a loop
finds an entry. Java's dropped instructions keep it, because no loop is among
them.

**AcLayoutProofs.** For any file: `AlwaysBalanced`, the parser finds an end for each
block and no end without a block. The invariant (`LayoutInvariant`, `LInv`) is that
the blocks open after the tokens so far, counted over all of them, are the widths
on the stack above the first; the count of a token is the cardinality of a set of
positions, to which each action adds an interval. The theorem is about
`LayoutSpec`, of which each step of `Lex` in `AcParser` is one.

Model-checked only, with the reason:

* `DataAsWritten`: what the parser of rows has built against the document it reads, and
  where the rows stand in the program after a replacement for each data import;
* the optimiser, `TextAccepted`, `HandlersMatch`, `DoesAsAc` and the four properties
  of the parser: an interpreter, `Meaning` and a parser of nested blocks are
  `RECURSIVE` operators, which no module with a theorem may reach;
* `UsesFind` on a generator's stack in programs that are not `Calm`, where it can
  fail and holds of those of the run;
* every liveness property, since liveness under fairness and `ENABLED` are out of
  the prover's reach.

Where a definition is a recursive function, induction is replaced by a least
counterexample, as above. The type invariants of `FlibInject`, `AllBackends` and
`CrossListParams` and the properties `ChainIsStack`, `ClaimedOnce`,
`PrologueCovers`, `Accounted` and `OnlyLists` are theorems that no run repeats.

## 7. What is not modelled, and the plan

Not modelled, with the reason:

* *The text of a line* (most of lexer.cpp) *and `.acl` lowering*: sequential functions
  from characters to words and from names to names. In the parser what section 2
  names under the modules.
* *IR lowering* beyond the statements of `IrMachine` and of the native programs:
  one case for each kind of node, without shared state.
* *Text generators* (ir_codegen.cpp, the largest file) but for the list
  parameters and for control in Python, C++, C and Java: one emitter for each
  language and instruction. What they write is right or wrong in the semantics of
  sixteen languages, which would be the model. ASM keeps its labels of `try` in
  single variables (`lastTryIdx_`, `afterPending_`, 18314-18317), so that nested
  `try` looks wrong there.
* *ARM and RISC*: the design of BNY on other instruction sets, with the same
  `try` block and heap. *Cross-compilation, images, encoding*: output formats.
* *Libraries, web server, widgets, `--lsp-check`, event listener*: bindings to
  the system, printers.

Of the modelled parts: hash collisions, full disks beyond a failed open, two
processes of `--all` at once, `setenv` in threads, expressions in the generated text,
smart division, the restart loop and automatic shutoff.

This is why the map covers a small part of the lines: three quarters of them are
emitters, each a table from an instruction to text or bytes.

Done, in this order: caches, imports, pool, list parameters, data files,
optimiser, register allocation, native control, native heap, the composition of
data imports, structured control of four text backends, lexer layout and the parser.
Next:

1. **Structured control of the other text backends**: closures in Go and Rust,
   `setjmp` in V, labels in ASM, as further values of `Dialects`.
2. **Rest of the IR passes**: smart division (ir.cpp:6464-6566), the restart loop
   and automatic shutoff; lemmas about one pass (dead code keeps every use
   defined) in a module without `RECURSIVE`.
3. **Symbol table and arena** (ir.hpp:300-535); in the parser format strings, which
   a parser of their own reads and whose errors are lost (parser.cpp:775).
4. Theorems: that the widths on the lexer's stack increase, so that at every line
   exactly one action is possible.
