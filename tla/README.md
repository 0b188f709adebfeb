# Marius in TLA+

A TLA+ model of Marius (`src/vm`), checked with TLC and proved with TLAPS.  It
follows a program from its text to its execution and to the memory it leaves
behind: lexer, parser generator and parser, compiler, the instructions of the
virtual machine, the transfer of control, classes and method tables, importing,
handles, the tracing collector and the mark-region heap.  The heap,
the transfer of control, classes and importing are shown to implement abstract
specifications, compiled code is compared with a direct reading of the tree, and
the safety properties of nine components are theorems, for every value of the
constants, and of the machine for any code that is well formed.

## The system

Marius is a small dynamic language.  `src/vm` holds its whole implementation: a
parser and compiler that turn a source file into bytecode, an interpreter with
its own register stack, a mark-region garbage collector, and the classes the
language starts with.  Everything runs in one thread: there are no locks and no
messages.  What makes the code hard is of another kind: control that leaves
several activations at once, native code that calls back into the interpreter,
a collector that must find every pointer, names that are resolved in one pass
and used in another, and tables, stacks and byte-sized operands with fixed
limits.

### Inventory

| Component | State | Operations | Hard behaviour | What makes it correct | Modules |
|---|---|---|---|---|---|
| Immix heap (`util/immix.hpp`) | chunks of blocks; per block a line table, a status and a count; the allocator's cursors; `gc_soon` | `allocate`, `find_hole`, `get_block`, `add_chunk`, `mark_address`, `sweep_blocks`, `reset` | lines are marked conservatively and for bodies only; the line table is stale between collections; the loops advance shared cursors | no two reachable objects overlap; garbage comes back; growth is announced; every call returns | `ImmixLayout`, `Immix`, `ImmixProps`, `HeapSpec`, `ImmixProofs` |
| Tracing and roots (`gc.cpp`, `state.cpp`) | the mark stack, the mark (1 or 2), the roots: frames, register stack, handles, globals, names | `collect`, `mark_object`, `walk_pointers`, `State::check` | fields that are not followed, frames that are not scanned, marks left by earlier collections | what a collection can see is kept, and nothing else | `GCTrace`, `RootsProofs` |
| Handles (`handle*.hpp`, `state.hpp`) | arrays of slots, the chain of open scopes | opening and closing a scope, `add`, `pull` | arrays fill up inside a scope, closing rewinds an array | the collector scans exactly the handles in scope | `HandleScopes`, `HandleScopesProps`, `RootsProofs` |
| Interpreter (`vm.cpp`, `method.cpp`, `closure.hpp`, `exception.cpp`, `long_return.cpp`) | frames, the register stack, closures, per call the registered handlers | `run` and its instructions, `check_unwind`, `Method::return_to`, native calls | exceptions and returns out of lambdas cross any number of C++ calls, each with a decision of its own; register windows overlap | unwinding lands where the language says; no register is read that a call may have overwritten | `Activations`, `Control`, `Interp`, `InterpProps`, `InterpProofs`; `Bytecode`, `Machine`, `MachineProps`, `MachineProofs` |
| Keyword arguments (`vm.cpp`, `arguments.cpp`) | the argument registers | `reorg_args`, `run_kw_method`, JMPHA | permutation through a copy, optional arguments | names reach their parameters, values are neither lost nor doubled | `Machine`, `MachineProps`, `MachineProofs`, against `Meaning` |
| Compiler (`ast.cpp`, `compiler.cpp`, `scope_tracker.cpp`, `local.hpp`) | scopes, locals, registers, code buffer, labels, line table | the visitor of `scope_tracker.cpp`, `drive` of each node, `set_label`, `pos` | operands of one byte; captured variables change place after they were first seen; nesting of loops, conditions, handlers and lambdas | the code does what the tree says | `Bytecode`, `Ast`, `ScopeTracker`, `Compiler`, `Meaning`, `Programs`, `MCCompiler` |
| Code objects (`code.cpp`) | instructions, strings, nested code, names, line table | `save`, `load`, `line` | names that are null pointers; a line table closed by its last element | a loaded file runs as its source | `Compiler`, `MachineProps`, `MCCompiler` |
| Classes and lookup (`class.cpp`, `trait.cpp`, `method_table.*`, `bindings.cpp`, `environment.cpp`) | class and trait chains, method tables | `lookup`, `add_method`, `alias_method`, `uses`, `run_body`, `new`, `new_subclass` | tables changed while they are iterated, hash collisions, the bootstrap of metaclasses, `new` with an unwinding result | a name finds the nearest definition; a trait fills gaps and all of them | `Tables`, `Chains`, `ClassSpec`, `Classes`, `ClassesProps`, `ClassesProofs` |
| Import (`import.cpp`, `main.cpp`) | the module registry, the import under way | `import`, `load`, the search of the load path | a module is registered before its body runs; circles; bodies that raise; files that come and go | a body runs once; one module per name; an import ends | `Import`, `ImportSpec`, `ImportProps`, `ImportProofs` |
| Lexer (`parser.cpp`, `parser.hpp`) | the buffer, the line, the last token | `next_token` and its `*_match` functions | tokens across the end of the buffer, keywords that are prefixes of names | tokens and lines are those of the text | `Lexer`, `LexerProps`, `LexerProofs`, `MCLexer` |
| Parser (`parser.lm`, `parser_state.cpp`, `tools/lemon.c`, `tools/lempar.c`) | the parse stack; contexts and argument lists of `ParserState` | lemon's construction of the tables, shift, reduce, the actions of the 162 rules | precedences, conflicts that lemon resolves silently, empty rules that save and restore contexts, syntax errors in the middle | a text is read as the tree it was written from | `Grammar`, `Lemon`, `Parser`, `ParserProps`, `ParserProofs`, `MCParser` |
| Data types (`list.cpp`, `tuple.cpp`, `string.cpp`, `dictionary.cpp`, `utf8.cpp`) | their contents | accessors, `==`, `each` | native iteration that calls back into bytecode | - | not modelled but for what their callbacks make of an unwinding (`Interp`) |
| Cimple, disassembler | - | - | - | - | not modelled |
| Builtins (`builtin/os.*.cpp`) | operating-system objects | system calls | - | - | not modelled |
| Generated and vendored code (`code.pb.cpp`, MurmurHash3) | - | - | - | - | not modelled |

The parts meet in five ways.  The parser builds the tree the compiler walks
twice, once to place its names (`ScopeTracker`) and once to emit code.  The
program allocates from the heap (`operator new(State&)`), and asks at every
backward jump whether a collection is due (`State::check`, from JMPB).  The
collector traces from the frames, the register stack, the handles and the
globals, and marks lines of the heap.  Bytecode enters native code through
`Method::run`, which opens a handle scope around the call, and native code
enters bytecode through `VM::run`, so C++ activations of both kinds alternate
on one stack; importing a file is such a native call.  The compiler decides
which instructions can occur where, and the interpreter's model relies on that:
LRET only in lambdas, POPE only behind REGE, a `return_to` mark only on the code
of a `def`.

## The modules

| Module | Kind | What it holds |
|---|---|---|
| `ImmixLayout` | operators | the geometry of a block: lines, holes, marked lines, status |
| `HeapSpec` | abstract specification | memory as the program sees it: granted, held, dropped |
| `Immix` | specification | allocator, block hand-out, chunk growth, line marking, sweep |
| `ImmixProps`, `ImmixProofs` | properties, proofs | invariants, action properties, the refinement, liveness; the heap's theorems |
| `GCTrace` | specification, properties | a program on an object graph, and the collector; what a collection keeps |
| `HandleScopes` | specification | handle sets and scopes |
| `HandleScopesProps` | properties | what the collector scans against what is in scope |
| `RootsProofs` | proofs | the theorems about handles and collections |
| `Activations` | operators | activations, handlers, what an activation is handed |
| `Control` | abstract specification | exceptions and returns as single jumps |
| `Interp` | specification | the same as C++ calls returning one at a time |
| `InterpProps`, `InterpProofs` | properties, proofs | the invariant, the refinement mapping, liveness; control's theorems |
| `Ast`, `Programs` | operators | the syntax tree, and programs as trees |
| `Meaning` | abstract specification | what a tree means, by recursion over it |
| `ScopeTracker`, `Compiler` | operators | from tree to code; compiled files |
| `Bytecode` | operators | what compiler and machine agree on: instructions, lengths, globals |
| `Machine` | specification | the instructions, with registers, closures and handlers |
| `MachineProps`, `MachineProofs` | properties, proofs | what code fit to run is, and what the machine keeps to; its theorems |
| `MCCompiler` | properties, for TLC | compiled code against the tree; families of programs |
| `Grammar`, `Lemon` | operators | the rules of `parser.lm`; the tables lemon makes of them |
| `Parser` | specification | the actions of the rules; the generated driver |
| `ParserProps`, `ParserProofs`, `MCParser` | properties, proofs, for TLC | the stacks of a parse; what parsing must give, and the texts of a tree |
| `Lexer` | specification | characters, buffer, tokens |
| `LexerProps`, `LexerProofs`, `MCLexer` | properties, proofs, for TLC | the tokens of a text; pairs of lexemes |
| `Tables`, `Chains` | operators | method tables and bindings; classes and their superclasses |
| `ClassSpec` | abstract specification | definitions, gaps filled by traits |
| `Classes` | specification | the builtin methods of classes and traits |
| `ClassesProps`, `ClassesProofs` | properties, proofs | what classes promise |
| `ImportSpec` | abstract specification | bodies run once, nested |
| `Import` | specification | search, registry, bodies, unwinding |
| `ImportProps`, `ImportProofs` | properties, proofs | what importing promises |

Definitions introduced by a comment that begins with "Faulty:" are what a
plausible bug would make of the definition they are named after.  No
specification uses them: substituted for the real definition, each makes TLC
report the property it was written for, which shows that the property says
something about the code.

### Immix: the heap

| Model | Code |
|---|---|
| `chunks`, `chunk_cursor`, `block_cursor` | `BlockAllocator::chunks_`, `chunk_cursor_`, `block_cursor_` |
| `status`, `lines`, `objects` | `Block::status_`, `lines_`, `objects_` |
| `block`, `cursor`, `limit`, `hole_start_line` | the allocator's `HoleFinder` |
| `gc_soon` | the flag set by `blocks_left` (`gc.cpp:130-137`) |
| `pc`, `req` | where the one thread is, and the argument of `allocate` |
| `live`, `to_mark` | the reachable objects, and those the trace has not come to |
| `Request`, `Bump` | `GC::allocate`, `HoleFinder::bump` |
| `NextHole`, `BlockDone` | `find_hole` in the block at hand |
| `NextInChunk`, `NextChunk`, `AddChunk`, `OutOfMemory` | one round of `get_block`, with the `reset` that follows it |
| `StartCollect`, `MarkObject`, `Sweep` | `GCImpl::collect`: `clear_lines`, `mark_address`, `sweep_blocks` and `reset` |

A loop of the allocator is split into a step per round, so that its termination
can be stated; the VM itself has one thread and nothing runs in between.  The
set of reachable objects is the environment's: the program may drop any object
at any time, and the trace marks exactly what is reachable.  Whether the tracer
really visits all of it is not a question about the heap; that is `GCTrace`.
Objects carry their place and size and no contents.

`HeapSpec` is what the VM wants from a heap: a grant shares no byte with a
reachable object, and objects stay where they are.  Collections do not occur in
it.  `ImplementsHeap` maps `live` and `req` to themselves and everything else to
nothing, so each collection has to be a stuttering step.

### GCTrace: what a collection sees

An object has a kind and fields, a field standing for one pointer or for one
element of an array.  `Followed` lists, per kind, the fields `walk_pointers`
looks at, `Passed` those it does not: a method's closure, the file and lines of
a code object, the method table of a class or trait (its entries are followed,
the table itself is not), the traits of a class, the class of an exception, the
target of a long return.  `RootsScanned` are the roots: globals, registers, handles
and names always, and the frames only while there is one, since the loop of
`collect` goes down from the first frame while it is not below the last
(`gc.cpp:494`).  `Run` makes a frame with a closure of its own; nothing else may
hold that closure.

The program makes objects, sets fields, loads, calls and returns.  What it can
come to (`Reachable`) is therefore more than what a collection sees (`Seen`),
and memory a collection passed over is only reused while the program cannot
come to it: where the code frees what is still in use, that is a fact about the
roots and fields above and the model says nothing of what follows.  The mark
alternates between 1 and 2 and is never cleared, so that an object one
collection missed may carry the mark of now from two collections ago.
`revived` records that such an object came back into sight.

### HandleScopes

`sets` are the `HandleSet` arrays with their place in memory and their position;
`scopes` the open `HandleScope`s with `set_` and `old_`; `handles` is a history
of the slots each open scope has given out.  `Open`, `Add`, `AddToNextSet` and
`Close` are the constructor, the two branches of `add`, and the destructor;
`Pulled` is `HandleSets::pull`.  Addresses are kept, since the destructor stores
a position of one array in another: whether that is harmless depends on where
`malloc` has put them.

### Interp and Control: transfer of control

| Model | Code |
|---|---|
| `stack[i].kind` | who called: the code of a method, a lambda, a body, or a kind of native function |
| `stack[i].es` | `VM::run`'s `es` (handlers registered by REGE) |
| `closures[c]` | `Closure::parent_`, `return_to_` |
| `ret` | the OOP a C++ call has returned: value, exception, long return; or how far `Method::return_to` has come |
| `got` | what the activation is handed when it goes on: nothing, a result, or a handler's address with the exception |
| `home` | history: the method activation around each closure's code |
| `CallCode`, `CallNative`, `RET`, `REGE`, `POPE`, `RAISE`, `LRET` | the instructions |
| `Seek`, `SeekFails` | the rounds of `Method::return_to`, and its `check(c)` |
| `ReceiveValue`, `ReceiveException`, `ReceiveReturn` | `check_unwind` |
| `NativePasses`, `EqualGoesOn`, `ConvertAborts` | what native functions do with a call that unwinds |
| `EndOfMain` | `main` and `unwind_value` |

The program is arbitrary: at each step the running activation executes any
instruction the compiler can emit there, and may call any code whose closure
exists, whether or not its activation still does.  Registers, operands, method
selection and jumps inside an activation are left to `Machine`, and so is what
RAISE does with a value that is neither an exception nor a string.  Native
functions are of three kinds, found by reading each one that calls back: most
return an unwinding result as it is; `==` of lists and tuples tests it for truth
and goes on; a conversion (`as_string`, `int_cast`) checks its type and aborts.

`Control` is the same program with every transfer a single step: to the
innermost handler, or out of the method a lambda was written in, or stopped by a
native function of the last two kinds.  The refinement mapping in `InterpProps`
shows the stack as it will be once the unwinding has stopped
(`LanguageStack`, `LanguageGot`), so the first C++ return of an unwinding is the
jump and the others stutter.

### Compiler, Machine and Meaning

| Model | Code |
|---|---|
| `Ast` | the nodes of `ast.hpp`, each a record with its children and line |
| `Tracker` and its operators (`ScopeTracker`) | `scope_tracker.cpp`: `Scope`, `Local`, `LocalMap`, the `visit` of each node |
| `Drive` and its operators (`Compiler`) | `drive` of each node (`ast.cpp`), `State::pos`, labels, string and keyword tables |
| `NewCode`, `ToCode` | the constructor of `Code`, `State::to_code` |
| `Fill`, `LoadCode`, `CanBeSaved`, `Runnable` | `Code::save` and `Code::load`, and what `main` runs |
| `regs`, `frames`, `closures`, `methods` (`Machine`) | the register stack, `VM::run`'s activations, `Closure`, `Method` |
| one action per kind of instruction | the cases of `VM::run` |
| `ReorgArgs`, and the steps after a return | `reorg_args` with `run_kw_method`, `check_unwind` |

`Compile` is the code the compiler makes of a tree, byte for byte where a byte
is an operand; `Machine` runs it.  A callee's registers begin at its caller's
arguments, as in the code, and what a call may have overwritten reads as
`JunkV`.  A message that no method of the program answers goes to the *world*,
which returns nil, returns a new object or raises.  Keywords are sorted before the
number of arguments is looked at, so a call that has the wrong one has its
registers changed all the same (`CallDefWrongArity`).  Two checks of the VM end
the process (`Stop`): a return that no method surrounds (`ReturnStops`,
`method.cpp:38`), and RAISE of a value that is neither an exception nor a string
(`RaiseStops`: `Exception::wrap` asks it for its string, and the check of
`oop.hpp:237` fails).  The programs raise 7 inside a `try`, and what the world
answers, which may be nil or an object; `Meaning` has them stop there, with no
handler asked.

Between the two stands what the VM takes for granted in the code it runs, and
nothing in it checks: `WellFormed` (`MachineProps`).  Each instruction is one,
lies within the code and leads to places where another begins; the handlers
registered behind it are those of the place it leads to, whichever way one comes
there; a POPE finds a handler; a LOADC names a code there is.  That the compiler
makes such code is checked (`CompilesToWellFormed`), and what follows from it is
proved for any code, in any world.  `Machine` does not know the compiler: a code
is found by its path, the indices of the LOADCs that lead to it.

`Meaning` reads the tree itself, by recursion over it, with environments in
place of registers and closures, given the answers the world gave.
`RunsAsWritten` compares the two at the end of an execution: the same messages,
with the same receivers and arguments in the same order, and the same end.  The
code that runs is that of the source, or, when it can be saved, what loading
makes of the saved file; a call that mixes positions and keywords cannot be
saved (below).

### Grammar, Lemon, Parser and Lexer

`Grammar` holds the rules and precedences of `parser.lm`.  `Lemon` makes the
tables of them as `lemon.c` does: first sets, item sets and their merging,
propagated lookaheads, actions, the resolution of conflicts by precedence, the
default reductions.  `Parser` drives the tables as `lempar.c` does: `Shift`,
`Reduce` and `SyntaxError` are `yy_shift`, `yy_reduce` with the action of the
rule, and the branches of `Parse`; `NextToken` is the loop of `Parser::parse`.
`ps` is the `ParserState`: `Actions` says what the action of each rule makes of
it, with the contexts and argument lists that empty rules set aside.  The tables
are constants of `Parser`, so that what is proved of the driver is proved of any
tables that are those of an automaton (`TablesAssumption`); `MCParser` gives them
the ones `Lemon` makes.  It also writes a tree as the tokens of a text, so that
the parse of it can be compared with the tree.

What `Parser::parse` answers is not yet whether the text is a program: an unknown
character ends its loop with no syntax error noted, and it answers true with no
tree (`parser.cpp:575`).  `Compiler::compile` refuses both that and an answer of
false, and `Compiles` is what both let through.

`Lexer` goes through a text character by character: `source` is `buffer_`,
`pos_` and what is left in `file_`, `NextStr` and `NextC` are `next_str` and
`next_c` with the refill of the buffer.  A loop of the code (spaces, comments,
names, operators, strings) is a step per character.

### Tables, Chains, Classes and ClassSpec

A method table is the array of chains it is (`Tables`): `Added` is `add`, `Find`
the lookup, `NextEntry` a step of the iterator of `uses`, including the word it
reads behind the array.  `Chains` has the walk through superclasses and the
classes the VM begins with.  The actions of `Classes` are the builtin methods a
program calls: `new_subclass` (with the metaclass), `add_method`,
`add_scope_method`, `alias_method`, the making of traits, `uses_trait` with one
trait method per step, `run_body` and its end, `new_instance`.  What a method
answers is a choice of nil, an unwind and its receiver.

`ClassSpec` has no tables: a class has at most one definition of a name, and
using a trait fills each gap, as seen from the class through its superclasses,
with what the trait offers.

### Import and ImportSpec

`stack` holds the calls of `import` and `load` under way and the bodies they
run, `modules` the registry, `objects` every module made and how its body ended.
The search of the load path is a step per directory; between two steps files may
come and go, since other processes share the disk.  A body imports, loads,
rescues or raises as it likes.  `ImportSpec` knows only names and bodies: a body
begins once per name, and the body that ends is the one that began last.

## What is checked

A star marks a property that is also a theorem.

| Run | Properties | What it shows |
|---|---|---|
| `heap` | `SafeHeap`\*, `NoOverlap`\*, `MarkInRange`\*, `ImplementsHeap`\*, `GarbageIsReclaimed`\*, `HandedOnce`\*, `GrowthIsMeasured`\*, `ReturnsToProgram` | every order of allocations, drops and collections on up to three chunks of two blocks |
| `control` | `SoundControl`\*, `ImplementsControl`\*, `ReturnsSeekHome`\*, `UnwindEnds` | unwinding call by call adds up to the jumps of `Control`, and ends; a return in a lambda finds its own method's activation |
| `handles` | `HandlesSound`\*, `HandlesAreRoots`\* | the collector scans the handles in scope, until a scope is closed that had outgrown its array |
| `collected` | `KeepsWhatItSees`\*, `CollectionEnds` | collections of what programs build with up to six objects |
| `compiled` | `RunsAsWritten`, `CompilesToWellFormed`, `ReadsWhatWasWritten`, `HandlersMatchPlace`\*, `LineOfSend` | compiled and reloaded code is fit to run and does what the tree says, whatever the world answers |
| `parsed` | `ParsesBack`, `CompilesWhatIsWritten`, `StacksBalance`\*, `ReducesItsHandle`\*, `SendsHaveTheLineOfTheirReceiver`, `Ends` | a text is read as the tree it was written from; of a wrong text nothing is compiled that leaves out a part of it; the parse ends |
| `lexed` | `GivesTheTokens`, `LinesAreTrue`\*, `Ends` | tokens and their lines, wherever the end of the buffer falls |
| `classes` | `TypedMaps`\*, `DescendantsUnderstand`\*, `CheckedTraitsAreMet`\*, `NewPassesUnwindsOn`\*, `ImplementsPromise`\* | what programs make of classes and traits through the builtin methods |
| `imported` | `BodiesUnderWay`\*, `OneModulePerName`\*, `ImplementsImports`\*, `QuietFilesAreFound`\*, `Ends` | imports in circles, after failures, with load in between, while files change |
| `scan_assertion`, `captured_op`, `walks_code` | `ScansHandles`, `RunsAsWritten`, `OnlyMeetsObjects` | each a disagreement, below: TLC finds the property violated |

Bounds, and why they are enough:

- Heap: 4-byte lines, five to a block, headers of two bytes, two blocks to a
  chunk, three chunks, requests of 1 and 5 bytes.  This keeps the relations that
  matter: a header shorter than a line, bodies shorter and longer than one,
  several holes in a block, two blocks in a chunk (`add_chunk` starts at block
  1) and three chunks (a first, a middle and a last).  `MaxLive` = 2 bounds
  reachable objects, never allocations: memory is recycled without bound.
  `MaxSeen` = 1 bounds how often an object is met again by the trace.
- Control: five activations and four closures, one of them the file body's, so
  three calls of bytecode and a native function between: a lambda in a lambda in a
  method, and a method, the same again and a lambda of the first.  An activation
  has at most one handler, and all have the one address and value: the code tells
  handlers of an activation apart only by taking the last, and
  `InterpImplementsControl` is for any number of them.
- Handles: arrays of two slots, three of them in any order of addresses, four
  scopes of up to three handles: a scope can fill one array, be followed by a
  scope in the next, and be closed in any state of both.
- Collections: three objects are the method, code and closure every program
  runs with, so three are left for what it makes of two kinds, one with
  settable fields (a dictionary) and one with a pointer that is not followed (a
  long return); one register and up to two activations; collections without
  bound, so that marks of two collections ago come up.  The collections that come
  to an end are those in which no `Code` is met (below), in programs two
  activations deep, whose frames are not scanned.
- Compiled programs: the ones of `vm-test`, and families that nest two
  statements in each of the forms that decide where control goes, lambdas in
  lambdas whose names capture, shadow or assign each other, two expressions in
  each kind of expression, and the same laid out over lines.  The world is asked
  5 to 40 times, enough for each program without a loop to end.  32 registers
  hold every one of them (24 the one of `captured_op`).
- Parsed texts, about 3,500: the ones of `vm-test`, every kind of expression and
  statement inside every other, chains of two and three operators without
  parentheses, in statements and in arguments, and texts that miss a token or
  hold one that does not belong.  Some of these last compile, as what they then
  say, and some are answered with true and no tree.  The stack is the 100 entries of the generated parser, and no text comes
  near them.
- Lexed texts: each lexeme behind another, each token behind comments, numbers,
  and all texts of three characters out of twelve that begin tokens.  Buffers of 8
  to 12 characters put their end at every place of a token; one of 40 holds the
  whole text.
- Classes: three names, `allocate`, `initialize` and one more, of which two have
  one hash in a table of two chains; one trait and one body at a time.  `MaxMade`
  = 5 bounds the classes of the program and the entries of all tables together, two
  of which are there from the beginning.  That leaves three things to be made, in
  any mixture: two classes, one below the other or side by side, and a definition
  on either; a class, what its checked trait sends, and a definition after the
  check; a class and a trait of two methods, so that the iterator of `uses` makes
  two steps, in one chain or two.  A definition in the place of another takes no
  room, and neither does what a trait gives, so that entries of a chain of two are
  replaced.
- Imports: two names, two directories, a file that does not compile, a file that
  is loaded, three modules, one change of the files; `b` makes one call, `a` and
  the script two: circles, repeats and failures come up in each other.

Deadlock is checked for `parsed`, `lexed`, `classes` and
`imported`, whose ends are steps of their own.  It is not for the others: a program ends, `mmap` may
fail, and the bounds stop a behaviour as well.

Fairness is weak fairness of the allocator and the collector in `Immix`, of
`CheckUnwind` in `Interp`, of the steps of a collection in `GCTrace`, of
`Interpret` in `Import`, and of the lexer's and the parser's steps.  All of this
code runs in the VM's only thread with nothing to wait for.  Nothing is assumed
of programs, which may stop or loop at any time, save in `imported`, where a body
ends after a bounded number of calls.

## What is proved

| Theorem | Property | In |
|---|---|---|
| `HeapIsSafe` | `SafeHeap` | `ImmixProofs` |
| `ObjectsNeverOverlap` | `NoOverlap` | `ImmixProofs` |
| `MarkingStaysInRange` | `MarkInRange` | `ImmixProofs` |
| `BlocksAreHandedOnce` | `HandedOnce` | `ImmixProofs` |
| `NewChunksHaveRoom` | `GrowthIsMeasured`, when an empty block has room for every request | `ImmixProofs` |
| `GrowthFollowsTrigger` | `GrowthIsAnnounced`: no chunk is added before a collection was asked for | `ImmixProofs` |
| `EmptyBlocksComeBack` | `GarbageIsReclaimed` | `ImmixProofs` |
| `ImmixImplementsHeap` | `ImplementsHeap` | `ImmixProofs` |
| `CollectionsKeepWhatTheySee` | `KeepsWhatItSees` | `RootsProofs` |
| `ScopesAreNested` | `HandlesSound` | `RootsProofs` |
| `HandlesAreTheRoots` | `HandlesAreRoots` | `RootsProofs` |
| `ControlIsSound` | `SoundControl` | `InterpProofs` |
| `LambdasReturnHome` | `ReturnsSeekHome` | `InterpProofs` |
| `InterpImplementsControl` | `ImplementsControl` | `InterpProofs` |
| `StaysOnInstructions` | `StandsOnInstruction`: an activation goes on where an instruction begins | `MachineProofs` |
| `HandlersFollowPlace` | `HandlersMatchPlace` | `MachineProofs` |
| `MachineIsInductive` | `MachineInv`, of which the next two are parts | `MachineProofs` |
| `CallersDoWait` | `CallersWait`: who has called waits at its send | `MachineProofs` |
| `MethodsDoStay` | `MethodsAreThere`: every method a value names has its code and closure | `MachineProofs` |
| `KeywordsReachTheirParameters` | what `ReorgArgs` does to the registers | `MachineProofs` |
| `CallersKeepTheirRegisters` | `RegistersStand`: no step changes what lies in front of an activation's window | `MachineProofs` |
| `AddedIsAnUpdate` | a lemma on `Added` and `Find` | `ClassesProofs` |
| `TablesStayMaps` | `TypedMaps` | `ClassesProofs` |
| `DefinitionsAreFound` | what `add_method` does to what is found | `ClassesProofs` |
| `SubclassesUnderstand` | `DescendantsUnderstand` | `ClassesProofs` |
| `CompleteStaysComplete` | `CheckedTraitsAreMet` | `ClassesProofs` |
| `UnwindsReachTheCaller` | `NewPassesUnwindsOn` | `ClassesProofs` |
| `ClassesKeepTheirPromise` | `ImplementsPromise` | `ClassesProofs` |
| `BodiesLieInEachOther` | `BodiesUnderWay` | `ImportProofs` |
| `AnswersAgree` | `OneModulePerName` | `ImportProofs` |
| `ImportKeepsItsPromise` | `ImplementsImports` | `ImportProofs` |
| `FilesAreFound` | `QuietFilesAreFound` | `ImportProofs` |
| `EveryLineIsTrue` | `LinesAreTrue` | `LexerProofs` |
| `RulesLieOnTheStack` | `ReducesItsHandle` | `ParserProofs` |
| `StacksStayBalanced` | `StacksBalance`, while the stack is within its depth | `ParserProofs` |

The only assumptions are those of the modules on their constants: a header is
shorter than a line and a block has two lines besides the reserved one
(`LayoutAssumption`), a chunk has two blocks or more and no object is empty
(`HeapAssumption`), arrays of handles do not touch (`PlacesAssumption`), a table
has a chain and the hash of a name is one of its chains (`CapaAssumption`,
`SlotAssumption`), 0 is no method (`ValuesAssumption`), null is no object
(`GCAssumption`), a keyword and one more character fit in the lexer's buffer
(`SizesAssumption`), a text ends in a newline (`SamplesAssumption`), the parser's
tables lead from one set of dotted rules to the next (`TablesAssumption`), and the
types of the bounds (`MaxRegAssumption` among them).  The theorems about the
machine are about `Execution`, which begins as `main` does with a code that is
`WellFormed`; `compiled` finds every code it runs to be that.  So the theorems of the heap
cover 128-byte lines, 256 to a block, and 320 blocks to a chunk, as well as the
five-line blocks TLC explores.

*The heap.*  `NoOverlap` is not inductive: that a new object overlaps no old one
depends on the hole it is put in, and the line table that defines holes knows
nothing of objects born since the last collection.  `SafeHeap` adds what bridges
that gap: the bytes between cursor and limit are free (`BumpRegionFree`); every
object in a block the allocator has yet to reach has its lines marked, and every
object in the present block is marked or behind the cursor (`AheadIsSettled`);
and the cursors and objects are where they belong (`Placement`).  Lines are
marked for bodies only.  That a header is safe all the same follows from the
limit, which lies short of the end of a hole by all but one byte of a line, and
from headers being shorter than a line.  `HandedOnce` needs where the walk over
the blocks has come to (`WalkInv`).

`GarbageIsReclaimed` is about the sweep alone, but only with `MarkInv` is the
line table right when it comes to it: while marking, a block without a reachable
object has nothing in use but line 0 (`EmptyIsBlank`).  In the other direction,
the body of an object never lies in line 0, so a block with an object has two
lines in use at least, and the sweep's count of lines tells the two apart.

`NewChunksHaveRoom` needs that a block no chunk has yet is as its constructor
leaves it (`UntouchedBehind`), through sweeps and marking: it then has one hole,
from line 1 to its end (`WholeBlock`).  The hypothesis is needed, since the code
lets larger requests come this far (below).

*A collection.*  `Marks` is the invariant.  Between collections nothing in use
carries the mark the next one gives.  During one, everything in use has it, the
roots are in use and what is in use is in sight; what is in sight and has the
mark is in use, and the fields of what was walked lead to nothing that is not.
When the stack is empty, the lines in use are a set that holds the roots and is
closed under the fields that are followed, so that all of `Seen` lies in it.
Marks left by earlier collections are what makes this hard: the last two parts
hold only until an object that was missed comes back into sight (`revived`).

*Handles.*  Until a scope that has outgrown its array is closed, a scope still
in the array it was opened in owns exactly the slots from its `old_` to the
position; outer scopes own none of them (`Nested`).  Closing such a scope
therefore frees its own handles and no other.  The condition is needed: the run
`scan_assertion` shows what happens behind that point.

*Control.*  `SoundControl` says that walking parents from a closure leads to
`home`, that only a `def` has the `return_to` mark, and that a search is still on
its way home.  The refinement needs more about the stack: the landing of an
unwinding exists, is unique, and does not change while activations above it are
popped.  Then each action maps to an action of `Control` or a stutter.

*The machine.*  `StandsOnInstruction` and `HandlersMatchPlace` say nothing of who
called whom, so neither is inductive: what an activation does when a call
returns depends on where it waited.  `MachineInv` adds that it waits at a send
(`CallersWait`), which a value leaves by the instruction behind it and an
exception by the handler registered last.  That the handlers left then are those
of the handler's place is what `WellFormed` asks of sends and RAISE; for all
other instructions it asks it of their successors (`PlainStep`, `JumpStep`).  A
call needs code to run: `MethodsAreThere` follows the values that are methods
through registers, slots, attributes, arguments that are sorted and what is
returned, back to the LOADC that made each of them.  The places where
instructions begin are a recursive function of the code, of which only the
equation is used.

`KeywordsReachTheirParameters` is about `ReorgArgs` itself: which register holds
what after n of the parameters were copied (`Copied`, by the first n for which
that would fail), and what is copied back.  Its hypothesis is needed: the copies
begin behind as many registers as there are parameters, so that with more
keywords than that the first copies fall on values that are still to be copied.

`CallersKeepTheirRegisters` is an action property no run lists (`RegistersStand`).
The windows of registers overlap, so that no activation owns what it sees; what
holds is that a window begins behind that of its caller (`WindowsNest`, with
`MachineInv` inductive), and that the running activation writes at or behind its
own beginning, since operands are bytes and the copies of `ReorgArgs` and the self
of `run_body` lie behind the receiver (`StepInWindow`, one lemma for each kind of
step).  Of its own arguments a caller keeps nothing: they are the callee's.

*Classes.*  `TypedMaps` is inductive: a name occurs once, in the chain of its
hash.  From it `Added` is an update of a map (`AddedIsAnUpdate`), and each of the
builtin methods a step of `ClassSpec`; a step of the iterator of `uses` needs
that the entries it has passed were given or not needed (`Visited`).  The walk
through superclasses is a recursive function, of which only its equation is used
(`NearestIs`, `AboveIs`), with the smallest class for which a claim fails in
place of an induction.  `SubclassesUnderstand` rests on `Lineup`: the metaclass
of a class has the metaclass of its superclass as superclass.
`CompleteStaysComplete` rests on nothing that is understood ever being lost
(`Complete` is the invariant).

*Import.*  With `Registry` - a registered module has the name it is registered
under, and every module but that of `load` is registered - `BodiesUnderWay` is
inductive.  `AnswersAgree` adds that what a name has been answered with is what
is registered (`GivenOfRegistry`), `FilesAreFound` that a quiet search has passed
only directories without the file (`QuietSearch`).

*The lexer.*  The invariant `Inv` says that there is an n such that n characters
of the text were taken, and what is buffered and what is in the file, put
together, are the others (`Points`).  Filling the buffer keeps n (`FilledPoints`),
the character `next_c` gives is the next of the text (`NextCPoints`), and all but
three steps take characters that are no newlines (`Reads`, `Keeps`): a keyword has
none, and neither has what `strtol` takes, however far it gets (`StrtolEnds`).
The three are a newline, a string, in which lines are not counted, and the end of
a comment.  The last character of a file is mostly not given (below), and a
comment in the last line ends because of that: it was its newline, as nothing else
can be last (`NulMeansLast`).  Without `SamplesAssumption` a comment that ends
the file would be counted as a line too many.

*The parser.*  Neither property is inductive, since nothing in them says why what
is below the top of the stack fits the rule.  `Linked` does: each entry of the
stack is one that the tables lead to from the one below it.  `TablesAssumption`
gives a state's configurations, rules with a dot, and asks of the tables what
lemon's construction is for: a symbol left of a dot is the one that led to the
state, with the dot one place to the left in the state below; what is reduced has
its dot at the end; what is begun has a state to go to.  Lemon's closures satisfy
it, for its tables as they are after conflicts were resolved and actions made
defaults: TLC evaluates it with `parsed`.  A descent from the dot at the end then
finds the right-hand side on the stack (`HandleOnTop`).  The smallest place where
that would fail stands in for an induction.

For `StacksStayBalanced` each of the 162 rules is shown to keep the books
(`GrammarFacts`): what sets something aside reads none of the symbols that stand
for it and gives one, what takes something back reads one and gives none, and all
others hand on as many as they read.  A rule added to the grammar that does not
is one for which the proof fails.  `Balanced` adds that an empty stack has
nothing set aside unless the text was wrong, when no token is read any more; that
needs `CanGoOn`, by which the start symbol is only accepted with nothing below it.
The hypothesis is needed: an overflow empties the stack and keeps what was set
aside (`Overflows`, `lempar.c:478`), and no error is noted.

Only model-checked:

- `ReturnsToProgram`, `UnwindEnds`, `CollectionEnds` and the three `Ends` are
  liveness properties, out of the prover's reach.
- `RunsAsWritten`, `CompilesToWellFormed`, `ReadsWhatWasWritten` and `LineOfSend`
  of `compiled`, `ParsesBack`, `CompilesWhatIsWritten` and
  `SendsHaveTheLineOfTheirReceiver`: the compiler,
  `Meaning` and the comparison of trees recurse over trees (RECURSIVE operators,
  about which tlapm proves nothing), and what they are correct for is induction
  over data.  For the same reason that lemon's construction always gives an
  automaton is checked for this grammar, as `TablesAssumption`, and not proved for
  all.
- `GivesTheTokens`: the tokens a text should give are part of the sample, so that
  for any text it takes a definition by recursion over the text.

## Where the code and what it says of itself disagree

Shown by a run:

- `handle_scope.hpp:22`: the destructor gives the latest array a position of the
  first, after which the collector scans words outside the arrays; the assertion
  at `gc.cpp:220` is about those (`scan_assertion`).
- `scope_tracker.cpp:240`: `a += 4` in a lambda makes a local of a captured `a`:
  the sum starts from a register nobody wrote, and the variable keeps its value
  (`captured_op`).
- `gc.cpp:280`: the loop over the arguments of a `Code` asks whether the tuple is
  empty and not whether it has ended, and walks on until a word fails the
  assertion at `gc.cpp:220`.  A collection that meets a `Code` ends there, that
  is any at depth one (`walks_code`).

Read, and kept in the model as the code has them, without a run of their own:

- Heap.  `immix.hpp:831`: `limit` is said to be one byte beyond the end of the
  hole; it is the first byte of the hole's last line plus one.  `:365`:
  `objects_` counts references, not objects.  `:93`: an object of
  `cMaxObjectSize` never fits, and allocating one adds chunks until `mmap` fails.
  `:682`, `:738`: a chunk is added "if necessary"; block 0 of every chunk but the
  first is passed over until the next collection.
- Collector.  Frames are scanned at depth one only (`gc.cpp:494`); the fields in
  `Passed` are not followed; an object that was missed keeps its mark.
- Control.  `method.cpp:38`: `check(c)` fails for a return in a lambda that no
  method surrounds.  `main.cpp:182`, `oop.hpp:301`: `check(type_ == eUnwind)`
  fails when a lambda returns after its method has ended.  `exception.cpp:39`:
  raising anything but an exception or a string aborts, whatever handlers there
  are.
- Compiler.  `ast.cpp:1076`: an assignment operator on an attribute emits IVR
  with its operands swapped.  `ast.cpp:1133`: a lambda with a captured parameter
  and a local gives the local's register to a temporary (`MCCompiler` leaves such
  lambdas out).  `code.cpp:153`: a call that mixes positions and keywords runs as
  source and cannot be saved.  `Compiler::optimize` and the cascade and
  attribute-load nodes are used by nothing.
- Calls.  `method.cpp:53`: a call without keywords must give the optional
  arguments too.  `vm.cpp:364`: the copies of sorted arguments begin behind the
  parameters, on top of the arguments that a call with more keywords than
  parameters still has to give.  `vm.cpp:399`: the arguments are sorted before
  their number is checked.
- Parser.  `parser.lm:15-18` declare `+` and `-` left associative and below `*`,
  but the right side of a statement's operator (`:232`) takes every operator that
  follows: `3 + 4 + 5` is `3 + (4 + 5)`.  `parser.lm:154-158` read the operator as
  `O.cs`, which the others read as `O.s`.  `lempar.c:478`: a text nested deeper
  than 100 empties the stack without an error.  `parser.cpp:575`: an unknown
  character ends the text, `parse` answers true, and there is no tree.
  `parser_state.cpp:92` lets two
  parameters have one name.
- Lexer.  A token behind comments carries the line of the first of them
  (`parser.cpp:77`).  A keyword followed by a digit is read as the keyword
  (`trait2`); a
  number whose digits straddle the end of the buffer becomes two
  (`parser.cpp:95`); the last character of a file is never given, which nobody
  notices while it is a newline.
- Classes.  `method_table.hpp:60`: the iterator reads the word behind the array.
  `method_table.cpp:16`: the constructor clears none of its entries.
  `class.cpp:188`: `new` goes on with an `allocate` that unwound, but the caller
  gets an unwind if `initialize` does or `allocate` did.  Traits used outside a
  body are never checked, and `new_subclass` binds names in `lang` whoever calls
  it.
- Import.  Only the last dot of a name becomes a slash; the path is used after it
  was freed (`import.cpp:117`); a module is registered before its body runs, so a
  circular import gets a part of it and a failed one stays registered.

## What is not modelled

- `get_free_block`, `evacuate_block`, `resync_position`,
  `SingleBlockAllocator`, pinning, forwarding: no caller in the VM.
- The contents of strings, lists, tuples and dictionaries; what they print.
- The 4096 entries of the register and frame stacks (`vm.cpp:43`), which nothing
  checks: the models bound their stacks instead.
- The bytes of a saved file (protobuf); lemon's reading of the grammar's own text
  and its printing of tables as C.
- Cimple (a build-time generator), the disassembler (a printer), the `os`
  builtins (wrappers of system calls), generated and vendored code.
- The components of a program are modelled side by side: the machine's values do
  not lie in the heap's memory, and a method the machine calls is not looked up
  in the tables of `Classes`.  What one asks of the other is an interface of its
  model: reachable objects for the heap, the world for the machine.

## Plan

What remains, in this order:

1. `ReadsWhatWasWritten` as a theorem for any code that keeps to a further
   condition: in front of each instruction, the registers it reads were written
   on every way there, and behind a send those of the callee were not.  It is a
   dataflow condition on code like `WellFormed`, checked for what the compiler
   makes.
2. What the tokens of any text are, as a function of the text, in place of the
   samples of `GivesTheTokens`.
3. Lists and tuples with the blocks they are handed to: `each` while the block
   pushes onto the list, `find_all` with its element in a register the block's
   own calls lie behind, `==` with an element whose `==` is the program's.
