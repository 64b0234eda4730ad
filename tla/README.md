# A verification project for cnegative

cnegative is an ahead-of-time compiler written in C: it loads a graph of source
modules, type-checks them, lowers them to a typed IR, optimises it, prints LLVM
IR together with a runtime, and drives clang to an object file or a program.
This directory holds TLA+ modules that model its parts, TLC configurations that
check them on small instances, and TLAPS proofs of what matters most for every
instance. `PROJECT.json` maps every definition to the source lines it stands
for.

## 1. Inventory

| part | state it keeps | operations | hard behaviour | what makes it correct |
|---|---|---|---|---|
| tracking allocator, `support/memory.c` | live list and table, quarantine list and table, counters, guards around each block | alloc, calloc, realloc, realloc_mul, strdup, free, dump_leaks, destroy | address reuse, table growth and eviction in the middle of a call, two limits at once, damage found only later | lookups exact, storage owned once, counters true, damage never lost, verdict depends only on the blocks |
| lexer, `lex/lexer.c`, `asm/scan_*` | offset, line, column, token list | tokenize | bytes it cannot move past | terminates, every byte in one token or one diagnostic |
| parser, `parse/parser.c` | index into the tokens, the C stack | one function per construct, two recovery loops | NULLs through a dozen callers, progress of every loop | terminates, nothing lost without an error, recovery loses no more than it must |
| module loader, `support/project.c` | modules with a `loading` flag, the root list, the diagnostic bag all modules share | project_load, load_module, resolve_import, destroy | cycles, diamonds, two files for one name, one module's error gating another | each module once, no cycle accepted, imports before importers |
| type checker, `sema/typecheck.c` | scopes, proofs that a result is ok, zone depth | check of each construct, constant evaluation | stale proofs, constant cycles | a value is read only where ok is known |
| lowering, `ir/lower.c` | current block, defer frames, zone depth | lower of each construct | early exits through several scopes | each deferred statement once per exit, innermost first |
| optimiser, `ir/optimize.c` | - | fold expressions, prune blocks | machine arithmetic | same result as evaluation |
| LLVM printer, `backend/llvm_*.c` | scopes, whether the block has ended, counters | print of each node | names bound by the place they are printed at | a name means what it meant in the source |
| toolchain driver, `backend/toolchain.c`, command line, `cli/main.c` | temporary files, the output path, exit status | check, ir, llvm-ir, obj, build | a stage that fails, two scans that must agree | no stage after an error, no file left behind, the exit status tells what is at the output path |
| diagnostics, sources, `support/diagnostics.c`, `source.c` | bag of diagnostics | emit, has_error | shared by all modules | an error is never dropped |
| IPC runtime, `backend/native_runtime.c`, `stdlib/ipc.c` | children: pid, pipe ends, whether waited for | spawn, write, write_line, request_line, read, read_line, stdin_close, wait, kill, release | two processes over bounded pipes, inherited descriptors, process ids used again | answers belong to requests, no descriptor lost, calls return |
| terminal runtime, `stdlib/term.c` | saved settings, resize flag and last size, paste buffer, cell buffers | raw mode, read_event, read_event_timeout, read_paste, string width and decoding, buffers, render_diff | a signal between any two steps, timeouts inside a sequence, a renderer that trusts its own record of the screen | keys decoded as pressed, settings restored, resizes reported, screen as asked |
| network runtime, `stdlib/net.c` | none but the descriptor table | connect, listen, accept, bind, send, recv, recv_from, close | failure after any call, numbers used again | every descriptor closed or returned |
| strings and zones, `stdlib/core.c`, `strings.c`; buffers, `bytes.c`, `lines.c`, `text.c` | list of owned strings, lists of zone blocks; length, capacity, storage | copy, free, zone enter/alloc/release; push, append, set, insert, remove, build, clear, free | every allocation may fail, growth moves data, address reuse | released once, never outlived, contents kept |

How they interact: `main.c` runs the loader, then sema, lowering, optimiser and
backend in that order over one allocator and one diagnostic bag; the bag's
error count is the gate between stages. Everything the compiler allocates goes
through the tracking allocator, and a misuse of it aborts the process. The
compiler is a single thread and starts other processes only to run clang. The
runtime parts are linked into compiled programs; they meet the outside world
(children, signals, sockets, terminals), and so concurrency.

PROJECT.json lists the hazards of this code, each at its line, with the
properties that would catch it; what is not covered yet says so there.

## 2. Plan

Modules in the order of their weight.

1. `TrackedAllocator`, refining `CheckedHeap`; proofs in
   `TrackedAllocatorProofs`, sums over sets in `SetSums`. *(done)*
2. `Parser`: every parse function and both recovery loops; proofs in
   `ParserProofs`. *(done)*
3. `ModuleLoader` with the diagnostic bag; proofs in `ModuleLoaderProofs`.
   *(done)*
4. `DeferLowering` (scope exits, proofs that a result is ok), against the
   language's promise of what runs when. *(done)*
5. The runtime of compiled programs: `RuntimeHeap`, `RuntimeBuffers`, `Ipc` and
   `Net`, composed in `MCRuntime`; proofs about descriptors, calls and requests
   in `RuntimeProofs`, about strings, zones, buffers and the heap as a whole in
   `HeapOwnership`. *(done)*
6. The terminal runtime: `TermInput`, `TermMode`, `TermText`, `TermScreen`,
   composed in `MCTerminal`; proofs about raw mode, resizes, the decoding of
   keys, pastes, the walk over a string and types in `TerminalProofs`. *(done)*
7. `Build`: the commands, the error gate and the toolchain stages; proofs in
   `BuildProofs`. *(done)*
8. Left: the type checker's zone depths of assigned pointers; the lexer's
   progress on every byte; folding of constants against 64-bit evaluation.

Worth proving next: `ScreenShowsFrame` for every size of the screen and every frame,
with an invariant of the renderer's pass over the cells.

## 3. Modules

### TrackedAllocator, CheckedHeap (`src/src/support/memory.c`)

The variables are the fields of `cn_allocator`, plus the contents of the
records, the chunks the C library has handed out (`held`), and `pc`, which says
whether the program is between calls, inside the eviction loop, or aborted with
a code. Each entry point is an action named after the function; `realloc_mul`
covers `realloc` (a factor of one), `strndup` covers `strdup`. A turn of the
eviction loop is an action of its own, because damage found there aborts with
some blocks already gone. `malloc` is any placement that does not overlap a
chunk handed out, so addresses are reused as a real heap reuses them; every
allocation may also fail. `ClientStore` is the program's stray store: it may
break a guard or the poison of a released block.

`CheckedHeap` is the promise: live blocks, a window of released ones, and a
verdict on each pointer handed back. `Heap` in `TrackedAllocator` is the
refinement mapping (forget records, tables, guards and counters).

### Parser (`src/src/parse/parser.c`)

Each `cn_parse_*` function is the sequence of steps it takes, and the C stack a
stack of frames. A step that can yield NULL carries what its caller does then:
ignore it, note it and go on, return at once, return what is built, or recover.
Functions that look at the current token are written as the steps for that
token; a loop is a step that names where to go on. Tokens are kinds. The tree
is reduced to what the properties need: NULL or not, assignable or not, how
many statements and declarations were kept, and whether any piece was dropped.

### ModuleLoader (`src/src/support/project.c`, with the bag of `diagnostics.c`)

The variables are the fields of `cn_project` and `cn_module`, the bag's errors,
and the stack of activations of `cn_project_load_module` (which module, which
import next). A path is its directory, the dotted parts of its base name and its
extension; a module name is the sequence of its dotted parts; both are computed
as the code computes them, project root first, then vendor root, then base name.
(A directory whose own name has a dot in it is therefore not represented.) A
file is its list of imports and the fault that reading, lexing or parsing it
would report. The world, a file system and an entry path, is chosen in `Init`
and stays: files that change while a command runs are not modelled.

One call's work up to its first import is one step (`LoadExisting`,
`LoadConflict`, `LoadUnreadable`, `LoadSource`), each import is one
(`LoadImport`), and so is the return (`FinishModule`); nothing else runs in
between, so this loses no behaviour. `Returned` stores a call's result in the
caller's slot, or in `project->root`. Only errors are kept of the bag, because
only they gate the parser. `finished` is a history variable.

### DeferLowering (`typecheck.c`, `ir/lower.c`, `ir/optimize.c`, `llvm_text.c`)

A function body goes through four stages, and each is an operator with the name
of its function: `cn_check_function` says which bodies are accepted (scopes, zone
depths, proofs that results are ok, the return analysis), `cn_ir_lower_function` puts the cleanup of every
scope in front of each exit, `cn_ir_optimize_block` cuts what follows a return,
and the machine runs the result as the LLVM printer orders it, with one action
for each kind of statement. Names are resolved as the printer does, by the
scopes at the place where a statement is printed, and not where it was written.
Calls, and conditions about anything but results, are left open: `EmitResult`
takes either outcome, `EmitIf` and `EmitLoopTest` every way the condition allows
when `heap` is asked for the results and bools it names, and `choices` records
which. The checker's scopes carry what `cn_scope` carries: the set of results
proved ok in it, and for each immutable bool the proof its initializer makes
(`cn_build_result_proof`; the cut at 32 nested operators is left out). An
assignment forgets both in every enclosing scope, a branch adds what its
condition proves, and an if adds it behind itself when a block returns, in the
order the code does this. A body is refused by the first error; the code goes on
to look for more, but compiles nothing. `Run` reads the body under the same choices as the
language describes it; it knows nothing of frames, copies or captured scopes.
Both log events: which statement ran, on which binding, and whether the memory
behind that binding had been given back. `EmitRelease` and `Effect` stand for
the calls of the runtime and not for its code, which is `RuntimeHeap`'s.

### RuntimeHeap, RuntimeBuffers (`stdlib/core.c`, `strings.c`, `bytes.c`, `text.c`, `lines.c`)

The runtime is LLVM text inside C strings; what is modelled is that text. A heap
is a map from addresses to blocks, the list `@.cn.str_head`, and a count of the
cells the runtime links things with (list nodes, zone headers, buffer headers),
whose addresses no program sees. Every `malloc` may fail, and may hand out an
address that was just released, which matters because `cn_free_str` knows a
string by its address alone. `told`, `want` and `wantLines` remember what the
program was told or put there; the heap says what is there.

A free of a stale variable that hits another string, and an append of a
buffer's own slice that growth has moved, are things the code does not guard
against. The model takes the step, records it (`misfreed`, `misread`) and does
not follow that program any further.

### Ipc, Net (`native_runtime.c`, `stdlib/ipc.c`, `stdlib/net.c`)

One descriptor table for both; a new descriptor is the lowest free one, as POSIX
says. A call that reads, writes or waits is a sequence of system calls (`call`
says which and how far), and the children run in between. Reads are restarted
after a signal, because the runtime installs its only handler with `signal`,
which restarts them; a write that has transferred something returns short
instead (`WriteInterrupted`). Nothing handles SIGPIPE, so a write to a child that
has gone ends the program (`killed`).

A child is external: a line server that answers each line, may complain on stderr
first, may end its line with a carriage return, and may stop at any moment. It
has open what the program had open when it forked, apart from the six ends of
its own spawn (`ChildHolds`); that is why a child spawned later keeps the stdin
of an earlier one from ending. Process ids are used again after a wait.

`inStep` is a history variable: a child is in step with its requests until
something other than a complete request has been written to it or read from it,
and `RepliesMatch` speaks of requests that found it so.

### TermInput, TermMode, TermText, TermScreen (`stdlib/term.c`)

`TermInput` is the reading of events. The bytes of a key arrive with any delay
between them. `Decode` says what the loop the decoder is in makes of a byte, an
event or where it waits for the next one, with the same tables as the code;
`DecodeByte` reads the byte, and `LateByte` is the timeout in the middle of a
sequence. SIGWINCH may come between any two steps, also between the reading of
rows and columns and the clearing of the flag; `raced` records a change that falls
into that window, which the code loses. `cut` records a late byte, or bytes of
two keys read as one, after which the tail of a sequence is read as keys; a paste
that such a call has opened inherits it. `TermMode` adds raw mode, its saved
settings and the exit handler. `MCTerminal` says from the terminal's side what a
key is (`XtermKey`: typed bytes, UTF-8, cursor and numbered keys with modifiers,
SS3 keys, mouse reports), and the run checks that its table holds such keys only
(`TerminalAssumption`).
`TermText` has the two separate loops over a string's bytes (width and decoding),
the encoder, and a program's walk over a string; the constants `TextLength` and
`OddLength` bound the strings. `TermScreen` has the cell buffers and the renderer,
against a terminal (external) in which a wide glyph covers two columns and half a
glyph written over disappears.

### Build (`cli/main.c`, `backend/toolchain.c`, the scan of `llvm_text.c`)

A command runs the front end's stages, then up to four temporary files and three
uses of clang; each system call is an action with an outcome. clang-18 is tried
first and clang after a 127. A clang that fails leaves its output alone or removes
it. The program is what the compiler's control depends on: the stage that
rejects it, whether it has `main`, the built-in module it calls and where in the
IR the call stands. Both scans for such calls are transcribed as the set of
places they descend into, so that a place only one of them visits would show as
a build that fails for no reason outside the compiler. Several commands follow
each other over one output path.

The definitions named after a slip (`EvictUnverified`, `cn_free_str_head`, ...)
are the mutants each property is tried against; no action uses them.

## 4. Runs

| run | question | result |
|---|---|---|
| `allocator` | any sequence of calls and stray stores on a nine-byte heap with three records | all properties hold |
| `parser` | nine texts that use every construct, each also with any one token removed, or one of six inserted anywhere | all properties hold |
| `parser_missing_brace` | the same texts with one `}` left out | parsing does not always end |
| `loader` | every import graph of three files, faulty files, and files that compete over roots and extensions | all properties hold |
| `loader_builtin_names` | is every clash of names reported? | not with a built-in module imported later |
| `defer` | 10362 accepted functions, run with every call and condition open | all properties hold |
| `defer_return_value` | is a returned value read before the cleanup of its exit? | no |
| `result_stale_proof` | does every accepted read of `r.value` find a value? | no |
| `terminal` | late bytes, signals, hangups and failing calls while a program reads, measures and draws | all properties hold |
| `runtime` | strings, zones, buffers, children and sockets with every call failing in turn | all properties hold |
| `ipc_owned_strings` | does `free` release a string read from a child? | no |
| `build` | two commands with every file operation and process failing in turn | all properties hold |

**allocator.** Two buckets that grow to four, a quarantine of one block and two
bytes, guards of one byte, sizes 0, 3 and 4 (4 overflows with its guards), and
at most two releases between two destroys. These are the smallest values with
which a table grows while full, realloc moves a block to another bucket, each of
the two quarantine limits evicts first in some run, an eviction loop turns more
than once, and an address is live, quarantined, evicted and live again.
`LookupExact`, `StorageMatchesRecords`, `Accounting` and `QuarantineWindow` say
the data structures are exact; `DamageNeverForgotten` that a broken guard or a
store after free stays visible until some call aborts; `ImplementsCheckedHeap`
that the verdict on a pointer depends on the blocks alone. Deadlock is not
checked: an aborted process has stopped.

**parser.** `PrefixLimit` is 2 instead of 32, so that a type with one prefix
too many is among the inputs; diagnostics are counted up to 2. Deadlock is not
checked: a finished parse has stopped. `EndsUnlessStalled` says which two loops
can turn without consuming a token, and that nothing else keeps the parser from
the end of the text.

**parser_missing_brace.** With a `}` missing before a declaration, the statement
loop calls the statement parser at `const` or `fn`, gets NULL, and recovery
stops at that same token; the loop has no other exit. The compiler emits the
same diagnostic for ever. docs/spec.md says the parser recovers from such
errors; the finding quotes it.

**loader.** The worlds are: all graphs of `main`, `a` and `b` with up to two
imports each, in either order and with self-imports; all graphs with up to two
imports of `a` and `b` and one file unreadable, not lexable or not parsable; and
every subset of six files that compete for two names over the project root, the
vendor root, the importer's directory and both extensions, with three entries
and twenty pairs of import lists. Three files are enough for a self-import,
cycles of two and three, a diamond with the order of finishing in question, and
an error that stops the parsing of a module not yet seen. `VerdictIsRight`
compares the outcome with a definition that never loads anything: the files the
entry needs are a least fixed point, cycles are non-empty sets without a way
out. `AcceptedIsComplete` says what later stages rely on. Deadlock is not
checked: loading ends.

The names the run gives to vendored files differ from those docs/spec.md
promises: the vendor root lies under the project root and the project root is
tried first, so `vendor/vendorlib/echo.cneg` is named `vendor.vendorlib.echo` and
not `vendorlib.echo`.

**loader_builtin_names.** A file's name is compared with every module already
loaded, built-in ones too; a built-in module's is only compared with other
built-in ones. A project file that comes to be called `std.math` is refused
after an import of the real one and accepted before it, and then two modules
share the name. The project root decides that `std/math.cneg` gets this name,
the importer's directory that `import math;` finds it.

**defer.** The bodies have one or two compound statements inside each other,
with up to three statements in the innermost block, of every kind, and with and
without a deferred free around them; two levels are what it takes for an exit to
cross a frame it does not end in, for a zone in a zone, and for a loop whose body
leaves the function. The bodies about results declare one and a bool made from
it, put an if or a while with one of nine conditions around up to two statements
(reads, assignments, a second declaration, a return, a deferred read), and read
the result behind it, at once or under the bool. Five outcomes allow a second turn
of a loop and a way out of it. `ExitOrder` is the promise itself, and it is the
one that patches.md's "incorrect `defer` lowering across nested blocks" broke. `SameBindings` adds that
the copies mean what the original says; it leaves out bodies in which an inner
block declares a name again, because there they do not: in `let x = 1; defer
print(x); if c { let x = 2; return x; }` the copy of `print(x)` stands in the
inner block and prints 2, though lowering resolved its type with the captured
scope. No document of the repository speaks of that case. `FunctionsReturn`
ties the return analysis to the control flow that lowering and printing make.
`ValuesAreProved` ties the proofs of the checker to the values the compiled code
meets; it leaves out the three shapes of `TracksPaths`, and each of them has to
be left out, or the property fails on these bodies.
Deadlock is not checked: a function ends, or has used up its conditions.

**defer_return_value.** The cleanup is pushed before the return statement that
holds the expression. `defer free heap; return deref heap;` therefore frees
first and reads afterwards, and so does a return of `deref value` in a zone. The
documents say cleanup runs when the scope exits.

**result_stale_proof.** The checker reads a body once, from top to bottom. Behind
an if whose block returns it marks what the condition says of the other way, also
when the other block has assigned the result: `if r.ok { r = f(); } else { return
0; } print(r.value);` is accepted. The other two shapes are a loop that reads r
and then assigns it, checked with the proof from before the loop, and a deferred
read of r.value in front of an assignment. patches.md says reassignment leaves no
stale proof.

**terminal.** Four parts, explored one after the other because they share no
variable that matters. Reading: seventeen keys, one or more for each branch of
the decoder, two pressed in any order, two changes of size. Two keys are what
it takes for a late byte of one to meet the next, two changes for one to fall into
the window of the other's poll. Raw mode: four calls, enough for enter, leave,
enter and a failure. Text: every string of up to two of thirteen codes that lie
at the boundaries of the encodings and widths, and every string of up to four of
six bytes nobody encoded. Drawing: a terminal of two rows and three columns,
where a wide glyph may start in the last column and clips may reach outside on
either side. The paste buffer starts with four bytes instead of 64, so that it
grows. What the properties except is in the code: a change of size inside the
window, raw mode entered from raw mode, a front buffer that never described the
terminal. Deadlock is not checked: the program has ended, or the user is gone.

**runtime.** Six parts over one state: strings with zones, bytes and text, lines,
one child with strings, two children with a socket, sockets with strings. Four
addresses are what a buffer of lines needs while it grows with two lines in it.
Capacities start at one, so that growth happens at every second step. A pipe
holds two items, so that a text with its newline does not fit, and `max_bytes`
is one or three: shorter than an answer, and longer. Two calls that block. Nine
descriptors, none, two, five or eight of them open when the program starts, so
that a spawn runs out of them at each of its three pipes. `EveryBlockHasAnOwner` and `HandlesAccounted` are about failures
half way through an operation; `OwnedStringsLive` and `BuffersAgree` about what
the program sees afterwards; `RepliesMatch` about the line protocol;
`CallsReturn` says that a call on a child comes back unless the child is blocked
on a full pipe the program does not read, or waits for input somebody can still
send. The first exception is a deadlock the code does nothing against; the
second includes a stdin that was closed while a later child holds a copy of
it. Deadlock is not checked, for the same reason.

The model shows some more behaviour that no document speaks of: a child that
dies in the middle of an answer yields a truncated line as success; a line of
exactly `max_bytes` characters leaves its newline for the next read; `release`
and a spawn that fails after the fork leave a child nobody waits for; `kill` after
`wait` reaches whatever process has the number now.

**ipc_owned_strings.** docs/spec.md lists the strings of `std.ipc` among the
tracked ones. The wrappers return the C buffer without tracking it, so `free`
takes it for a literal and it leaks; the finding quotes the line.

**build.** Two commands, so that the second meets the output of the first, and
calls one block and one expression deep, in every combination of places. All the
ways a process can end (not started, 0, 1, 126, 127, a signal) are outcomes of
each stage. `ExitTellsWhatWasBuilt` has three parts: a success is the output of
this very program with all it needs, a failure has a cause, and a rejected
program leaves an earlier output alone. Deadlock is not checked: the last command
ends.

**Fairness.** `Parser!FairSpec` and `ModuleLoader!FairSpec` assume weak fairness
of the whole next step. Each is a single thread that waits for nothing but a
read of a file, so this says no more than that the process keeps running.
`MCTerminal` assumes weak fairness of the program's reads: the program keeps
calling, and a call that can go on goes on; nothing of the user or the terminal.
`MCRuntime` assumes it of the program's system calls, which the kernel completes
when they can, and of each child separately, which is a process of its own;
nothing of signals, of failures, or of a child that stops.

## 5. Proofs

`TrackedAllocatorProofs` proves, for every heap size, guard size, limit, hash
function and set of sizes:

- `TypeCorrect`, `LookupsAreExact`, `StorageIsTracked`: the invariants `TypeOK`,
  `LookupExact`, `StorageMatchesRecords` of the run;
- `DamageIsKept`: the action property `DamageNeverForgotten`.

They rest on `Invariance`, `Spec => []IInv`. None of the invariants is inductive
alone. `LookupExact` says only what a lookup returns, which does not survive a
removal unless each record is known to be in exactly the bucket its present
pointer hashes to (`InItsBucket`); that in turn needs the table to have room,
hence `live_blocks = Cardinality(head)`, since the counter decides when a table
grows. `StorageMatchesRecords` needs `Placed` (blocks lie in the heap and hold a
byte) to know that two records never share a chunk, and the eviction loop needs
`pc = "evict" => freed # <<>>` to have a head.

Assumptions: `SizesAssumption` (the constants are natural numbers),
`HashAssumption` (a hash is one), `RecordAssumption` (finitely many records,
and doubling from sixteen reaches a capacity for that many; the C code computes
this in a loop and fails with a code when it would overflow).

It adds, under the same assumptions:

- `CountersAgree`, `QuarantineIsLongest`: the invariants `Accounting` and
  `QuarantineWindow` of the run.

They rest on `AccountsInvariance`, `Spec => []AInv`. `QuarantineWindow` speaks of
a finished call; while the loop evicts, the quarantine is too long, so `AInv`
says instead that the queue is the end of the history of releases
(`OldestFirst`), that no longer end of it would have fitted (`NoneLongerFits`:
what was evicted was evicted with cause), and which side of the limits each `pc`
is on. The counters are sums over sets. `SetSums` shows that such a sum is
defined and takes in and gives up one element at a time; the induction this needs
is done by hand, with the least counterexample of a set of numbers, since the
library's induction rules cannot be used here.

Last, `AllocatorImplementsHeap` is the property `ImplementsCheckedHeap`: every step of the allocator is a step of `CheckedHeap`
on the blocks, or none. By `LookupExact` the verdict on a pointer is the one the
blocks give (`LookupBlocks`); a reallocation that moves is one abstract step,
because nothing is seen of the tables in between; a turn of the eviction loop
takes the head of the window and may find damage (`EvictRefines`).

`ModuleLoaderProofs` proves, for every file system, entry and set of built-in
names:

- `TypeCorrect`, `LoadingIsTheChain`, `FilesOneName`, `NoCycleAccepted`,
  `AcceptedComplete`: the invariants `TypeOK`, `LoadingIsTheImportChain`,
  `FilesHaveOneName`, `ImportsFinishFirst` and `AcceptedIsComplete` of the run;
- `AcceptedSound`: an accepted project is sound, which is one half of
  `VerdictIsRight`;
- `Verdict`: `VerdictIsRight` itself, in file systems in which no file has the
  name of a built-in module (`NoFileShadows`).

They rest on `Invariance` again. Its main part, `Consistent`, is stated of any
list of modules, frames and finished files, so that it can be said between what
a call adds to the project (`FreshKeeps`, `SourceKeeps`, `UnreadableKeeps`,
`BuiltinKeeps`, `FinishKeeps`) and what `Returned` then hands to the caller
(`ReturnKeeps`). `ImportsFinishFirst` speaks of finished files only; to be
inductive it needs `Ordered`, which says the same of the imports a loading file
has bound so far, and `Shape`, by which a module that is found and not loading is
built in or finished. `LoadingIsTheImportChain` needs `FromFiles`: a frame that
waits has an import in its file, which the call's path was resolved from; and
that every frame below the top waits.

The verdict needs a second invariant, `VInv`. It ties the modules to the files:
every module is a file the entry needs, every import bound so far is what its
name resolves to, each frame loads the file the frame below waits for, and an
error has a reason in the files. That a sound project has no error is then read
off the last part; that an accepted one has no cycle is `ImportsFinishFirst`
applied to the file of the cycle that finished first. `NoFileShadows` is not a
convenience: without it a file and a built-in module of one name are reported or
not depending on the order of imports, which is the finding the run
`loader_builtin_names` shows.

Assumptions: `WorldsAssumption` (paths are paths, an import has at least one
part, a fault is one of those modelled), `NamesAssumption` ("vendor" and "<stdlib>" are names) and
`BuiltinsAssumption` (a built-in name is a sequence of names).

`BuildProofs` proves, for any number of commands and any depth of nesting around
a call of a built-in module:

- `TempsAreRemoved`, `ExitIsTrue`: the invariants `TempsRemoved` and
  `ExitTellsWhatWasBuilt` of the run;
- `ScansAgree`: both scans find such a call wherever it stands.

`TempsRemoved` speaks of ended commands; `OnlyOwnFiles` says of the running one
which files each of its stages has made (`Made`), so that every failing exit can
be seen to delete just those. `ExitTellsWhatWasBuilt` needs three more things:
which errors there are at each stage of the front end (`FrontEndErrors`), that
each stage of clang finds in its input what an earlier stage has put there
(`Inputs`), so that it cannot fail without an outside cause, and that both scans
agree, without which the runtime object would be missing at the link. The only
assumption is `BuildAssumption` (the bounds are natural numbers).

`ParserProofs` proves, for every set of token buffers that end with the
end-of-file token:

- `ParserStaysInBuffer`: the invariant `TypeOK`. The index stays inside the buffer
  while the parser takes tokens, looks ahead and recovers, and a token is taken
  only where there is one, so that what `cn_parser_advance` returns is the token
  that was looked at and not, at the end of the file, the one before it;
- `ParserReportsLoss`: the invariant `LossIsReported`. A construct that is missing
  from the tree was reported, and parsing ends at the end-of-file token only.

Both rest on `ParserInvariant`, `Spec => []PInv`. That a token may be taken was
found out some steps before, by the look that chose how to go on; so `SInv` says
of every list of steps a function has before it that the takes come first, that
they are fewer than the tokens left (`Good`), and that a step that looks at the
token is the last one. What each of the parse functions makes of the current
token is shown to be such a list (`TypeBodies` to `DeclarationBodies`). A caller
waits at its call and takes nothing behind it that it has not looked at again
(`Waits`). `NInv` says that a NULL on its way up was reported when it arose, which
is why a caller may drop what it has built without a word of its own. `BInv` is
about `cn_parse_program` alone: it is in its loop (`Loops`) until it sees the end
of the file. Assumptions: `InputsAssumption` (the lexer ends every buffer with the
end-of-file token and emits no other) and `BoundsAssumption` (the bounds are numbers).

`TerminalProofs` proves of the composed terminal (`MCTerminal`):

- `TerminalIsRestored`: the invariant `TerminalRestored`, for any number of calls
  and under any reading, measuring and drawing between them. The strengthening
  is `Saved`: while the terminal is raw the saved settings are valid and the exit
  handler is registered, and valid settings are the user's;
- `SizeStaysCurrent`: the invariant `SizeIsCurrent`, for any number of resizes at
  any moment. `SInv` says what a poll has in hand while it samples, and that a
  size is recorded only after the handler was installed;
- `TerminalTypes`: `TypeOK`, for every table of keys and every first capacity of
  the paste buffer, and `PasteBufferSuffices`: `read_paste` always has room for
  the next byte and the zero behind it. `TInv` needs that a capacity is at least
  two, or doubling would not make room;
- `KeysAreDecoded`: `DecodesKeys`, for every set of keys a terminal of the xterm
  family may send and any order of pressing them. The lemmas `PlainKeys`,
  `Utf8Keys`, `CursorKeys`, `NumberedKeys`, `FunctionKeys` and `MouseKeys` show
  that the decoder, fed the bytes of such a key one after the other, comes to its
  event with the last byte or, where the sequence may go on (ESC alone), with the
  timeout behind it, and not before: `From(bytes, n, i, s, e)` says this of the
  state `s` behind the i-th byte, by a run of states, so that no recursion is
  needed. A number is read digit by digit (`NumberFrom`), a code point outside
  ASCII comes back from the encoder's own bytes (`Utf8Keys` on
  `cn_term_write_code`), the buttons of the mouse are taken apart into bits
  (`ButtonBits`). `KInv` then says of every state in which no boundary was lost
  what the unread bytes and the registers are: in the middle of a key, `Halfway`
  (the rest leads to its event); before the first byte and between two calls,
  nothing read of a key or all of it;
- `WalksAgree`: `WalkAgrees`, for every set of code points, every length of a
  string and every string of bytes, well formed or not. `StepsAgree` shows that
  the decoder, which folds the bytes behind a first byte, and `string_width`, which
  has a formula for each length, find the same code and take the same step;
  `ReadsBack`, that what `write_code` writes for a code is read as that code: the
  groups of six bits are taken apart and put together again, for one to four
  bytes. The recursion of `string_width` has a solution (`WidthFcnExists`, built
  from the last byte to the first) and so has the concatenation of the encoded
  codes (`FlatFcnExists`), so both may be unfolded where the walk stands
  (`WidthLeft`, `CodeStands`). The strengthening `WalkKept` says that the columns
  counted and those left make up the width, and that the walk stands behind the
  bytes of the codes it has seen;
- `PastesAreExact`: `PasteIsExact`, for every text without the end marker, the
  empty one included. While `read_paste` reads, its buffer and the unread bytes
  are the text and the marker (`PastedSoFar`); the marker is seen at its last byte
  and no earlier (`PasteNext`). A text that is read as keys instead, because
  malloc failed, may do anything but open a paste with its last byte.

Assumptions: `KeysAssumption` (a key is a sequence of at least one byte),
`TerminalAssumption` (the keys are such as an xterm sends, with the code's tables
of final bytes and numbers; a paste stands between its markers and does not hold
the closing one), `BoundsAssumption` (the bounds are numbers, the paste buffer
starts with at least two bytes; the code starts with more), `TextAssumption` (the
codes a program writes are code points other than zero, which ends a C string) and
`WidthsAssumption` (wcwidth answers 0, 1 or 2 where it knows a code).

`RuntimeProofs` proves `DescriptorsHaveOwners`, the invariant `HandlesAccounted`:
every descriptor the runtime opened has one owner that can close it, and every
handle names its own child, for any number of children, sockets and descriptors
and whichever call of spawn, connect, listen, bind and accept fails. It is proved
of `WholeSpec`, in which every operation of every part may follow every other;
the run explores the parts one at a time to stay small (`part`), and its next
step is one of `WholeSpec`'s (`NextIsPartOfWhole`). `HandlesAccounted`
is almost inductive as it stands: `HInv` adds the types of the table, the handles
and the sockets, and that only a child that was spawned has a handle, so that
spawn never writes over one. Assumptions: `IpcAssumption` (finitely
many descriptors, a pipe holds at least a byte) and `PartsAssumption` (there is a
variable, a child, a socket and the wildcard port).

`CallInvariance` (`CInv`) is what the proofs about the heap need to know of calls
on children: which fields a call has in each phase, that the program holds a
handle of its child, that it never reads more than it was asked for, and that no
pipe holds more than it can.

`RequestsGetTheirAnswers` is the invariant `RepliesMatch` for any number of
children and calls, pipes of any size, texts of any length and any limit: a
request that found its child in step and got a line ended by a newline got its
own answer. `mismatched` alone is far from inductive: whether the line that is
read is the right one was decided when the request was written. `RInv` says where
a request is. While it is written, what the child has read of the line and what
is in the pipe are the first `sent` items of it, in order (`Asking`); once the
child has read the newline, what the program has read, what is in the pipe back
and what the child has yet to write are one reply, after a complaint on stderr
perhaps (`Replying`); and a child that ended leaves some first part of one
(`CutShort`). To and from a child that is in step nothing is on the way
(`Quiet`): this is what a new request starts from, and what the newline of a
whole reply restores. A newline can only be the last item of a reply, since the
items of a text are neither newlines nor carriage returns, so a line ended by
one is the whole reply, and `StripCr` gives the text back (`WholeReply`). A
request cut at `max_bytes`, interrupted in its text or without memory for its
buffer leaves the child out of step, and `RInv` says nothing more of it. The
lemmas `Way...` are about one request and one child as values; each action of the
module is then shown to be one of them, or to leave them alone (`RepliesKid`,
`RepliesCall`). The child is the line server of the model, which answers every
line with that line: the theorem is about the two pipes and the code that reads
and writes them, not about what a child may choose to say.

`HeapOwnership` proves, of `WholeSpec` too and with every allocation able to fail:

- `BlocksHaveOwners`: the invariant `EveryBlockHasAnOwner`;
- `StringsStayLive`, `BuffersKeepContents`, `RuntimeTypes`: the invariants
  `OwnedStringsLive`, `BuffersAgree` and `TypeOK`.

They rest on `OwnershipInvariance`, `WholeSpec => []OInv`. Ownership alone is not
inductive. An operation on a buffer finds its block through `bytes.data` or
`lines.data`, and frees or moves it; that this is a live array and not a block of
someone else follows from the owner the block has, but that an index lies inside
it needs `BytesHeld` and `LinesHeld` (an array is at least as long as the
contents, and holds the addresses of the copies in order). The string of an
answer arrives long after the call began, so a call in progress must still have
a variable to put it in (`CallSpare`). Cells that nothing but a counter stands for (nodes
of the lists, headers, records of handles) are counted as cardinalities, so the
sets must be finite.

A proof step never looks at the whole heap. An operation is shown to keep the
blocks of every kind but its own (`Keeps`), and each side of `OInv` (strings,
zones, buffers, calls, the count of cells) has a lemma that it depends on its own
kind only (`StringsFrame`, `ZonesFrame`, `BuffersFrame`, `CallFrame`). What is
left is the operation's own side: `GainOwned` and `FreeStrFacts` for the list of
strings, `ZoneGains` and `ZoneLeaves` for zones, `EnsureFacts` (growth in place,
moved or failed), `WrittenFacts` and `InsertFacts` for contents. `OInv`, `CInv` and
`RInv` were checked as invariants of the run's instance before they were proved.

What the theorems do not say: a program may free a string that is no longer its
own, because the address has been handed out again, and may append a slice of a
buffer to that buffer after it moved. From then on nothing is said about the
program's own strings (`misfreed`) or the bytes (`misread`); owners are kept all
the same.

Assumptions: `AddrAssumption` (addresses are positive numbers, finitely many),
`BuffersAssumption` (least capacities are positive, the texts are of bytes) and
`IpcAssumption` again.

A program has one thread, so an operation of one part starts only when no call of
another is under way; the guard `Between` says so.

Only model-checked:

- that an owned string can be released (`FreeReleases`, which the run
  `ipc_owned_strings` refutes);
- of the terminal, `ScreenShowsFrame`: the renderer is a fold over the cells of
  the frame, and its invariant (what the terminal shows behind the cursor of the
  pass, wide glyphs cut by the edge included) is not written yet;
- of the parser, `RecoveryKeepsTheRest`, which is about the texts of the run and
  the declarations a reader finds in them;
- everything about `DeferLowering`: its operators are RECURSIVE, and what they
  compute for every input takes induction;
- all liveness.

## 6. Not modelled

- What the LLVM printer makes of expressions and types is text whose meaning is
  LLVM's.
- The lexer, the optimiser's folding, and of the type checker all but scopes,
  result proofs and the return analysis: the plan's last item. A result assigned
  through a pointer to it, which the checker does not notice, is left out too. The per-expression typing rules and
  the tables of built-in declarations have no state.
- The syntax tree's and the IR's constructors and destructors are plain data.
- The Windows halves of `native_runtime.c`, `toolchain.c`, `net.c` and `term.c`.
- `send` and `udp_send_to` (they keep nothing), `is_ipv4` and `join_host_port`
  (text), `bench-lexer`, the usage text, and the default output path of `build`
  (a source without an extension would be its own output path).
- A temporary file that cannot be removed; files that change while a command runs.
- The X11 runtime calls straight into Xlib, and the file, path, number and clock
  wrappers into the C library; the strings they return are `RuntimeHeap`'s.
- Lengths near 2^63 in the buffers; the model's lengths do not wrap.
