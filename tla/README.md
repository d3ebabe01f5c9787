# A verification of wypoc

`wypoc` is an implementation of the Wyrm language in Python: a tokenizer, a
parser, a tree-walking evaluator, a bytecode compiler with a virtual machine of
its own, and the tools around them (command line, REPL, debug adapter, language
server).  This directory holds TLA+ models of the parts of it where several
actors or several steps must agree, the TLC runs that check them, and TLAPS
proofs about those that keep state.  Everything is translated from the code under
`src/wypoc`; `PROJECT.json` maps every definition to the lines it stands for.

`E` below abbreviates `src/wypoc/wyrm_eval_parse_tree.py`.

## 1. The system

| component | state it keeps | operations | how it interacts |
|---|---|---|---|
| **coroutines** (E:463-644, `vm/values.py`) | per instance: two `threading.Event`s, two mailboxes, `_started`, `_finished`, `_result`; per process: the recursion limit | `next`, `send`, `yield`, `yield from`, return, crash | every instance is an OS thread; its driver is any other thread; the VM subclasses the evaluator's class |
| **debugger** (`dap/`) | run mode, step depth, resume event, breakpoints; the one call stack | launch, continue, steps, pause, breakpoints, inspection | the evaluator thread calls hooks at every statement, the IO thread serves the client; both write to it |
| **module import** (E:812-1148, `wyrm_modules.py`, `cli.check_imports`) | module cache, import stack, `.submodules` of packages | `import`, `import_module`, build-time cycle check | runs bodies, which import; shared by the evaluator and the VM |
| **remote modules and tasks** (`wyrm_remote.py`, E:388-442, 2909-2942) | a call queue and an event queue per child process, thread-local stacks of Futures | call, signal, result, error, `end`, `task`, `resolve` | a process per remote module; a background thread per task |
| **evaluator: statements, calls, defers** (E:2480-2800, 4106-4157) | a stack of activations (generators), each with its scopes and defers | call, return, raise, defer, block | the driver loop runs all of it on one thread |
| **evaluator: values, scopes, dispatch** (E, `wyrm_builtins.py`) | environments of cells, classes, messages and their overloads | every expression; `resolve_overload` | wildcard imports merge into scopes |
| **bytecode VM: modules and linking** (`vm/module.py`, `vm/link.py`, `vm/imports.py`, `vm/run.py`) | slots of imports, names and members, filled lazily, with cached errors | load, link, qualified reads | the evaluator's module cache |
| **bytecode VM: interpreter** (`vm/interp.py`, ...) | frames with register windows, defers | the opcodes | the evaluator's coroutines, builtins |
| **bytecode compiler** (`compiler_bc/`) | register windows, slots, labels, tables under construction | emit per node; verify | images |
| **image format** (`bsonlite.py`, `image.py`, `opcodes.py`) | none | encode, decode | compiler, VM |
| **AST and image cache** (`cache.py`) | files next to the sources | load, save | any number of processes and an editor |
| **tokenizer** | indentation stack, bracket depth | next token | parser |
| **parser, tree conversion, printing** | none | parse, s-expressions, print | decorators rewrite trees |
| **host I/O builtins**, **D-Bus** | handle tables | open, read, write, close | the host |
| **REPL and command line**, **language server**, **editor extension** | sessions, documents, an index of files | user interface | everything above |

### What is hard

*Concurrency.*  A coroutine is a thread, and nothing but the order of `set`,
`wait` and `clear` on two events makes it behave like one.  The debugger is
two threads that share plain attributes.  A task is a background thread on a
queue that the main thread reads as well.

*Ordering.*  The two threads of the adapter write to one stream without a
common order; answers of a remote carry no number; a coroutine that ends
restores a process-wide limit it saved in another order.

*Two implementations of one language.*  Every construct is written for the
trampoline, for native evaluation and for the compiler and its VM; imports bind
names statement by statement in one engine and fill slots in the other.

*Stale copies.*  A tree, an image or a symbol table is kept with a file's time,
and the time and the text are read in two steps while others write the file.

*Failure half-way.*  A module is published before its body runs; a body that
raises leaves traces in the cache but not on the import stack; a second try of
an import hides the error of the first.

*Waiting.*  Resuming an active coroutine, calling an ended child and resolving
a Future nobody settles all wait for ever.

`PROJECT.json` lists each of these hazards at its line with the properties that
cover it, or the reason why none does yet.

### What makes each component correct

- coroutines: one thread of control; no lost or stale wake-up; each hand-over
  is one atomic step for the program; a delegation is transparent; a finished
  coroutine answers for ever; process-wide state follows the coroutines' lives.
- debugger: a stop the client sees is real; a paused program does not run;
  steps stop exactly where they should; a pause is honoured.
- import: a body runs at most once, after what it imports; cycles are refused,
  and nothing else is; a failed import leaves the stack exact; every import ends.
  (Images in packages break this: section 6.)
- remote: every call gets its own answer, once, after its handler's signals.
  (Callbacks that raise and values that cannot be pickled break this: section 6.)
- driver: a body ends, runs its defers and shows its effects as if every call
  had been made by recursion; the debugger's stack is the chain of calls.
- linking: a name's layer decides what it holds (own definitions and named
  imports, wildcard imports, builtins), never the order of the imports.
- compiler and VM: a compiled body prints and answers what the tree walker
  prints and answers; the verifier accepts what the compiler emits.
- tokenizer and parser: what is written for a tree is read back as that tree; no
  alternative of the grammar hides a later one, but for the decorator's list of
  arguments, which is meant to; comments and blank lines vanish.
- caches: what is run, or answered by the language server, is what the file held
  while the run or the request was under way.

## 2. Plan

Order: what runs concurrently first, then the sequential core, then the caches.

| step | module | composes / refines | runs | theorems |
|---|---|---|---|---|
| done | `Coroutine` | refines `CoroutineAbs` | 2 | all safety properties, the refinement |
| done | `CoHost` | uses the atomic hand-over `Coroutine` shows | 1 | both properties |
| done | `Debugger` | with its client | 1 | all but `PauseHonoured` |
| done | `Imports` | with the build-time check's graph | 1 | all but `ImportEnds` |
| done | `Remote` | with callbacks and tasks' threads | 2 | all but `CallsReturn` |
| done | `Lang`, `Driver`, `Native` | the trampoline against the native twin | 1 | the frames and the depth; `AsIfNative` TLC only |
| done | `Syntax`, `Values`, `Walk`, `Compile`, `Verify`, `Vm`, `Compiled` | compiled bodies against the tree walker | 1 | what the verifier accepts runs inside its frames; the rest TLC only |
| done | `Linking` | the walker's import and the VM's slots against one table of layers | 1 | all properties |
| done | `Lexer`, `Grammar`, `Peg`, `Writing`, `Reading` | the parser against a writer of trees | 1 | TLC only |
| done | `Caches` | runs, an editor and the language server | 1 | all properties |
| 1 | `Dispatch` | overload ranking of messages over class hierarchies | bounded inputs | |
| 2 | `Tasks` | Futures over `Remote`; a second root thread for `Coroutine` | | |

## 3. The modules

### Coroutine, CoroutineAbs

`Coroutine` follows `CoroutineInstance` statement by statement where another
thread can see the difference.  Its variables are the instance's attributes
(`toCo`, `toCaller`, `inValue`, `outValue`, `started`, `finished`, `result`) and,
for each thread, its place in the code (`pc`), the instance it is inside
`_advance_raw` for (`target`), the coroutine it delegates to (`deleg`), the
value it is handing over (`arg`) and what its last hand-over returned (`heard`).

| code | actions |
|---|---|
| `next_`, `send_` | `NextCo`, `SendCo`, then `Collect` |
| `_advance_raw` | `EnterAdvance` (its `_finished` test), `StartThread` or `StoreIn`, `SetToCo`; `WaitCaller`, `ClearCaller`, `Collect` |
| `_suspend` | `Yield`, `StoreOut`, `SetToCaller`, `WaitCo`, `ClearCo`, `Take` |
| `_run` | `Leave` (return, end or crash of the body), `StoreResult`, `Finish`, `Announce` |
| `_yield_from` | `YieldFrom`, `RelayYielded`, `RelaySent`, `RelayEnded` |

The Wyrm code of a thread is nondeterministic: it may resume any coroutine,
yield or return any value, delegate, or do nothing for ever.  With
`Reentrant = FALSE` it resumes only coroutines nobody is inside `_advance_raw`
for; the code has no such test, and `Reentrant = TRUE` shows what that means.
The lock around the thread's creation and its stack size are left out.

`CoroutineAbs` is what the docstrings promise: one runner, and hand-overs that
move control and a value in one step.  `Coroutine!Abs` maps the implementation
to it: control moves at the `Take` or `Collect` of the receiving side.

### CoHost

What all coroutine threads share besides control: `sys.getrecursionlimit()`
(`limit`, saved by `_run` in `saved[c]`) and the debugger's `_call_stack`
(`callStack`, a sequence of the threads that pushed the frames; `frames` counts
the calls each thread is in).  `Resume` includes the first steps of `_run`,
`Finish` its `finally`, `Call` and `Return` the driver's push and pop.  A
hand-over is one step here, which is what `Coroutine` shows.  `order` and `nested`
have no counterpart in the code; `nested` says that so far no coroutine has
ended before one that was started after it.

### Debugger

Three actors and two byte streams.  The IO thread of `dap/server.py` takes a
request from `inbox`, makes the Debugger's assignments one at a time (`SetMode`,
`SetDepth`, `SetEvent`; `PauseLook`, `PauseRequest`; `SetBreakpoints`) and
answers (`Respond`).  The evaluator thread calls and returns (`depth`), reaches a
statement (`Statement`), evaluates `_should_pause` in the two reads of the mode
that matter (`CheckPause`, `CheckStep`), and, when it stops, goes through
`EnterPaused`, `Notify`, `Wait`, `Clear`.  `Raise` is the exception hook.  The
client is external: it believes what it last read (`view`), and resumes only
what it has seen stop.  Launching, frames and variables,
and the framing of messages are left out; a session starts when `launch` has
been answered.  `disconnect` is handled as the code does, by resuming.

### Lang, Driver, Native

`Lang` is the control structure of a function body: marks (any visible effect),
`return`, `break`, `continue`, raising, `if`, `do`, `for`/`else`, `while`, `defer`,
`defer on error`, and calls, whose value is shown, returned, tried or caught.
`Driver` is the machine the trampoline is: `stack` holds a context for each
suspended generator, outermost first, and `signal` what travels to the innermost
one (a value, a return, a break, an exception).

| code | actions |
|---|---|
| `_eval_stmt_impl_gen` | `DoMark`, `DoSignal`, `DoCrash`, `DoBlock`, `DoLoop`, `DoDefer`, `LoopStep`, `LoopUnwinds` |
| `_eval_stmt_gen` (the wrapper of a statement), `_eval_block_gen` | `BlockEnds`, `BlockUnwinds` |
| `_run_scoped_block_gen`, `_run_defers` | `LeaveScope`, `NextDefer`, `DefersEnd`, `DeferUnwinds` |
| `_run_driver` | `DoCall` (build and push, or fail in the caller), `CallEnds` (pop; send or throw), `Deliver`, `WantUnwinds` |

A body gets a scope only if it needs one, as `_body_needs_scope` decides; a defer
registered in a defer's body goes to a scope that is never torn down, so it never runs.  Defers
run natively, and a call in one starts a driver of its own (`Natively`,
`DriverDepth`).  `RunsOn` decides, defer by defer, which of them run.  A machine that has ended stutters (`Ended`), so that a state no
action can leave is a deadlock.  `Native` is the other twin, `eval_stmt` and its
relatives, as recursive operators over a record of a run; `AsIfNative` compares
the two when a body has ended.  Its operators are RECURSIVE, so it is for TLC
only; `Lang` and `Driver` are free of them.

### Imports

`calls` is the Python stack of pending calls of `import_module` and of the VM's
`import_path`, each at one of three places: called (`find`), its parent package
imported (`load`), its body running (`run`).  `cache` and `importStack` are the
module-level dictionary and list both engines share, `submodules` the
registrations on packages.  `deps` is the program: the paths each body imports, in
any order, as they are once `eval_import` has put `prior.name` for a bound root
(E:1087); `file` says what the search finds for a path: source, an image, both or
neither.  What the files contain is `deps` and `Fail`.

`Key` is what a module is published and stacked under.  For source it is the path
(E:1044), for an image the image's own name (`vm/run.py:61,66`: `load_image` drops the
path), which is the stem of the file it was compiled from; the next import looks
the path up all the same.  `LoadsImage` is the choice between the two, which the
evaluator makes for source and the VM for the image.  `Call.by` tells the forms
apart: only a plain statement tries its path again as package and member
(`TriesMember`) and binds the root of it (`MayLack`: E:1144 is a KeyError if the root
is not in the cache); `path::*` and `path::(x)` return before that; an `import`
instruction of compiled code has a second try of its own around what
`import_module` raises (`Retriable`), and loads an image without its packages
(`Direct`), which the instructions before it have imported (`Imported`).

`FindCached` is the cache hit with its cycle test, `FindNew` the import of the
parent, `Load` the publication and the push, `Complete` and `Unwind` the two ways
out of the `try`/`finally`, `TooDeep` the recursion limit.  `Survive` is the one way for an
exception to end below the top: a coroutine body ends with it.  A compiled main
program is the import of its image by the first call.

`Steady(m)` says that m and the packages on the way to it have their paths for
keys, as all source has and every image outside a package; `NoClash` that no image
is called by another module's path; `OneKey(m)` that m is published under one key
whoever loads it, which only a path with an image of another name beside its source
is not.  They are the premises of `RunOnce` and a part of `StackIsRunning`, of
`NoFalseCycle` and of `NeverHalfRun`; section 6 says what happens without them.

### Remote

`callQ` and `eventQ` are the two queues of a remote module.  `waiting[t]` is the
stack of calls thread `t` is in: more than one if a callback calls again.
`TakeAnswer` and `TakeSignal` are the loop of `RemoteModule.call`.  A callback ends
(`CallbackEnds`) or raises (`CallbackRaises`), of itself or by the error of a call it
made: the exception leaves the call whose loop ran it, into the callback that made
that one, and so on.  `Serve`, `Emit`, `HandlerReturns`, `HandlerRaises` are the
child's loop, `LoadFails` and `LoadEnds` its start.  What is put in a queue is pickled
by a thread of the queue's own, which drops what it cannot pickle: `Call` and `Emit`
may lose what they put, `ResultLost` is a handler whose result is lost.

For the properties only, an event carries the call whose handler produced it,
`abandoned` holds the calls that an exception ended, `lost` those that were dropped or
whose result was, and `overlapping` the calls made while another was under way, or
after one was abandoned.  The exit event, and the end of the parent, are left out.

### Syntax, Values, Walk, Compile, Verify, Vm, Compiled

One small language, read by both engines: numbers, nil, lists, names, `+`, `not`,
`and`, `or`, indexing, calls, lambdas and nested functions, `do`, `if` and `elif` as
statement and expression, `try`, `catch`, `catch return`, `var`, assignments of one
and of several names, `setif`, `while`, `for`/`else`, `break`, `continue`, `return`,
`defer` and `defer on error`.  `Syntax` has its trees and the questions
`analysis.py` asks of them: what a body declares, assigns, captures and boxes.

| module | code |
|---|---|
| `Walk` | the tree walker: `Scope`, `eval_expr`, `_eval_stmt_impl`, `_run_defers`, calls; recursive operators over a world of scopes, closures and output |
| `Compile` | `FnContext` of `context.py`, `functions.py`, `statements.py`, `expressions.py`: registers, windows, boxes, labels and jumps, one operator per node |
| `Verify` | `verify.py`: registers, windows, jump targets and table entries of a finished image |
| `Vm` | the dispatch loop of `vm/interp.py` and the frames of `vm/frame.py`: one action per kind of instruction, per deferred block started and per frame left |
| `Compiled` | a program's meaning to the walker, its image, and the VM's run of it |

The walker is a function of the program, computed in the initial state; the VM
is a state machine of single instructions, so that frames, boxes, iterators and
armed defers have a type invariant of their own.  `Vm` runs any image, by itself
as `MachineSpec`: no operator of it, of `Values` or of `Verify` is recursive.  `strayed` is a history variable:
a run that reads a register nothing wrote, loses a box or calls a body the
compiler refused is noted there.  `Narrowed` lists the forms for which the two
engines are known to differ (section 6).

### Linking

Programs of imports (`import m`, `import m as k`, `import m::x`, `import m::x as y`,
`import m::*` with and without `except`, `import static m`), declarations and message
definitions, run by the walker (`Walk`: `eval_import`, `_merge_wildcard_name`,
`_merge_message`) and then by the VM (`LoadModule`, `Execute`): the compiler moves
imports to the front and declares global slots, and `fill_from_builtins`,
`fill_from_import` and `fill_from_wildcard` fill them through `LoadedModule.fill`,
which keeps a layer with each slot.  Modules are loaded already: `Imports` has how.
`Explicit`, `Wildcard` and `Layered` are the reference: a name's value from the set
of the statements, with no order.

### Lexer, Grammar, Peg, Writing, Reading

`Lexer` turns a sequence of lexemes and line breaks into tokens: indentation stack,
brackets, braces, comments, joined lines.  `Grammar` is the rules of the generated
`parser.py`, one field for each method, with the alternatives in the order they
are tried; `Peg` fills the memo the parser's methods share, as a table from the
last token to the first, and builds the trees with the folds of `actions.py`.  The
same table without the order holds every reading the rules allow.  `Writing` is
the reference: how a tree is written, by the levels of `doc/grammar.ebnf` and with
blocks indented, in braces, in one line, or mixed.  Literals, doc comments and
positions are left out.

### Caches

One source file, with a version number as its time.  `Edit` writes a new version,
`Restore` puts an old one back with its old time.  A run goes through `main` or
`import_module` in the steps between which another process can act: read, look
for a fresh image, open the cache's entry, compare times, parse, write a file of
its own, replace the cache's; it may be killed before each (`End`), and a save
may fail.  `Mode` says which way: a script, a module, or `--vm`.  The language
server handles one message at a time, but the file may change between the two
steps of `table_for_path`.  `seen` is what the file held since a reader began,
for the properties only.  A behaviour has runs or the server, which share nothing
but the file.

## 4. The runs

| run | instance | shows |
|---|---|---|
| `coroutine` | 2 coroutines, 1 value and None, not re-entrant | one owner, control kept, signals match, refinement of `CoroutineAbs`, both directions of a hand-over complete |
| `reentrant` | 3 coroutines, None only, symmetric, re-entrant | the only way to lose control is to resume an active coroutine, with delegates of delegates |
| `cohost` | 3 coroutines, 2 frames each, ends in any order | the stack's length and its bottom are right; the recursion limit follows the coroutines as long as they end last started first |
| `debugger` | 1 line with and 1 without breakpoints, 2 frames, 2 messages in flight | stops are real, paused programs do not run, steps are kept, pauses honoured |
| `driver` | 19008 bodies: two levels of `if`, `do`, loops and calls around a leaf of every kind, with and without a defer of every kind; depth limit 2 | same effects, values, reported exceptions and exit as the native twin; the debugger's stack is exact |
| `imports` | a package, a module in it, a module that may be called like its image; every import graph, each module source, image or missing; recursion limit 6 | the stack is exact; no body twice, if paths are keys; no running module handed out, if it has one key; no false cycle, if names do not clash; interpreted modules registered; all imports end |
| `remote` | a program, a task and callbacks that may raise, 3 calls, 2 signals in a handler, any value dropped; a child that may stop | calls waiting or abandoned and answers to come balance, but for what is dropped; a call that none overlaps gets its own answer after its signals, unless one was abandoned before; no more calls wait than were dropped, while the child serves |
| `compiled` | 2888 programs: a step of every kind and an end of every kind, plain, in an `if`, in a `for` or in a nested function, with and without a closure over the variable | every run ends, having printed and answered what the walker does; the verifier passes; no run leaves its body or frame |
| `linking` | 2955 programs of up to three of 15 imports, declarations and definitions, two modules that disagree | names and messages have what their layers say in both engines; a filled slot only changes for a stronger layer |
| `reading` | 14300 sources: expressions in each other, statements in each other in five layouts, sentences of up to four free tokens in nine families, layouts of three lines | trees are read back; no sentence of a family is refused that the rules allow in another order, except `@d (a)`; indents balance; comments vanish |
| `caches` | a script, an import and a `--vm` run at once, or the server; three texts, one broken; two versions | what runs is what the file held; no half files; nothing broken is kept; answers are current |

`remote_swap` is expected to be violated; section 6 describes it.  Each module's
`TypeOK` is checked by itself (`Coroutine`) or as the first part of the invariant
that speaks of the same variables.

*Why the bounds are enough.*  A hand-over involves a driver and a coroutine, and
a third party only as the coroutine's own delegate or as a second driver; two
coroutines and the program give the chain, the delegation and both kinds of
re-entry, three give a delegate of a delegate.  Values are only ever moved, so
one value and None tell all mix-ups apart that the properties speak of.  Two
lives can cross in all ways with two coroutines, three leave one unaffected in
between.  In the debugger a step compares two depths, so two frames are below,
at and above it; two messages in flight let a request and a notification pass
each other.  Imports recurse through a parent, a body and a second try, which
three modules, one in a package, exercise in every order; if all are `Steady` no
more than five imports are ever under way, so that the limit of six cuts nothing
off, and a cycle that images hide reaches any limit.  No module imports itself in
the instance, which would be a cycle of one.  Three calls allow
one in service, one queued and one made by a callback of the first.  Two
levels put every construct inside every other, with a scope in between or not,
and a limit of two activations lets a call in a call fail where it is made, and
succeed where a defer has started a new driver.

A step and an end, in each of three surroundings, put every construct of the
compiled language next to a value that is read, reassigned, boxed or returned
after it; two modules that agree about one name and not about another, and
three statements, give a merge, a conflict and whatever comes after it.  Every
level of precedence stands inside every other on either side.  Two versions of
a file and one put back give an older, an equal and a newer time; three runs let
one read what a second writes while a third replaces it.  The programs of
`compiled`, `linking` and `reading` were also given to wypoc itself: its two
engines and its parser answered what the models do.

*Fairness.*  `Coroutine`: the operating system schedules a thread that has begun
a hand-over (`Advance`, `Suspend`), nothing obliges Wyrm code to yield or return.
`Debugger`: both threads run, the program reaches statements, the client reads
what it is sent; it need never ask for anything.  Programs that compute for
ever between two statements are excluded by `WF(Statement)`: a pause is noticed
at statements only.  `Imports`: the interpreter executes an import it has begun;
bodies end, as they import each path once, and a cycle that is not refused ends at
the recursion limit.  `Compiled`: the VM goes on; the programs
have only loops that end.  `Remote`: both processes run,
callbacks return or raise, handlers end.

*Deadlock* is checked in `coroutine`, `driver`, `imports`, `compiled`, `linking`,
`reading` and `caches`.  It is not
checked where the system may stop: a re-entrant program, a program or a debug
session that is over, calls that have all been made.

## 5. The proofs

TLC checks small instances; the theorems below hold for every value of the
constants.  A component's proofs stand in a module of their own, those about the
VM and about linking in `VmProofs`.

| module | theorems | for any |
|---|---|---|
| `CoroutineProofs` | `TypeCorrect`, `OneOwnerAlways`, `LostOnlyByReentryAlways`, `ControlKeptAlways`, `FinishedForEverAlways`, `SignalsMatchAlways`, `DelegationRelaysAlways`, `ImplementsAbs` | coroutines, values, programs |
| `CoHostProofs` | `StackCountsAlways`, `CeilingNestsAlways` | coroutines, limits, depths of calls |
| `DriverProofs` | `FramesMatchAlways`, `DepthBoundedAlways` | programs of statements nested to any depth, limit |
| `DebuggerProofs` | `StopIsRealAlways`, `BlocksWhenPausedAlways`, `StepKeptAlways` | lines, depths, messages in flight |
| `ImportsProofs` | `StackIsRunningAlways`, `NoFalseCycleAlways`, `RegisteredAlways`, `RunOnceAlways`, `NeverHalfRunAlways` | paths, packages, files, import graphs, failures, recursion limit |
| `RemoteProofs` | `OneAnswerEachAlways`, `SoleAnswersMatchAlways`, `SignalsFirstAlways` | threads, calls, signals of a handler |
| `CachesProofs` | `WholeFilesAlways`, `RunsSourceAlways`, `AnswerIsCurrentAlways` | runs in any modes, texts, versions |
| `VmProofs` | `VerifiedRunsInside` | image the verifier accepts, run of it |
| `VmProofs` | `NamesLayeredAlways`, `MessagesLayeredAlways`, `OnlyStrongerAlways` | modules, builtins, programs of imports and definitions |

### What is assumed

Of the constants, what the `ASSUME` of each module says, which TLC evaluates in
every run: that names are distinct and bounds are numbers, and

- `RemoteAssumption`: a request is not called like the answers that are none;
- `CachesAssumption`: no text is `""`, which stands for an empty cache;
- `ImportsAssumption`: the packages on the way to a package are on the way to what
  is in it, and an image's name is no path into a package (it is a file's stem);
- `LinkingAssumption`: no module is called like the program, a module's methods are
  methods of modules, and an import names a module that exists and, in it, a
  variable, a builtin or a message;
- `ControlKeptAlways` and `DelegationRelaysAlways` are about programs that resume no
  active coroutine (`~Reentrant`), as the properties themselves say; the other
  theorems about coroutines are not.

The theorems of `DriverProofs` have a hypothesis, `BuiltOf(Code)`: the programs
consist of statements whose bodies consist of statements, and a `return` returns a
value.  `Code` is the set of all statements of the programs, those inside others
included, so that every set of programs the parser can make satisfies it.

`VerifiedRunsInside` has the hypothesis `Accepted(image)`: the image is what decoding yields
(`Decoded`: operands are numbers, a box has one element, the program's own body
takes no arguments), `verify` finds nothing in it, and its bodies end
(`BodiesEnd`).  The last is the part the verifier leaves to the compiler: it
allows a jump to one past the end of a body.  `Verified`, on the run `compiled`,
says that the compiler's images are accepted.

### The argument, module by module

None of these properties is inductive.  Each proof states an inductive invariant,
which TLC checked first on small instances, one lemma per
action, and the property as its consequence.

*Coroutine: one owner.*  A thread that waits becomes the owner when an event is
set, so one must know that each event is set on behalf of the one thread that has
just given control up.  `OwnerInv` adds, from the inside out:

- `LocalInv`: what one thread's place says about its own variables: it is inside
  `_advance_raw` exactly when it has a target, a coroutine is fresh exactly when
  not started, finished exactly when past `Finish`;
- `EventInv`: a driver's event is set only for a coroutine that is suspended or
  ended; a thread past its wait, or before its `set`, finds its coroutine as
  the code assumes;
- `DriverInv`: a coroutine that has been resumed has a thread that waits for it,
  and while anybody has control that thread is the only one, and a coroutine's
  own event is set only where it will be consumed;
- `OneOwner` and `LostOnlyByReentry` themselves.

Each step is one of three kinds: it leaves all owners (`OwnerStays`), or it moves
ownership from one thread to another (`OwnerMoves`), or it wakes a thread whose
ownership the event already recorded.  `ControlKeptAlways` adds `OneDriver`, that no
coroutine has two drivers, which `MayDrive` preserves.

*Coroutine: no leftovers, delegation.*  `SignalInv` follows a value from the
mailbox to the thread it is for: while a coroutine is on its way to being resumed,
some driver of it waits and the mailbox holds what that one handed over.
`DelegInv` says of a coroutine in a `yield from` that it passes on what its
delegate put out, and that nobody else drives or delegates to that one; without
`Alone` a second driver could take a value in between.

*Coroutine: the refinement.*  `ImplementsAbs` is `Spec => AbsSpec`, for every program,
re-entrant ones included.  `Mapped(t)` says that a thread inside `_advance_raw` has
given control up in the abstract sense: it waits, or has been woken, and nothing
is on its way to its coroutine any more.  `Runner` is the owner, which `OneOwner`
makes unique (`RunnerIs`).  While a thread executes nothing is on its way
(`WhileExecuting`), and what it settles to hand over is `Speak`.  `StartThread` and
`Take` are `Resume`, `Collect` is `Yield` or `Return`, `EnterAdvance` of a finished
coroutine is `Replay`, and `SetToCo` for an active one is `Wedge`, after which the
abstract runner is nobody; the stores, signals, waits and clears stutter.

*CoHost.*  `Chain`: the active coroutines form a chain from the program to the
one that runs, so that no two were resumed by the same.  `Ordered`: the history
variable lists each live coroutine once.  `Saved` is the reason for `CeilingNests`:
the oldest live coroutine saved the process's own limit and every younger one the
raised one.  `StackCounts` needs that the length of a sequence is the number of
the calls under way, which the theorems on cardinalities give.

*Driver.*  `Stacked` types every context on the stack, statements included, and
says that a call is at the bottom.  `Counted` says that there is one frame per call
on the stack, and that at every height the calls of the driver that runs there are
within the limit: a call of a defer starts a new driver, and when that ends the
count of the one below must still be right.  All steps but two leave the calls as
they are (`QuietStep`); `CallCounts` and `CallEndsCounts` are the two.

*Debugger.*  `Token` is the heart of it: one token goes around between evaluator
and client, as a stop told, a stop seen, a request to resume, and the event.
`Paused` relates the run mode to the token's place, `Stepping` the mode and depth
of a step to the client's last request while it is in the stream, at the IO
thread, or carried out.  `Room` bounds the stream to the client: each message in
flight is a request, the answer to one, or what follows from the event.

*Imports.*  `Shape` describes the stack of pending calls: only the innermost looks
for its file, the others wait for their package or run.  `Stacked` says that the
import stack lists the keys of those that run, in their order (`Listed`, with
lemmas about adding and taking the last), all of them in the cache, a steady
one's not twice; `Cached` that a module with one key is in the cache under no other.
`Ready`, that a steady module's package is in the cache and off the stack when its
file is read, is why no second call can be waiting to load it: that one would wait
for the package, which would run.  `Descends` proves `NoFalseCycle`: in a graph
without a cycle every module has a rank, and the ranks of the calls under way
descend, so none meets itself; `NoClash` makes the key on the stack the module's.

*Remote.*  `Balance` counts: the calls under way or abandoned are as many as those
queued, in service, answered and lost.  `EachOnce` says that the child knows of each
call once, `AloneWhile` and `AloneAfter` that there is no trace of any other call while
one is alone, and none of its own once it is answered; nothing has been abandoned
then, or that call's answer could be the one taken.  `SignalsAnswered`: a signal is
never the last word of a handler whose result is not lost, so taking the answer last
takes all signals first.

*Caches.*  `FileInv` says that a reader has seen what the file holds,
`TreesFaithful` and `ImagesFaithful` that a cached tree or image, and one a run is
about to use or to write, is of the text the file had at its time, unless a race
has happened; `ServerInv` the same of the server's tables.

*Vm.*  The verifier looks at each instruction alone; the theorem says that this is
enough for every run of all of them.  Values nest and refer to boxes, iterators
and functions, so `MachineInv` says that there is a set of values, closed under
taking items (`Closed`), each referring to what exists (`Refers`: a function with
as many captures as it takes), and that it holds whatever a frame, a box or an
iterator does.  Each step allocates (the set is extended) or moves within it.
`Fits` is one frame: of the size its function says, and at an instruction of its
body while it runs.  `Above` relates two: the one above a running frame answers
into one of its registers, the one above a leaving frame is a deferred block and
answers nowhere.

*Linking.*  The properties speak of the end of a run; `LinkInv` says the same of every
state, of the statements that have run so far, and `LinkInv` at the end is what is
to be shown.  TLC checked it on the instance of `linking` and on a larger one: three
modules, a method known under two names, variables called like messages, modules
and builtins.  `TodoInv` says that what is left is a tail of the program, or of the
three passes the compiler makes of it.  For each further statement there is a
lemma about the reference (`ExplicitGrows`, `BroughtGrows`: the set of a longer
program is the old one and what the statement adds) and one about the code (what
`fill`, `bind_new` and the two merges do to one name), and they agree:

- the walker's scope (`ScopeInv`, `NameAt`): a name has a value its definitions and
  named imports gave it; if there is none, the one value its wildcards offer or the
  marker (`Picks`); and no entry if they offer none;
- the VM's slots (`SlotInv`): a name the module does not define is filled by layer 2
  exactly if a wildcard offers it, else by layer 3 exactly if it is a builtin
  (`FreeAt`); one it defines is in no layer, so that no fill touches it (`Reserved`),
  and is unset until a statement that binds it has run (`OwnAt`); the slot of a path
  holds what the path reaches whoever filled it first (`Paths`), which is why two
  imports of one module do not clash.  `OnlyStrongerAlways` needs no more than this;
- the messages (`MessagesInv`), by the same lemmas for both engines (`Moves` is what
  any statement does to a table): what imports alone brought is in the table as
  `Picks` says, and a method is answered by its own module unless the program has
  defined a message that brought it.  What differs is the order: in the VM no
  definition runs before the last import (`DefinedLast`), so a definition always
  answers (`Ours`), in the walker only one that comes before all imports (`First`).

### What proving showed

- `RunsSource` was not an invariant: a `--vm` run looks at the time of the image and
  opens it in two steps (`cache.py:153`), and the image another run renames into
  place in between may be of an older text than either the file's or the one it
  was fresh for.  `raced` covers that race as well now; TLC shows it with two
  `--vm` runs, which the instance of `caches` does not have.
- `StackCounts` was about the newest frame of each thread; that the stack holds as
  many frames as there are calls under way says more, and is what is inductive.
- `Imports` assumed that packages do not contain packages: no proof needs it, and the
  modules may be nested to any depth.
- `Verified` said that the verifier finds nothing; the machine needs that bodies end
  as well, which `verify.py:159` does not check, and it needs operands an image may
  hold.  `Verified` says all three now, and the machine does what the code does with
  images of any other compiler: `itnext` of what is no iterator, deferred values
  that cannot be called, `return` from a frame with defers still armed.
- `NamesLayered` was about all names, and the instance has no variable called like a
  module.  Such a name is not decided by the layers: `import m::x as y` binds `m`
  too in the VM, but not in the walker, and the slot of `m` is reserved by imports
  that leave it unset.  The property leaves those names out now.
- A `CASE` with overlapping guards leaves the value open.  `Debugger!Receive` had
  one, TLC took the first branch, and no proof went through.  Its branches are
  disjoint now, as are those of `Lexer` and `Peg`.

### What stays with TLC

- Liveness under fairness: `HandOversArrive`, `PauseHonoured`, `ImportEnds`,
  `CallsReturn`, `Agrees`.  The prover has neither fairness nor `ENABLED`.
- What is recursive over trees and sequences: `AsIfNative` (the native twin recurses
  over the program), `Agrees` and `Verified` (the walker and the compiler do), the
  properties of `Reading`.  `Walk`, `Compile`, `Native`, `Peg`, `Lexer` and `Writing`
  declare RECURSIVE operators, and induction over data is out of the prover's reach.

## 6. Where the code and its documentation disagree

`remote_swap` is the run TLC finds violated, and an entry under `findings`: a call
made by a task, or by a callback, takes the answer of another call under way.
The other disagreements are narrowed out of the properties they touch:

*Coroutines, calls and imports.*

- Coroutine a starts, b starts, a ends: `_run` restores the limit a saw, and b runs
  on without its head-room; when b ends it restores the raised one for good
  (E:536; the comment at E:511 says it is raised for the thread's lifetime only).
  `CeilingNests` speaks of coroutines that end last started first.
- A defer runs while an exception unwinds, and a call in it raises and recovers:
  the statements further out report the first exception to the debugger again
  (E:2489; the docstring at E:2726 says "exactly once").
- A package that imports a module of its own passes `check_imports` and fails as a
  cycle at run time (E:999; `doc/addendum.md:150` says both are the same rule).
- A compiled module does not register on its package when the evaluator imports
  it (E:1012; E:964 says it does).  `Registered` speaks of sources.
- "A module runs once per process" and a cycle "is diagnosed identically"
  (`vm/imports.py:10-15`), but an image is published and stacked under its own name.
  That of `p::q` is called `q`, that of a package `__init__`: its body runs again at
  every import, a cycle through it recurses to a RecursionError, and `import p::q` with
  p such an image ends in a KeyError (E:1144) or, once `p` is bound, looks for
  `__init__::q` (E:1087).  An import of a module `q` is then answered with `p::q`, and
  refused as a cycle that is none while the image runs.  If the source of `p::q` is
  there too, the evaluator loads that and the VM the image, a module each, where
  `vm/imports.py:10` has one instance.  `RunOnce` and a part of `StackIsRunning` speak
  of `Steady` modules, `NoFalseCycle` of files without a clash of names (`NoClash`):
  without these premises TLC finds each of them violated.  `NeverHalfRun` speaks of
  modules with one key.

*Calls of a remote module.*

- A callback that raises, of itself or by the error of a call it made, leaves `call`
  (`wyrm_remote.py:108`, `:112`), and the answer of the abandoned call stays in the
  queue: the next call takes it as its own, before the signals of its own handler, and
  every later one is an answer behind.  `SoleAnswersMatch` and `SignalsFirst` except
  the calls made after that; without the exception TLC violates `SoleAnswersMatch`.
- "A `PicklingError` at the queue boundary is what a script crossing this line gets"
  (`wyrm_remote.py:19-23`, `doc/addendum.md:24-29`).  `multiprocessing.Queue.put` pickles
  in a thread of its own, which drops the value: a call whose argument or result
  cannot be pickled waits for ever while the child serves on.  `CallsReturn` allows as
  many calls to wait as were dropped.
- Nothing answers a call made once the child has executed `end` (`:227`).

*The walker and the compiled program* (`test/test_vm_exec.py:14`: "a body compiled
from source answers what the tree walker answers for the same call").

- A value is built in the register of the variable it replaces: `x = f() catch x`
  answers the error, `x = 0 or x` zero (`expressions.py:569`).  A left operand is
  the variable's own register, which the right operand may reassign (`:292`).
- The frame has one box per variable: closures made by two iterations share what
  the walker gives each; `itnext` overwrites the box of a captured loop variable.
- A nested function that captures itself, or what is declared later, copies a
  value not set yet; a name captured and declared again inside makes the function
  a trap or reads the inner variable; an inner `var a = a` reads the fresh slot.
- Deferred blocks run when the frame ends, not their block (documented in
  `doc/wyc-format.md:866`), and a `return` or `try` in one is ignored; one in a defer
  never runs in the walker.  An error that falls off the end runs the VM's
  `defer on error` and not the walker's.
- An unset variable is a NameError in the walker and `<unset>` in the VM; an empty
  list leaves the variable of `for`/`else` differently.

*Names of imported modules.*

- `import n::*` of a module that defines `car` leaves the builtin in the walker
  (E:1171; `doc/addendum.md:192` puts wildcard imports first); the VM reads n's.
- A message defined between two star imports is ambiguous in the walker, though
  E:1193 says it "always wins"; in the VM it wins, and replaces the canonical
  method of the imported module too.
- `m::x` is read afresh by the walker and copied once by the VM; after `import m as k`,
  `k::x` has no value in the VM; `m::x` after `import m::*` is a NameError in the walker
  only, as is a read before the import, which the compiler moves to the front.
- After `import m::*`, `x = 5` writes through in the walker and is refused by the VM;
  `var x` is refused by the walker and allowed by the VM.  `except` is ignored for
  messages by the VM, and `import m::hello` of a message ends its program.

*Source text.*

- `(a + b) ! n::m(x)` is not the message `m` of the module `n`, as `wyrm.gram:680-684`
  and `doc/addendum.md:105` have it: an object in parentheses is read as a tuple of
  receivers, which takes no module (`wyrm.gram:793-797`), so that `n` is sent to it, and
  `::m` of what that answers is called.  The `reading` instance has those sources
  with the tree the parser makes (`Parenthesised`), and qualified messages only on
  objects that need no parentheses.
- `@d (a)` is a syntax error: `(a)` is always the decorator's list of arguments.  That
  is documented and tested (`wyrm.gram:178-181`, `test_eval_decorators.py:372`), and the
  one hiding that `NothingHidden` leaves out (`Meant`).
- Inside braces no block can be indented; `fn f() {}` is a syntax error while
  `class A {}` is not (an empty list counts as a failure in the generated code);
  `else` must follow `}` in its line; a dictionary over several lines in braces fails.
- Two statements may follow each other with nothing in between; trailing commas
  are refused in calls and lists; `a[1].b = 2` and `a < b < c` are refused.
- In parentheses the line breaks of a brace block vanish, so its statements
  join, which the comment at `wyrm_tokenizer.py:233` excludes.

*Caches.*

- `save` stamps a tree with the time the file has then: a file written between
  reading and saving runs its old text in every later run until it is written
  again (`cache.py:103`).  `RunsSource` excepts that (`raced`), and the image that
  takes another's place between the look at its time and its opening (`:153`).
- An image is fresh if it is not older than the source, so after a file with an
  older time has been put back the image of the newer text runs (`restored`).
- `last_good_table` promises "the last one that did [parse]" (`symbol_index.py:107`): it
  is the last that did when a completion was asked for.
- A hover or completion calls `set_document`: asked about a closed document, it
  keeps that text for ever.
- Outside the models: the disassembler (`opcodes.py:803`) reads a wide jump of
  more than 32767 words as a negative one; the compiler emits none so long.

Other facts of the code the properties leave room for, or assume:

- a coroutine that yields leaves its frame on top of the debugger's stack while
  its driver runs, so the top frame need not be one of the running thread;
- the evaluator's next stop can overtake the adapter's answer to the request
  that led to it;
- a client that asked for a continue while the program runs would leave the event
  set, and the next stop would not block (`Resume` has `view = "stopped"`);
- a module whose body raised stays in the cache and is handed out by the next
  import (`NeverHalfRun` speaks of running bodies only);
- nothing answers a call once the child has executed `end` (`CallsReturn` says so);
- a defer that raises, returns or breaks replaces the exit under way and skips the
  defers registered before it; a `break` outside any loop of a function breaks
  the loop its caller is in.  Both twins do so.

## 7. What is not modelled

What builtins and most operators compute, classes and the ranking of overloads,
decorators, byte formats (images, DAP framing), s-expressions and printing, the
scanning of literals, the user interfaces, the editor extension and wrappers of
host libraries: sequential code whose states no second actor sees, or data the
properties do not tell apart.  Futures and the exit of processes are in the plan
or noted under `hazards`.  The `components` of `PROJECT.json` say for each part of the
repository which it is.
