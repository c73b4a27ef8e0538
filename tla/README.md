# Draton, specified

TLA+ specifications of Draton, its compiler toolchain and its runtime, with the
TLC configurations that check them and proofs that TLAPS checks. Paths are
relative to the root of the repository; `crates/` holds the authoritative Rust
implementation, `compiler/` a mirror of the front end in Draton itself.

    tlc -workers 2 -config MCChan.cfg MCChan       # check one configuration
    tlapm ChanProofs.tla                           # check the proofs of one module

`PROJECT.json` lists the runs, the mutants each property must catch, the source
lines of every definition, the hazards and the theorems.

## 1. Inventory

Draton source goes through the lexer, the parser, the type checker (with the
ownership and exhaustiveness checkers), monomorphisation and LLVM code
generation, and is linked with the runtime. `drat` drives all of that, and the
language server reuses the front end. Only the runtime and the commands that
share files between processes are concurrent; the compiler is sequential.

| Component | State | Operations | Hard part | What makes it correct |
|---|---|---|---|---|
| Channel (`draton-runtime/src/scheduler/channel.rs`) | buffer, capacity, two counters, a mutex, two condition variables | send, recv | overtaking, spurious and lost wake-ups | first in, first out; within capacity; nobody sleeps who could go on |
| Scheduler (`scheduler.rs`, `coreroutine.rs`) | injector, a deque per worker, `active_jobs`, a shutdown flag, parked workers | spawn, worker loop, steal, park, shutdown, wait_for_idle | steals, lost notifications, panics, shutdown | a job runs at most once, and is taken at last; idle means idle; shutdown returns |
| Global runtime (`scheduler/mod.rs`, `lib.rs`) | a slot with the current pool, under a mutex | init, spawn, shutdown | joining under the mutex, lookups of a pool that is shut down meanwhile | one live pool; no job lost; shutdown returns |
| Cooperative runtime (`scheduler/coop.rs`) | a queue, the flag `running`, the call stack | spawn, yield, send, recv, shutdown | nested calls of everything | one loop; tasks in order; programs that can end do |
| Stage-0 cache (`drat/src/commands/selfhost_stage0.rs`) | a binary, sources and a lock directory on disk | look, lock, reap, build, release, run | processes killed anywhere, looks that are out of date when used | one builder; only complete binaries run; everyone ends |
| Ownership checker (`draton-typeck/src/ownership.rs`) | function summaries; per binding a state and its borrows; planned frees | infer summaries to a fixpoint, walk bodies, plan frees | order of inference, loops, branches, closures | summaries are the fixpoint; no use after move; one free per owned value |
| Type checker (`check.rs`, `infer.rs`, `unify.rs`, `env.rs`) | substitution, environments, method and field tables | predeclare, infer every item, unify, generalise, instantiate | recursion, rows, interfaces, bindings used before they are solved | what it accepts does not go wrong when it runs |
| Exhaustiveness (`exhaust.rs`) | none | check a match | nested patterns | accepts only exhaustive matches; no redundant arm is ever taken |
| Lexer, parser (`draton-lexer`, `draton-parser`) | cursor, errors | next token, parse, synchronize | recovery, lookahead | always advances; what it drops is reported |
| Code generation (`draton-codegen`) | LLVM module, scopes with planned frees, symbols | declare, emit | frees on every path; the order of the stages | a planned free meets a value the function still owns; every symbol that is looked up is there |
| Monomorphisation (`mono.rs`, `mangle.rs`) | queues of instances, the names seen | collect, name, specialise | instances that make instances, names that clash | a closed set, once each; an end |
| `drat` (`drat/src`) | files | build, task, test, fmt, lint, doc, repl, publish, update | staleness, task cycles | stale artefacts are rebuilt; dependencies run first, once |
| Language server (`draton-lsp`) | open documents | didOpen, didChange, didClose, requests | order of messages | answers from the last text |
| Standard library, self-host mirror, scripts | - | - | - | not modelled (see below) |

How they interact: generated code and tests call the runtime through
`draton_runtime_init`, `draton_spawn`, `draton_yield`, `draton_chan_*` and
`draton_runtime_shutdown`. A job that waits in a channel holds its worker. The
features `scheduler` and `coop-scheduler` choose between two implementations
of the same entry points. The front end's phases hand over whole data
structures; function summaries go from the ownership checker's first pass to
its second, and planned frees from there to code generation. Processes of `drat
selfhost-stage0` meet only in the file system.

The hazards, each at its line and with the properties aimed at it, are in
`PROJECT.json`.

## 2. Modules

| Module | Models | Kind |
|---|---|---|
| `Chan` | the threaded channel | component |
| `BoundedFifo` | what a channel promises | abstract specification |
| `ChanProofs` | theorems about `Chan`, the refinement of `BoundedFifo` among them | proofs |
| `Scheduler` | the work-stealing scheduler | component |
| `JobPool` | what the scheduler promises, and what each of `Runtime`'s pools is | abstract specification |
| `SchedulerProofs` | theorems about `Scheduler`, the refinement of `JobPool` among them | proofs |
| `Runtime` | the global slot, its pools of workers, and a channel between their jobs | composition |
| `RuntimeProofs` | theorems about `Runtime` | proofs |
| `Coop` | the cooperative runtime and its channel | component |
| `CoopProofs` | theorems about `Coop` | proofs |
| `Stage0Cache` | the stage-0 cache shared by processes | component |
| `Stage0CacheProofs` | theorems about `Stage0Cache` | proofs |
| `Summaries` | the first pass of the ownership checker | component |
| `SummariesProofs` | theorems about `Summaries` | proofs |
| `RecursiveDescent` | the cursor, the calls and the errors of the parser | machine |
| `Parser` | every parsing function, as code of that machine | component |
| `CodeFlow` | what can be told of such code without running it | analysis of the code |
| `RecursiveDescentProofs` | theorems about the machine, for any code of which that is right | proofs |
| `Ownership` | the second pass of the ownership checker | component |
| `Frees` | code generation's frees, and the run of the function, over `Ownership` | composition |
| `Types`, `Exhaust`, `Infer` | unification; the check of matches; the walk of the type checker | component |
| `Typing` | a program checked, then run | composition |
| `Collector` | the work list of monomorphisation, for any walks and names | component |
| `CollectorProofs` | theorems about `Collector` | proofs |
| `Mono` | the walks and the names, over `Collector`, and the stages of code generation | composition |
| `MC*` | instances for TLC | models |

### Chan

The state of `ChanState` (buffer, capacity, the two counters of blocked
threads) and, per thread, its calls and its phase: outside, on its way to the
mutex, in `Condvar::wait`, or on its way back to the mutex. Everything the code
does it does with the mutex held, so a step is the code from one acquisition of
the mutex to the next point where it is given up: `SendPush` and `RecvPop` end
in a return (with `notify_one`, which wakes any one sleeper), `SendWait` and
`RecvWait` in a wait. Neither the mutex nor the condition variables are fair,
and `SpuriousWake` wakes anybody at any time. The decrement after a wait
belongs to the step that follows it. `sent` and `received` are history.
`ImplementsFifo` maps the buffer to `BoundedFifo`'s queue, and a thread that is
not idle to one that is inside a call: a call takes effect in `SendPush` or
`RecvPop`, and everything else is invisible from outside.

Not in the model: a poisoned mutex (the code goes on with what it guards), and
`drop`, which by its contract nobody races.

### Scheduler

One `Scheduler` with its workers, its owner, and jobs as model values. Each
access to an atomic, a deque or a condition variable is a step, so a spawn is
three (`fetch_add`, push, `wake_all`) and a worker's round is several: the
shutdown flag, its own deque, the injector, each of the other deques, the park.
`crossbeam`'s deques are taken at their word: operations are atomic, a batch is
at most half of another worker's deque or any part of the injector, and a steal
may answer Retry only while another worker is at a queue (`Contended`). A notification reaches the workers
that are asleep at that moment and is not remembered, because `wake_all` does
not take the mutex the workers park under. A panicking job takes its worker
thread with it (`Panic`): the deque survives, the decrement does not happen.
The threads in `Outside` share the `Scheduler` (it is handed around in an `Arc`) and
spawn at any time, during and after `shutdown` too, as nothing in the code prevents it.

`ImplementsJobPool` maps all of that to one set of waiting jobs: a job enters it
when it is pushed, and leaves it with the pop or the steal that returns it; what
else a batch moves, the counter, the parks and the wake-ups are invisible. A worker
that has read the flag is the abstract worker that was let in (`Enter`), and what
it finds after the flag is stored is the one job it may still take.

### Runtime

The global slot: `init_global`, `spawn_global` and `shutdown_global`, called by
threads of the program and by jobs, with a program (a list of operations per
thread and job) as the environment. The slot's mutex is what makes it
interesting: `SpawnLookup` and `RuntimeInit` need it for one step,
`shutdown_global` keeps it (`holder`) from the moment it takes the scheduler out
of the slot until all workers are joined, and `spawn_raw` pushes onto the
scheduler it looked up after it has given the mutex up. A pool is a set
of waiting jobs and workers that ask for the flag before they look; a worker that
looks may miss a job, which can arrive at a queue it has already passed. The channel
is a buffer with the bound of `BoundedFifo`, of which only the number of messages
counts. A job in a channel operation keeps its worker.

The composition is on the abstract level: `Scheduler` implements `JobPool`
(`ImplementsJobPool`), and each pool of `Runtime` is one (`PoolsAreJobPools`), opened
by an init, submitted to by pushes of other threads and of jobs of other pools, closed
when shutdown takes it from the slot, joined when shutdown gives the mutex back.
`home` is history: the pool a job was pushed onto, which tells a job that is over from
one that never was this pool's.

### Coop

The build with `coop-scheduler`: one thread, and a task that is spawned,
yielded to or waited for is a function call. So the state is a call stack.
`Loop` is a frame of `run_to_completion`, pushed by a spawn that finds `running`
false; `Yield`, `SendYields` and `RecvYields` push a frame of the task they
call. An operation is atomic up to its call: with one thread the spin locks are
free. A `recv` with no message and no pending task spins; it has no step, and
the program then stands still, which is what the liveness property is about:
`EndsUnlessBuried` says that it happens only to a frame that waits for one
beneath it, and never to programs whose producers come first.

### Stage0Cache

Processes that run the same stage-0 command share a directory with the binary
and the sources, and a lock directory beside it. Each file-system call of
`build_stage0_binary` and `acquire_stage0_cache_lock` is a step: the existence
of the binary, its time, the lock, `create_dir`, the read of `owner.pid` by
others, the lock's age, the build from scratch. `fs::write` and `remove_dir_all`
are two steps each: `OpenOwner` creates or truncates `owner.pid` and `WriteOwner`
puts the pid into the file that was opened (`opened`), `ReapOwner` and `Unlock`
delete `owner.pid`, and `ReapDirectory` and `DropDirectory` the directory that has
the name by then, if it is empty. The linker's output exists before
it is complete. `Crash` kills a process between any two steps. The binary is
abstracted to its relation to the `drat` executable (older, or not) and to
whether it is complete. `misreaped` is history: somebody removed the lock, or the
`owner.pid`, of a process that has it. `ProcFs` says whether the system has a `/proc`;
without one every owner counts as dead. Process ids are not reused, and no two
are written over one another in one file.

### Summaries

`tarjan_scc` and `infer_function_summaries`. The search is written as the
recursion runs: a stack of frames, each with the callees it has not looked at;
`Root` and `Edge` pick the next function or callee in any order, as the maps do.
`Finish` pops a component and hands the lowlink to the caller's frame. Then the
components are taken from the last to the first, and the functions of each are
visited (`InferNext`) in passes until a pass changes nothing (`PassEnds`). A
body is what `SummaryWalker` makes of it: effects a parameter is raised to, and
parameters of callees it is passed to, in any combination. A function has an
entry (`present`) from the first visit that finds something other than the
default; without an entry a call is taken to read its arguments.

### RecursiveDescent and Parser

A parsing function is a sequence of instructions, one for each call it makes on
the cursor or on another parsing function: `Need` is an `expect` followed by
`?`, `Want` one whose result is dropped, `When` and `IfAt` are tests, `Each` and
`While` the two kinds of loops, `Sub`, `Try` and `IfFails` calls whose `None` is
passed on, dropped, or answered with a recovery. `RecursiveDescent` executes
them, with the stack of calls as state; the text is an opening and then
whatever tokens the cursor is shown, up to `Free` of them. `Parser` is the table of
instructions, function by function in the order of the source. Recovery
(`synchronize`, `synchronize_stmt`) is code like the rest. The two lookaheads, two
tokens for a class literal and any number for the type arguments of a generic one,
are an instruction of their own, and choose the tokens they get to. `told` is history: the depth at which the last error was
recorded that nobody has returned past, so `ret = "none" => told > Len(stack)`
says that the call that returns None recorded it, or one that it made did.

`CodeFlow` is an analysis of such a table, as a compiler would do one: at each
instruction of each function, what the calls that get there may owe (the closing
brackets of those they have taken), what the current token may be, and whether a
token has surely been taken since the call began. `FlowAssumption` says that the
given facts follow from each other along the instructions and across the calls;
`MCParser` computes them from the parser's table, and TLC evaluates the assumption
on all of it. `Level` is how deep the calls of a function go before a token is
taken, computed from the same table.

### Ownership and Frees

`Ownership` is the walk over a body: for each binding a state (owned, moved,
escaped, borrowed), what it is lent to, what closures hold it, and the joins at
the ends of branches and loops. What a call does to its arguments comes from the
callee's summary (`Effects`), or else from the declared type of a closure (`Contracts`).
It reports uses after moves and clashes of
borrows, and plans frees: at each statement of a block for the bindings that are
owned and dead behind it. The live sets are computed as the code does, anew for
each block. `Frees` takes what the checker planned and runs the function: code
generation's pending frees, the frees behind a block's last statement if it leaves no
value (a call of a function in `Voids` does not), the old value of an assignment. A run knows which value each binding holds, what was
given away and what was freed, and records what goes wrong (`moved`, `freed`,
`moved_freed`, freed twice). `RunFn` takes all paths, with loops up to `Rounds`
rounds. Two histories of the walk make precise where the promises end: `missed`, a
use of a binding whose free was already planned, or one in a block of raw pointers
that is not reported, and `renewed`, an assignment to a binding that had no value
of its own, or whose value a closure holds.

### Types, Exhaust, Infer, Typing

`Types` is the substitution, the environments and the unifier with its rows,
`Exhaust` the two checks of a match, `Infer` the walk of `check.rs` over items,
statements, expressions and patterns, in its order, with the result type, the
effect and the placeholders of functions as the code keeps them, and the last
look for variables that stayed open. `Typing` checks a program as `check` does
(`DeclareStep` for the placeholders, an `ItemStep` for each item, `CheckStep`
for the end) and, whatever the checker says, runs `main` by what the language
means: an operation takes the values it is defined on or is stuck. The evaluator
is no code of the repository; it is the reference the checker is held against.
What a comparison yields is chosen once for a run.

The checker leaves some things open on purpose or by omission. A step that does
so is recorded in `waved`, and the properties speak of programs without one:
`general` (a let generalises over a variable that a solved type of the
environment still has), `row` (two rows with different fields meet), `method` (a method
on an unknown receiver, or one the receiver's type does not know), `forward` (a
method is used before its own inference), `mutable` (a binding with a
generalised type is assigned to or filled), `effect` (a function's result is wrapped
after somebody used it), `interface` (a class meets an interface, in either
direction), `name` (a bare variant name as a pattern binds), `nested` (a pattern
inside a constructor).

### Collector and Mono

`Collector` is `MonoCollector::collect`: a walk is a sequence of mentions, each looked
at in a step of its own (`Visit`), and when none is left, the loop takes an instance
of a class and one of a function off their queues in turn (`CollectClass`,
`CollectFn`) and walks it, until both are empty (`Collected`). What a walk mentions, and
under which symbol an instance is known, are parameters: a walk reads the program
and the instance, never the collector. That is what the theorems quantify over.
`CutOff` is the bound of the runs.

`Mono` gives it the real walks and names and goes on with `CodeGen::emit`, stage by
stage: each `Declare` and `Emit` action is one stage, with the layouts and symbols it
adds and those it looks up. Names of instances are sequences of words
and underscores, so that two instances may come to have one name, as in the
code. A specialised body has its types substituted and then materialised, and the
lookup in it starts from these. `Reached` is the reference: the closure of what a
program mentions, computed from the declared type parameters, without queues, names
or an order.

## 3. Runs

Every property of a passing run has a mutant in `PROJECT.json`: a plausible slip
in the mapped code under which the property fails in that same run.

| Run | Instance | What it shows |
|---|---|---|
| `chan` | 4 threads, up to 3 calls each, capacities 0, 1, 2 | exact counters, no lost wake-up, everyone goes on, and the refinement of `BoundedFifo` with its fairness, first in, first out included |
| `scheduler` | 2 workers, 3 jobs, one may panic; a thread outside that spawns | jobs in one place, an exact counter, stable idleness, every job taken, shutdown returns, the refinement of `JobPool` |
| `runtime` | 2 threads, 2 jobs, 6 programs, pools of at most 2 workers, 4 pools, capacity 1 | one pool alive, no job lost, every pool a `JobPool`, shutdown returns when nobody needs the slot, balanced programs end or every worker waits in the channel |
| `runtime_shutdown` | a job that spawns a job while the runtime is shut down | *violated*: the shutdown waits for a worker that waits for the slot |
| `coop` | `Main` and 3 tasks, some 340 programs, capacities 0, 1, 2 | one loop, order, balanced programs end or a frame waits for one beneath it, and with producers first they end |
| `stage0_cache` | 3 processes, at most 1 killed | one builder, complete binaries, fresh ones kept, everyone ends unless `owner.pid` was left empty |
| `summaries` | 3 functions, 2 parameter places, some 780 programs | exact components, callees first, no needless strictness, cycles converge, an end |
| `parser` | some 50 openings, each with any 2 tokens behind it | an end but in one named case, nothing dropped without an error, the brackets that are parsed in pairs, bounded depth |
| `frees` | 12,667 functions with 2 owned bindings, two closures and a loop variable | uses of moved values are reported; planned frees meet owned values; planned where the binding is defined, they are safe |
| `frees_early` | the same, with an if | *violated*: a value that is read after the if is freed at the end of a branch |
| `types` | 16,749 programs in 12 families | accepted programs are never stuck, no match falls through, no redundant arm is taken |
| `mono` | some 1,600 programs around 11 generic items | nothing reached is missed, lookups succeed but in three named cases, the list runs empty unless a class grows |

Bounds, and why they are enough:

- `chan`: two threads of a kind are needed for one to overtake another that was
  notified, and a third to be asleep meanwhile; the plans have two against two,
  one against three and three against one. Capacity 2 is the least at which the
  buffer is neither full nor empty.
- `scheduler`: two workers steal from each other; three jobs give a batch of two
  (half of three, rounded up), a job that spawns another, and a job in the deque
  of a worker that has died. One thread outside spawns all three, before, during and
  after the shutdown, which is called by a thread of its own.
- `runtime`: `MaxPools` is at least the number of schedulers any of the programs
  can create, so `InitGlobal` is never cut off. Two workers and a capacity of
  one let a consumer, a producer and a shutdown meet. A spawn that comes before
  init makes a pool of one worker for two jobs, the case in which `ProgramsEnd`
  lets every worker wait.
- `coop`: with three tasks a call can nest inside a call inside the loop, and a
  shutdown by a task leaves a task behind it.
- `stage0_cache`: one process dies with the lock, one finds it, and a third
  takes it in between. `MaxCrashes` bounds only how many processes are killed.
- `summaries`: every graph over one parameter of three functions with at most
  two arrows from each, so chains and cycles of every shape at that size, and
  self-calls; the programs with two parameters have the cycles in which a late
  entry lowers an effect.
- `parser`: the openings lead into every loop and every function with a
  recovery, and two free tokens are what a failing call, the recovery behind it
  and the loop's next test look at. `CallsPerToken = 5` is the longest chain of
  calls that takes no token: `Level` is computed from the table, and
  `FlowAssumption` says that no call is out of it. `Length` is the longest of these
  texts; the theorems hold for any.
- `frees`: three statements after a definition, or one compound statement with
  blocks of up to two statements and one on either side of it. A move in one
  round of a loop shows in the second, hence `Rounds = 2`.
- `types`: each family pairs everything that can be done to a parameter with
  everything that can be done to the result, so each rule meets each other one
  once; `Depth = 3` nests calls deeper than any program that does not recurse.
  Matches have up to three arms.
- `mono`: every pair of uses of the generic items. `MaxInsts = 10` is above what
  any program without a growing class needs, which is what `CollectionEnds`
  says.

Deadlock is not checked anywhere: each of these systems stops when its programs
have ended, and what it must have reached by then is a property of its own. The
models of the compiler compute one result for each program and stop.

Fairness is weak fairness of each thread's own steps: the operating system runs
every thread that can run, and timeouts (the park of ten milliseconds, the five
seconds of an orphaned lock) pass. Nobody is assumed to begin a call, to spawn,
to shut down or to be killed, and the 600 second timeout of the cache lock is
not assumed to fire. There are three stronger assumptions. `Scheduler` has strong
fairness of `StealBatch`: a steal answers Retry only because another thread took
something, so a worker does not lose for ever against a queue that never empties.
`Runtime` has, for each pool, strong fairness of its workers' taking a job: workers
that look again and again do not miss a waiting job for ever, which is what
`EveryJobRuns` says of `Scheduler`. `Completes` of `Chan` is conditional: it assumes
that the threads go on calling.
`Coop`, `Summaries` and the parser run on one thread, whose next step is taken.

Two disagreements with what the repository says of itself have a violated run:

- `lib.rs:683` says the shutdown "joins worker threads". It keeps the slot's
  mutex while it does (`mod.rs:56`), and a job that spawns needs it.
- `inferred-ownership-spec.md:14` says that frees come "after the last owned use",
  and :674 "keep `name` live across both branches". `compute_live_after_block`
  starts each nested block from an empty live set (`ownership.rs:1579`): in
  `let a = new; if c {} else { a = new }; read(a)` the new value is freed at the
  end of the branch and then read.

Seven more definitions state what the code does not keep. No run is spent on them;
add one as INVARIANT (`ParseEnds`, `NoErrorWhileWaiting` and `EveryProcessEndsAtOnce` as PROPERTY) to the
configuration of its module to see the counterexample.

- `QuietIsIdle` (`Scheduler`). `scheduler.rs:173` says `wait_for_idle` waits "until
  no queued/running tasks remain". A panic skips the decrement of line 105, and
  the wait times out.
- `NoErrorWhileWaiting` (`Stage0Cache`). `selfhost_stage0.rs:598` has the one
  failure the wait for the lock foresees, a timeout. A lock released between
  `create_dir` and the look at it (line 553) is another.
- `EveryProcessEndsAtOnce` (`Stage0Cache`). `fs::write` (line 580)
  creates `owner.pid` before it writes it. Who is killed in between leaves an empty
  one; `process_is_alive("")` looks for `/proc/`, so this owner lives for ever, its
  lock is no orphan, and every later process waits for 600 seconds and fails.
  `EveryProcessEnds` says that no other death has this effect.
- `PassedToMoveIsMove` (`Summaries`). `inferred-ownership-spec.md:216` makes a
  parameter a move parameter when it is "passed to a `move` parameter". The
  components come out of `tarjan_scc` callees first (`CalleesComeFirst`) and are
  taken from the end (`ownership.rs:426`), so the caller is done before the callee
  has a summary.
- `ParseEnds` (`Parser`). `parser.rs:34` says that `parse` returns "both the AST
  and collected errors". In `fn f() { elif` the statement fails at `elif` without
  taking it, and `synchronize_stmt` stops at it (`stmt.rs:27`): the loop of
  `parse_block` goes round for ever. So do the member loops of classes, layers,
  interfaces, `@extern` and `@type` blocks (`item.rs:220, 344, 424, 574, 623`) at other
  statement keywords. `EndsUnlessRefused` says that there is no other way.
- `GeneralTypesHold` (`Typing`, with `Families <- MCLets`). A let quantifies over a
  parameter's type when the parameter's variable has been bound to another one
  since (`check.rs:3503` asks the schemes as they were defined): a string is
  passed to a function that adds one to it.
- `EveryMatchCovers` (`Typing`, with `Families <- MCNested`). `README.md:101` speaks
  of "exhaustive `match` expressions with structured arms". `Ok(..)` counts as the
  whole constructor whatever is inside (`exhaust.rs:344`): `Ok(1)` and `Err(w)` are
  accepted, and no arm takes `Ok(2)`.

What else came up while the models were written, without a property of its own:

- *Summaries.* The specification says that they only rise
  (`inferred-ownership-spec.md:225`). Above reading they do (`StrongEffectsRise`,
  proved); a reading falls when a callee's first entry says less than what was
  assumed without it, so termination does not
  follow from the height of the lattice and is checked in its own right. Whether
  a parameter of a cycle is copied or read may depend on the order of the maps
  (`Late` in `MCSummaries`), which `CyclesConverge` confines to those two
  effects.
- *Ownership and frees.* A parameter that is only lent may be freed by the
  callee. An assignment frees the old value of a binding that was moved. In an
  else-if chain liveness and closures see the first branch only, and the frees
  of all branches are emitted behind it. `a ?? b` and the result of a match
  alias without a move. Uses of escaped bindings in loops, moves in the blocks
  of spawns and match arms, and two exclusive borrows in one call are not
  reported. A return frees nothing, because nothing is pending there.
- *Type checker.* `opt ?? rhs` does not compare the type of `rhs`. An unknown
  method of an array, a string or a number is accepted. A class and its
  interface unify in both directions. A method takes a top-level function of its
  name out of the environment. A cycle of inheritance is reported but stays in
  `class_parents`, and the lookup of a missing member then does not end. `fn
  f(p) { p.x; p.y }` loses a field (`check.rs:3737`). After `Ok(1)`, `Ok(v)` is
  called redundant though it runs (`RedundantNeverRuns` speaks of programs
  without nested patterns).
- *Monomorphisation.* A generic function taken as a value has no instance. A
  plain class with a field of type `Box[Int]` is laid out before the instances
  (`item.rs:62`). In a specialised body `Box[Int]` has become the plain class
  `Box__Int`, so the call of a function whose parameter spells out `Box[U]`
  finds no instance. `Pair[A_B, C]` and `Pair[A, B_C]` have one name, and the
  second is never collected. A type parameter that no field mentions shifts the
  arguments of a class without methods. The class `Grow[T]` with a field
  `Option[Grow[Box[T]]]` keeps the collector busy for ever (`mono.rs:73`).
- *Parser.* What is passed over unparsed may hold any tokens: `const a = Box[(]{}`
  and `@asm { ( }` are accepted, and `AcceptedIsBalanced` speaks of the brackets
  that are parsed. A doc comment before the `}` of a class is an error; `if name { }`
  parses as a class literal.

## 4. Proofs

Proved for every value of the constants, from the named assumptions of each
module (finite sets of threads and jobs, at least one worker, plans and programs
of the declared shape, a parser's table of which the analysis is right) and nothing
else:

| Module | Theorem | Says |
|---|---|---|
| `ChanProofs` | `TypeCorrect` | types, and the buffer never exceeds its capacity |
| | `CountersCorrect` | the counters of blocked threads are exact |
| | `WakeupsCorrect` | no wake-up is lost |
| | `FifoCorrect` | first in, first out |
| | `Refinement` | the channel implements the safety part of `BoundedFifo` |
| `SchedulerProofs` | `TypeCorrect` | types |
| | `JobsCorrect` | every job is in one place |
| | `ActiveJobsCorrect` | `active_jobs` is exact |
| | `IdleCorrect` | at zero, nothing is left anywhere |
| | `IdleStaysIdle` | and nothing comes back unless a thread outside spawns |
| | `Refinement` | the scheduler implements `JobPool` |
| `RuntimeProofs` | `TypeCorrect` | types |
| | `OnePoolAliveCorrect` | the workers that live are those of one pool |
| | `SpawnedJobsKeptCorrect` | a job that was spawned is queued, on a worker, or over |
| | `PoolsAreJobPoolsCorrect` | every pool implements `JobPool` |
| `CoopProofs` | `TypeCorrect` | types; the buffer stays within its capacity |
| | `OneLoopCorrect` | one loop at most, and `running` tells whether there is one |
| | `CalledInOrderCorrect` | tasks are called in the order of their spawns |
| | `MainSeesAllDoneCorrect` | when main goes on after a spawn, every task spawned is over |
| `Stage0CacheProofs` | `TypeCorrect` | types |
| | `OneBuilderCorrect` | one process at a time builds, if no living one's lock was reaped |
| | `RanCompleteCorrect` | what is run is complete, if nobody was killed either |
| | `FreshIsKeptCorrect` | nobody removes a binary that is up to date, on the same condition as one builder |
| `SummariesProofs` | `TypeCorrect` | types, indices within the number of functions |
| | `NothingStricterCorrect` | no summary is stricter than a chain of calls justifies |
| | `SearchCorrect` | the invariant of `tarjan_scc` |
| | `ComponentsExactCorrect` | it finds the strongly connected components, each once |
| | `CalleesComeFirstCorrect` | a component comes after those it calls |
| | `CyclesConvergeCorrect` | the effects beyond reading are the greatest reached inside the cycle, in whatever order the maps are visited |
| | `StrongEffectsRiseCorrect` | an effect beyond reading is never taken back, nor is an entry |
| `RecursiveDescentProofs` | `TypeCorrect` | types; the cursor never passes the last token |
| | `NoneReported` | a parsing function that returns None has recorded an error since it was called |
| | `BalancedCorrect` | in a text without an error, the brackets that are parsed are in pairs |
| | `DepthCorrect` | the depth of calls is at most `CallsPerToken` for each token taken |
| `CollectorProofs` | `TypeCorrect` | types |
| | `SymbolsDistinctCorrect` | no two instances of a kind have one symbol |
| | `WalkedOnceCorrect` | instances are walked once each, in the order they were found |
| | `MentionsServedCorrect` | at the end every mention has an instance of its symbol |
| | `CollectsExactlyCorrect` | the instances are the closure of what the program mentions, if symbols tell its members apart |
| | `InstancesBoundedCorrect` | no more instances of a kind than any finite closed set has members |

**Chan.** `TypeOK` is inductive, with two conjuncts that are there for the
others: a thread inside a call has a call to finish, and the bound of the
buffer. Each of the other three is inductive relative to it. The heart of
`WakeupsCorrect` is counting: `Covered` compares a number of units of work
(messages, places) with the number of woken threads, and four lemmas say what
a return, an overtaking, a wait and a notification do to both sides. A thread
that overtakes a woken one takes one unit away and leaves the woken one there,
which is why `notify_one` is enough. The refinement needs only that
initial states map to initial states and steps to steps or stutters.

**Scheduler.** `IInv` is `TypeOK /\ JobsInOnePlace /\ ActiveJobsExact`. The
counter alone is not inductive: `Discount` subtracts one for the job in the
worker's hand, which is right only if no other worker has the same job and no
queue does, that is, only with `JobsInOnePlace`. That one is about slots of
sequences: `PushSlots`, `PopSlots` and `BatchSlots` say that a push of a new job,
a pop and a batch that moves the middle of one queue to the end of another keep
all slots distinct and lose exactly the job that is returned; the batch is proved
by mapping each slot afterwards to the slot it came from.

The refinement needs one more fact, `FlagTells`: the flag is set exactly when shutdown
has been called, so a worker that reads it unset was let in by a pool that is
open. `StepImplementsPool` then has a step for each action; the pops
and steals are one, `Take`, because `JobsInOnePlace` says that what is at the head
of a queue waits.

**Runtime.** `IInv` is `PoolInv /\ JobInv /\ StoppedInTurn /\ Homes`. One pool alive is inductive only with
who holds the slot: `HolderShutsDown` says that the holder is inside shutdown with
the scheduler it took out, and `PoolsInOrder` that a scheduler that is made is a new
one. A job is kept because there is one spawn of it in all programs that are still
to run (`OneSpawn`; `SpawnsAssumption` says that of the programs at the start),
because before it the job is nowhere (`NotSpawnedNowhere`), and because afterwards it
is in one place (`Kept`, `InOnePlace`); the lookup of the scheduler and the push are
two steps, and nothing is assumed of what happens in between.

That every pool is a `JobPool` takes two facts more. `Homes`: a job that waits or runs
is where it was pushed, and one whose spawn is still to come has no home, so a push
is a submission of a new job to one pool and a stutter of all others. `StoppedInTurn`:
the pool in the slot has no flag set, the one a shutdown holds has, and a pool with the
flag set is one that was made; so a pool is closed once, by the shutdown that takes it from the slot, and
joined once, by the same. Each step is then split into what it does to the pool it
is about and a stutter of the rest. With `Scheduler`'s refinement the argument has two
levels: what is proved about `Runtime` uses of a scheduler what `JobPool` allows,
and `Scheduler` does nothing else.

**Coop.** `OneLoop` is about a flag and a stack: `LoopFlag` says that `running` is
true exactly while a loop is on the stack, and `QueueHasLoop` that a task is never left
in the queue without a loop beneath, as long as no task called shutdown (`cleared`).
The return of a frame is what could break it: the lemmas on stacks say which frames
a push and a return leave where they are. `MainSeesAllDone` rests on both and on
`CalledGoOn`: a task that was called is on the stack as long as it has something
left to do. When main is alone on the stack there is no loop, so nothing is queued; and
no other frame, so what was called is over.

**Stage0Cache.** `IInv` collects what a process at a step may rely on, under the
conditions that make it so: while no living process's lock was reaped, a process in the
critical part is the maker and the owner of the lock (`LockIsMine`) and the binary is
what its step needs (`BinaryFits`); while also nobody was killed, a partial binary
has somebody at work on it (`PartialIsAttended`). `OpenedIsThere` says that only an
`owner.pid` that is in the directory counts as open, so that a pid is written into the
lock whose file was opened. `LocksAssumption` says that no lock is taken for the absence of one;
with `/proc` or without (`ProcFs`) makes no difference to the proofs. The conditions are needed: without
any one of them TLC finds the property violated on the same instance.

**Summaries.** The strictness (`NothingStricterCorrect`) is inductive with the types
because an inferred effect beyond reading is either raised by the body or stands in a
callee's summary, which the invariant justifies, and what a callee's parameter
reaches its caller's parameter reaches too (`ReachStep`). It needs nothing about the
order of the components. The rest does.

The search: `TarjanInv` is `Numbers /\ Lows /\ CalleesComeFirst /\ Components`. The
stack is sorted by index, and so are the nodes of the frames, which cut the stack
into segments. In a segment every function reaches the frame's node and is reached by
it (`Mutual`); the node's lowlink is no more than the index of anything on the stack
that a call seen so far leads to from the segment (`LowEnough`), and is the index of
something that is reached (`LowReached`). So when a call ends with its own index as
lowlink, its segment is one component: its functions reach each other, and what they
call is in it or in components found before, so the union of these is closed under
calls. `Reach` being the least closed set that holds its start, nothing
else is reached, and no path has to be spelled out. When it ends with a lower one,
its segment goes to the caller's, which it reaches.

The inference: a function that is visited finds no entry of a component that comes
later (`LaterAbsent`); in a pass without a change every function visited so far has
the summary it would be given again (`PassStable`); and a component that was left is
`Closed`: none of its parameters asks for less than what it is passed to inside the
component. With the strictness that makes the effects beyond reading the
greatest reached, whatever the order was.

That these effects only rise (`StrongEffectsRise`) needs none of this but `Founded`: an
effect above reading has a reason, in the body or in the entry of a callee, that is
still there whenever the function is visited again, because entries stay and what they
say above reading rises.

**RecursiveDescent.** The theorems hold for any table of instructions in which
a call is to a function of the table and `surrender` (return None without an
error of its own) stands only behind a recorded error or a failed call
(`CodeAssumption`; TLC evaluates it for `Parser`). `IInv` is
`Calling /\ Cursor /\ open \in Seq(Brackets)`. `Calling` is what makes
`NoneIsReported` inductive: a caller is always at an instruction, and a function that
stands before a `surrender` has seen an error at its own depth or below. One lemma
for each way the stack changes (`GoKeeps`, `LeaveKeeps`, `PushKeeps`,
`InsteadKeeps`) carries it through the instructions; the cursor is separate.

The balance and the depth are proved from `FlowAssumption` and `LengthAssumption`, for
texts of any length. The invariant `Flowing` says that the facts of `CodeFlow` hold
where each call is (`Placed`), that the current token is one of those shown there (`Shows`),
that the depth is within what the tokens taken so far pay for (`Shallow`), and, while
no error is recorded, that the brackets still open are the calls' debts, one after the
other (`Paired`). `Paired` is the hard one: the list `open` has to be split among the
calls, and a call that returns owes nothing, one that begins owes nothing yet, and one
that takes a closing bracket pays the first of its own. The lemmas on `Splittable` say
what each of these does to the splitting.

**Collector.** `Inv` says that the symbols seen are exactly those of the instances
(`SeenExact`), that what waits is the end of what was found (`WalkedOnce`), that what
a walk mentioned is seen, but for the places the present walk has left
(`MentionsSeen`), that every instance lies in each set which is closed under
mentioning (`NothingSpare`), and that the collection ends with nothing waiting
(`EndsEmpty`). At the end, then, the instances are closed up to symbols. If a symbol
names one member only of what the program demands, closed up to symbols is
closed, and with `NothingSpare` the instances are the least closed set. The condition
is the one the code needs: `Mono`'s `NamesClash` is where it fails. `InstancesBounded`
counts: instances have different symbols and lie in the closed set, so there
are no more of them than it has members, and with `WalkedOnce` each is walked once.

What TLC found first in each case is the same formula on the small instance: the
invariants of the runs, and of the strengthening parts all that can be enumerated
there (`Paired` on part of the states of the parser).

The type invariants of the components with proofs are all proved, and take up no
property of a run. Nor do `FifoHistory` (which the refinement of `BoundedFifo` implies),
`MainSeesAllDone`, `StrongEffectsRise` and the properties of `Collector`, which runs as
part of `Mono`; TLC agreed with each of them on the instances of these modules before
it was proved, but for those of `Collector` that quantify over all sets.

Only model-checked: everything about liveness (`Completes`, `EveryJobRuns`,
`ShutdownReturns`, `ProgramsEnd`, `EndsUnlessBuried`, `EveryProcessEnds`,
`InferenceTerminates`, `EndsUnlessRefused`, and the fairness of `BoundedFifo`),
which needs ENABLED and is beyond the prover; and the walks over programs
(`Ownership`, `Frees`, `Types`, `Infer`, `Typing`, `Mono`), which are recursive over
trees and types, out of the provers' reach. So `MovesAreSeen`, `FreesOnlyOwned`,
`FreesAreSafe`, `AcceptedRunsWell`, `MatchesCover` and `RedundantNeverRuns` have no
theorem. Of `Mono`, the work list is proved (in `Collector`, whatever the walks
are); that the walks mention what code generation will look up (`NothingMissed`,
`EmissionFinds`), and that only a growing class makes a program demand infinitely many
instances (`CollectionEnds`), is checked. What `Exhaust` accepts is part of `Typing`'s run.

## 5. Not modelled

- The wait graph of the scheduler (`record_wait`, `clear_wait`,
  `detect_deadlock`): only unit tests call it. `io.rs` does nothing yet.
- Dropping a channel or a scheduler while it is used: unsafe functions whose
  contract excludes it.
- The runtime's other entry points (strings, arrays, printing, arithmetic):
  pure functions or memory layout.
- Memory models: atomics are taken as sequentially consistent. The scheduler
  uses acquire and release on one flag and one counter, each read on its own;
  the jobs themselves pass through the deques.
- Of the parser: the trees it builds, the levels of precedence (all accept the
  same operands) and warnings.
- Of the type checker: generic classes, pointers, error and extern items, hints
  of `@type` blocks, deprecated syntax, `@gc_config`, spans.
- Of the ownership checker: blocks of raw pointers beyond what they reject; spans.
  The bodies of match arms and of spawns are not in the model because the code
  does not walk them.
- Of code generation: instructions, closures, vtables, built-ins and collector
  metadata. Their content is their output, and a model would repeat the code.
- Of monomorphisation: row types (no pattern ever matches one), constants and
  compile-time conditions (whose bodies are neither visited nor emitted).
- The task runner: one depth-first recursion with two sets of names.
- The lexer, the formatter, the linter, the AST and the
  remaining `drat` commands: one pass over text or trees, whose content is their
  output; a model would repeat the code.
- The language server handles one message after another and analyses the whole
  text each time: no state survives that could be stale.
- The standard library, the self-host mirror in `compiler/`, scripts and
  editors: I/O, a second copy of the front end, packaging.

Sources of all of them are listed in `PROJECT.json` with the reason.

## 6. Plan

The system's own logic is modelled. What is left, in this order:

1. An abstract specification of a value that is built by one process and is complete
   or absent, implemented by `Stage0Cache` while nobody is killed; `Coop`'s channel as
   a `BoundedFifo`.
2. Generic classes in `Infer`, and with them the composition of `Typing` and `Mono`:
   that an accepted program's instances are found, on programs that are checked first.
3. A body for match arms and spawns in `Ownership`, when the code walks them.
