# A verification project for Justxm

Justxm is a small C++ server framework in the style of sylar: ucontext fibers,
a thread class with its semaphore, mutex and read-write lock guards, a logger
with appenders and pattern formatters, and typed configuration variables that
are loaded from YAML. This directory holds TLA+ modules that model it, TLC
configurations that check them on small instances, and TLAPS proofs for all
instances.

Everything is run in this directory: `tlc -config Fiber.cfg MCFiber`,
`tlapm FiberProofs.tla`. `PROJECT.json` lists the runs with their properties,
and maps every definition to the source lines it models.

## The system

| Component | State | Operations | Talks to |
|---|---|---|---|
| Fiber (`Fiber/`) | per object `m_state`, `m_ctx`, `m_stack`, `m_stacksize`; per thread `t_fiber`, `t_threadFiber`; the counter `s_fiber_count` | constructors, `reset`, `swapIn`/`call`, `swapOut`/`back`, `GetThis`, `YieldToReady`, `YieldToHold`, `MainFunc`, `~Fiber` | the callbacks it runs, ucontext, the log |
| Threadx (`thread/Threadx.*`) | `m_thread`, `m_id`, `m_cb`, `m_name`, `m_sem`; per thread `t_thread`, `t_thread_name` | constructor, `run`, `join`, `~Threadx`, `setName`, `getPid` | its callback, its Semaphore, pthreads |
| Semaphore (`thread/Mutex.*`) | a POSIX semaphore | `wait`, `trywait`, `notify` | Threadx |
| Mutex, RWMutex and guards (`thread/Mutex.h`) | the pthread lock; per guard `m_locked` | guard constructors, `lock`, `unlock`, destructors | pthreads |
| FileLogAppender with FSUtil (`log/Log.cpp`, `util/Util.cpp`) | `m_filestream`, `m_lastTime`; the file system | `log`, `reopen`, `OpenForWrite`, `Mkdir` | events, the formatter, other processes |
| LogFormatter (`log/Log.cpp`) | `m_pattern`, `m_items`, `m_error` | `init`, `format` | Logger::setFormatter, the items of `FormatItem.h` |
| Logger, LogAppender, StdoutLogAppender (`log/Log.cpp`) | per logger name, level, formatter, list of appenders, root; per appender level and formatter | `log`, `addAppender`, `deleteAppender`, `clearAppender`, both `setFormatter`, setters | appenders, formatters, the root logger |
| LoggerManager, Singleton (`log/Log.cpp`, `util/Singleton.h`) | `m_loggers`, `m_root` | constructor, `getLogger` | Logger |
| LogEvent, LogEventWarp, the macros (`log/Log.h`) | the event, its text | `XM_LOG_LEVEL`, `~LogEventWarp` | Logger, the operands of the statement (user code) |
| LogLevel, format items (`log/`) | none | `ToString`, `FromString`, `format` | LogFormatter |
| ConfigVar, Config (`config/`) | `m_val`, `m_cbs` per variable; the registry | `setMVal`, `addListener`, `delListener`, `fromString`, `Lookup`, `LoadFromYaml` | listeners (user code), LexicalCast, yaml-cpp |
| LexicalCast (`config/Specialization.h`) | none | conversions | boost, yaml-cpp |
| Utilities (`util/`), tests, `main.cpp` | none | | |

What is hard here:

* **switches in two steps** - a fiber operation changes the thread-local pointer
  and the state first and the stack second; contexts are overwritten by later
  switches; stacks are freed by reference counts;
* **a handshake after the fact** - `Threadx::run` posts its semaphore when the
  callback is over, so constructors wait for callbacks and calls nest;
* **dropped results** - `RWMutex` and the guards ignore what pthread returns,
  `Mkdir`'s result is ignored, a stream that has failed is treated as closed;
* **user code in the middle** - listeners run inside `setMVal`, before it
  assigns, and may call everything; callbacks may throw;
* **time and order** - events are logged later than they are made;
* **copies of one thing** - a formatter is held by the logger and by each
  appender, a name by the object and the thread: several operations change one
  or both;
* **a statement with two ends** - a log statement compares levels, evaluates
  its operands, which is user code, and logs in a destructor;
* **other processes** - the log file is renamed, directories come and go
  between two system calls.

What makes each component correct:

* Fiber: `GetThis()` names the fiber that runs; a resumable fiber can be
  resumed and can give control back; stacks outlive their use and frames are
  not discarded; the counter counts. Altogether: asymmetric coroutines.
* Threadx: construction is a synchronous call; threads are joined or detached
  exactly once; objects are not used after they are gone; names agree.
* Locks: guards that say "locked" exclude each other; holds match guards;
  threads that do not nest never all wait.
* FileLogAppender: lines follow a rotation; directories are made; the stream
  recovers from what can be recovered from.
* Logger: what is in a list can print; a logger's formatter and its followers'
  agree; the registry has one logger per name with the root behind it; what a
  statement writes at its end fits what it began with.
* LogFormatter: a pattern is read completely and in one way; an accepted
  pattern has no error items; the scan ends.
* Config: every listener is told, and of the value that then holds; a load
  gives each variable its last good text, whatever fails elsewhere.

## The modules

| Module | Models | State of it |
|---|---|---|
| `Fiber`, `MCFiber` | `Fiber/Fiber.cpp` | checked |
| `Coroutine` | what `Fiber` promises: abstract coroutines | refined by `Fiber` |
| `FiberProofs` | | proved |
| `Threadx`, `MCThreadx` | `thread/Threadx.cpp`, `Semaphore` | checked |
| `SyncCall` | what constructing a `Threadx` amounts to | refined by `Threadx` |
| `ThreadxProofs` | | proved |
| `ScopedLock`, `MCScopedLock` | the guards and locks of `thread/Mutex.h` | checked |
| `SharedLock` | what a user of the guards counts on: a lock granted and given back guard by guard | refined by `ScopedLock` |
| `ScopedLockProofs` | | proved |
| `FileLogAppender`, `MCFileLogAppender` | the appender with `FSUtil` | checked |
| `FileLogAppenderProofs` | | proved |
| `Config`, `MCConfig` | variables, listeners, `LoadFromYaml` | checked |
| `ConfigProofs` | | proved |
| `LogFormatter`, `MCLogFormatter` | `LogFormatter::init` | checked |
| `LogFormatterProofs` | | proved |
| `Logger`, `MCLogger` | loggers, appenders, registry, macros, levels, format items | checked |
| `LoggerProofs` | | proved |
| `Workers`, `MCWorkers` | `Threadx` and `ScopedLock` composed, with the counter of `test/Thread.h` | checked |
| `WorkersProofs` | | proved |

Definitions that stand before a mapped definition, with a longer name and the
same parameters (`SwapOutStaysCurrent` before `SwapOut`), are broken variants:
replacing the definition by its variant makes a property fail. `PROJECT.json`
says which.

### Fiber

A thread, its native stack and its main fiber are one value `t` of `Threads`; a
fiber object and the stack it allocates are one value of `Fibers`. `run[t]` is
the stack that thread `t` executes; `m_ctx[o]` says whose *current*
continuation object `o`'s context holds, or nothing when the context is stale.
`swapIn` and `swapOut` are two steps: the assignments (`SwapIn`, `SwapOut`
inside `YieldToReady` and `YieldToHold`) and the `swapcontext` (`Switch`).
`reset` is three: the check of `m_state` (`Reset`, which leaves the fiber in
`checked[t]`), `makecontext` (`Remake`, `remade[t]`) and `m_state = INIT`
(`ResetDone`); `makecontext` on a stack that another thread has come to use
meanwhile is undefined.
Loading a stale context, or starting a stack of size 0, ends the model in the
status "undefined"; a callback that returns ends it with "exited", because
`uc_link` is null, or "crashed" when `~Fiber` frees the stack it runs on; a
callback that throws ends it with "aborted". Destruction follows the two
references there can be, the owner's and the local `cur` of `MainFunc`.

Constants say how fibers are used: `NestedSwapIn` (fibers swap in fibers),
`SharedFibers` (any thread resumes what reads INIT or READY), `StackSizes`.
`Disciplined` is the use the library supports, and the one of its tests:
neither nested nor shared.

* `Fiber` (disciplined, any stack size): all properties, and the refinement of
  `Coroutine`, in which starting a fiber may fail and end the program: that is
  what the default stack size leads to.
* `FiberFinish` (violation): a fiber that finishes takes the process with it,
  where `Fiber.h:47` says that it returns to the main fiber.

The other uses are covered by the theorems that do not assume `Disciplined`.
`NoStaleResume` does not hold for them: nested, `swapIn` overwrites the main
fiber's context; shared, READY is visible (`Fiber.cpp:156`) before the context
is saved (`Fiber.cpp:131`), so that resuming on it loads an old one. And
`FramesNotDiscarded` needs fibers that are not shared, since a `swapIn` on
another thread may come between `reset`'s check and its `makecontext`.

Also seen while modelling: `YieldToHold` never writes HOLD (`Fiber.h:45` says it
does), and `m_stacksize` stays 0 when the default size is allocated
(`Fiber.h:52`), which gives `makecontext` a stack of no bytes.

### Threadx

`x` in `Objects` is a Threadx object and its kernel thread. `pc[x]` follows
`run()`; `ctor[x]` is the thread that waits in `x`'s constructor, `joining[t]`
the object whose `join()` `t` is in. Callbacks can do what `main` can. Constants
allow `pthread_create` to fail, `sem_wait` to be interrupted, and callbacks to
join objects whose constructor is not over (their own, for example).

* `Threadx` (nothing fails): exactly one thread can go on as long as the process
  runs (`OneCanMove`: threads neither overlap nor wait in a circle), the
  refinement of `SyncCall`, no dangling use, no leaked or doubly joined thread, and under
  fairness constructors and joins return.
* `Workers` (below) allows all three; `interrupted`, the constructors that a
  signal has let go, is history for what is then still true.
* `ThreadxCreateFails` (violation): the constructor never returns.

Fairness: `Start`, `Notify`, `Constructed` and `Joined` are steps of threads
that can run, which the kernel schedules; `CallbackReturns` assumes that
callbacks end, which is the user's part of the contract. No fairness is put on
what user code chooses to do. Each is weak fairness of one thread's step: once
enabled, the step stays enabled until it is taken or the process stops.

Also seen: `getPid` on the main thread reads through a null pointer, and in a
thread whose object has been destroyed (after an interrupted wait) it reads what
has been freed: the model ends in the status "null" or "dangling".

### Workers

The program of `test/Thread.h:48-86`, made general: callbacks and `main` guard a
shared counter and increment it in two steps, make threads inside and outside
the guard's scope, join and destroy them. `Workers` extends `Threadx` and takes
`ScopedLock` by `INSTANCE`, with a thread's guard named like the thread; each
action is an action of one of the two, or a step of `++count`, whose thread is
neither in a lock call nor between the steps.

`Threadx` alone never runs two callbacks side by side, so that the guard would
have nothing to do: `Workers` is checked with interrupted waits, where they do
overlap. `NoLostIncrement` (whenever a thread ends its `++count`, the counter is
one higher than before) is then the guard's doing. A thread that has the lock
can be inside a constructor that waits for a callback that wants the lock, which
stops both, and therefore deadlock is not checked. `StandstillHasReason` says
what there is beside that: if nobody can go on, a thread keeps its guard while
it waits in a constructor or a `join()`, or a thread could not be created, or
somebody joins an object whose constructor has not returned, or has not waited
for it. `OnlySignalsReturnEarly` says what interrupted waits cannot spoil: a
constructor that was not interrupted itself has done its whole callback.

### ScopedLock

One lock, a Mutex or an RWMutex as `Init` chooses, and its guards. The pthread
lock is `writer` and `readers`; a lock call is two steps, so that threads wait
in it. POSIX's behaviour is the model of the C library: a default mutex makes
its owner wait for itself, a default rwlock refuses the writer's second request.
`refused` and `nested` record what has happened, so that one specification
tells what is guaranteed for which use.

* `ScopedLock`: until a call is refused, the guards on the pthread lock implement
  `SharedLock`, whose state is the sets of guards that share the lock and that
  have it alone (`ImplementsSharedLock`, with the guards that say "locked" as
  those sets), and holds match guards; without
  nesting, nothing is refused and the threads never all wait. Deadlock is not
  checked there, since a nested Mutex guard stops its thread for good;
  `NoStandstill` says the same of the use that should not stop.
* `RWMutexIgnoresError` (violation): a refused guard gives up a lock that it
  never had.

### FileLogAppender

Every system call is a step: `open`, `lstat`, `access`, `mkdir`, `open` again,
the write. Other processes act in between: `Rotate`, `MakeDir`, `RemoveDirs`,
`FillDisk`; `Tick` is the clock. `lost` is when the open file left its path.
Events take their time when they are made (`NewEvent`) and are logged later, in
any order (`Log`).

`RotationHonoured` is what the reopening is for. `UndisturbedReopenWorks` says
that missing directories are made at any depth; its exception, `disturbed`, is
needed because `Mkdir` gives up when somebody makes a directory between
`access` and `mkdir`. `OnlyWritesBreakStream` bounds a defect: `reopen` closes
only a good stream, and opening an open stream fails, so after one failed
write the appender drops all lines for good although `m_lastTime` moves on; the
property says that nothing but a failed write leads there.

### Config

The stack of `setMVal` calls in progress is a variable; the listener at its top
is the running code, and may do what a program may: set variables (its own
too), add and remove listeners, make variables, throw. Removing or replacing
the listener that runs is undefined behaviour and ends the model. A document is
the list that `ListAllMember` makes. `FromStr` is LexicalCast.

`ListenersKnowValue` excepts variables during whose latest change a listener
threw or set the variable again. Both exceptions are necessary, and follow from
telling listeners before assigning (`Config.h:49-52`).

### LogFormatter

One step per turn of the loop in `init`. The inner loop is given by what it
finds: where a name ends (`NameEnd`), whether a format follows, where it closes.
`Lossless` (writing the entries down gives the pattern back, also with `%%`) and
`OneReading` (no `%` in a text, no two texts in a row) together fix the result
for patterns without `%%`, `{}` and unclosed formats. For `%%` the code takes
the first `%` as text and does not skip the second, so `100%%` is refused as
erroneous.

### Logger

`logger[l]` and `appender[a]` are the fields of the objects; `m_loggers` is the
registry; `event` is what a log statement has made and not yet logged. The two
ends of a statement are two actions (`Statement`, the macro; `EndStatement`, the
destructor of `LogEventWarp`), and every other action may come in between, since
operands are user code. `Log` is a call of `log`, or one of `debug` to `fatal`,
by hand. The lines they write (`written`) are built from the loop of
`Logger::log` with its fallback to the root, which then is the logger that
prints (`Printer`, `Reached`), the levels of the appenders (`Printing`), the
items of the formatter (`Line`) and what each item prints (`Printed`).

`statement` is history: what the statement began with, the names its logger has
had since, and whether the logger's level let it pass and has stayed. `UserStep`
is everything else user code does; `History` keeps `statement` up to date.
`LineTruth` compares what is written at the end with that history. The level is
compared twice, in the macro and in `log`: `PassedIsWritten` says that the
second comparison holds nothing back that the first has let pass, except when an
operand has changed the level, which does silence the statement.

`follows` is history: whose formatter an appender has. `FormatInStep` is about
appenders in a list whose formatter came from that logger by `addAppender` or
`setFormatter(pattern)`; `setFormatter(ptr)` changes the list and not the logger
(`Log.cpp:319-325`), which makes its appenders follow nobody.

* `Logger`: in whatever order loggers are made and changed, also in the middle
  of statements.
* `LoggerOwnFormatter` (violation): `m_hasFormatter` is never set, so that
  `setFormatter` replaces the formatter of an appender that has its own, where
  `Log.cpp:321` says that it does not.

Also seen: `init()` of LogFormatter is public and `LogTest.h:11` calls it a
second time, which appends all items once more.

## Bounds

| Run | Instance | Why it is enough |
|---|---|---|
| Fiber, FiberFinish | 2 threads, 2 fibers, both stack sizes | threads interleave, and each has a fiber of its own or two; no counters need bounds |
| Threadx | 3 objects, 1 name | a thread made in a callback made in a callback, and siblings |
| ThreadxCreateFails | 2 objects | one object in another's callback |
| Workers | main, 2 objects, counter to 2 (`MaxCount`) | late posts and early joins need one object in another's callback; three threads want one lock, and two increments are enough to lose one |
| ScopedLock, RWMutexIgnoresError | 3 threads, 3 guards | a writer waits behind two readers; one thread has up to three guards |
| FileLogAppender | 2 events, 2 directories, clock to 10 (`MaxTime`) | one event waits while another is logged, one directory is made in another, three reopenings fit |
| Config | 2 variables, 2 keys, 2 values, 2 types, 1 document of 3 entries, `setMVal` nested twice (`MaxDepth`) | a listener of one variable sets the other or its own, the loop has a next and a last listener, texts convert or not before and after each other |
| LogFormatter | all 55987 patterns of up to 6 characters over 6 | every case of the scan with something before and after it |
| Logger, LoggerOwnFormatter | 2 loggers, 2 appenders, 2 names, 3 formatters of which one is also handed over as a pointer, lists of 2 appenders in all (`MaxListed`) | a logger with its root behind it or without, an appender in both lists or twice in one, a default, another and an erroneous formatter, a level below and above |

`MaxTime`, `MaxDepth`, `MaxCount` and `MaxListed` are the only bounds in guards.
Deadlock checking is off where the system may stop: processes end (Fiber,
Threadx, Workers), undefined behaviour ends the model (Config), nested guards
and guards kept while a thread is made (ScopedLock, Workers).

## What is proved

The proofs hold for all values of the constants, under the named assumptions of
the modules, which only say that sets are disjoint and bounds are numbers.

* **FiberProofs.** `AnyUse` (types, `CountInv`, `HoldInv`) is inductive for any
  use of fibers: a thread's stack is live, and whoever holds a fiber, a `reset`
  in progress too, holds one that exists. From it: `CountCorrect`,
  `StackAliveCorrect`. If threads do not share fibers (`Unshared`), so is
  `StackInv`: live stacks are never in a state that `reset` accepts, that state
  stays until `reset` is over, nobody's context but a fiber's own holds its
  fresh stack. From it: `FramesCorrect`, nested fibers included. Under
  `Disciplined`, `SwitchInv` is inductive relative to it: a thread is in user
  code with an accurate `t_fiber`, in `swapIn` on its own stack, or in
  `swapOut`; a fiber's continuation is in one place. From it:
  `NoStaleResumeCorrect`, `CurrentCorrect`, `MainCanResumeCorrect` and the step
  simulation of `CoroutineCorrect`. `CurrentIsRunning` is not inductive by
  itself: it says nothing of the moments between the two steps of a switch.
* **ThreadxProofs.** `TypeCorrect` and `NamesCorrect` hold whatever fails.
  `WaitInv` too: a thread posts on its way from the callback to its end, and
  takes that way once; a constructor without a signal takes that post away. From
  it: `PostedOnceCorrect`, `OnlySignalsReturnEarlyCorrect`. And so does
  `ForestInv`: the constructors in progress are a forest, stated as a property
  of every set of threads that is closed under being waited for. `SyncInv` needs
  waits that are not interrupted: a semaphore is up exactly while its
  constructor may return and has not, and one thread computes. From it:
  `OneAtATimeCorrect`, `ConstructedIsDoneCorrect`, `NoDanglingCorrect` and the
  refinement `SyncCallCorrect`. `ReapInv` also needs threads that can be created
  and joins of constructed objects (`Reasonable`); from it
  `NoLeakedThreadCorrect`. `ChainInv`, under the same conditions, says that some
  thread computes, that nobody waits for two constructors, and that a joined
  object's constructor is over; `OneCanMoveCorrect` follows: whoever does not
  compute waits for a callback or a constructor that somebody else is in, so
  that waits form a chain with one end.
* **ScopedLockProofs.** `LockInv` (holds match guards until a call is refused;
  readers and a writer never meet) and then `FlatInv` (without nesting a waiting
  thread has no lock, so no call is refused). From them exclusion, matching
  holds, and `NoStandstillCorrect`: the lock somebody waits for is held by a
  thread that does not wait. The refinement `ImplementsSharedLockCorrect`
  follows step by step: `LockInv` says that the pthread lock is free for a guard
  exactly when the sets of locked guards allow it in. What `SharedLock` promises
  (`Excludes`) is proved of it and carried back. Reader counts are
  cardinalities; lemmas say how they change when one guard locks or unlocks.
* **FileLogAppenderProofs.** `TimesInv` (a good stream's file left its path no
  earlier than `m_lastTime`, even though events are logged out of order) and
  `ReopenInv` (undisturbed, `Mkdir` has made what it has been at).
* **WorkersProofs.** The composition implements each part (`ThreadsCorrect`,
  `LocksCorrect`), so that the invariants proved of `Threadx` and `ScopedLock`
  hold in it without another proof. On top of them, a thread in the middle of
  `++count` has the lock exclusively and has read the present value; hence
  `NoLostIncrementCorrect`. `StandstillHasReasonCorrect` follows from
  `ForestInv`, which the composition inherits: some thread waits in no
  constructor and is waited for, and if it does not go on, that is because of a
  `join()` or of the lock, whose holder then goes on or waits with the guard. No
  assumption is made about signals, failures and joins.
* **LoggerProofs.** `ObjectTypes`, `AttachedCanPrint`, `FormatInStep` and
  `RegistrySound` are inductive together: `addAppender` hands on a formatter
  that is there because the logger's type says so, and `FormatInStep` survives
  `setFormatter` because every follower is in the list that is walked.
  `StatementInv` adds what is true while a statement goes on: its logger has the
  last of the names it has had, and is still below the event's level if that has
  not changed. From it, from what the items print and from `FromString` undoing
  `ToString`: `LineTruthCorrect`; and since a logger with appenders prints
  itself: `PassedIsWrittenCorrect`.
* **LogFormatterProofs.** `CleanInv`: while no error was found, no entry marks
  one and every item made is known. `ReadingInv`: `OneReading`, and the last
  entry of an unfinished scan is no text, so that pending text can be flushed
  behind it. `Advances` needs only that names and formats end behind where they
  begin. `LosslessCorrect` is about the concatenation of all entries, a fold: a
  set of numbers that has 0 and every successor has all numbers (`Inductive`,
  from the well-foundedness of `<`), and with sets of the form "the lengths for
  which the fold is so" that gives `FlattenSeqAppend`. Each case of the scan is
  then an equation between parts of the pattern.
* **ConfigProofs.** Lemmas say how the stack of calls changes (a call is
  pushed, popped, goes on, or owes less). `TellInv`: whom a call owes is
  registered, and told if the call has passed it. `KnowInv`: a variable without
  incident has at most one call, whose listeners so far were told its value;
  without a call, all were told the value there is. `LoadInv`: a variable that
  nobody else sets has the last good value of the entries passed, or the one
  call for it is the load's own. None of the three properties is inductive
  itself, because each is silent in the middle of a call.

Only model-checked: liveness (`ConstructorReturns`, `JoinReturns`), which is
beyond the prover. `OneCanMoveCorrect` is the part of it that is no liveness:
there is always a step to take, and fairness then has it taken.

## Not modelled

* Data races of the logger and its registry, which have no locks: `Logger` is
  the model of one thread. What the standard containers do under two threads is
  undefined, and there is no promise left to check.
* The text of events (`getSS`, `LogEvent::format`), the layout of times and
  numbers in lines, and what a stream does with a line.
* Log calls by hand in the operands of a log statement.
* Null formatters handed to setters, and loggers or appenders that are destroyed
  while others point to them.
* LexicalCast beyond its results, which are boost's and yaml-cpp's.
* `trywait`, `CalleMainFunc` and `ROOT_LOG`'s declaration of a variable in its
  caller's scope; `Noncopyable`; `GetThreadId` and `GetFiberId`, which read.
* Copied guards, guards unlocked by other threads and signals inside lock calls.
* The tests other than those `Workers` generalises, `main.cpp`, and the build:
  more than half of the repository's lines of C and C++ are the compiler
  identification programs that CMake has generated under `cmake-build-debug`,
  which are no part of the system; getters, declarations and includes make up
  most of what is left of its own lines.

## Plan

Order so far: Fiber, its abstract specification and proofs; Threadx and its
proofs; the locks; FileLogAppender; Config; LogFormatter; Logger; Workers; the
proofs about the last four; `SharedLock`, and freedom from deadlock of `Threadx`
and of `Workers`. Left:

1. **An abstract specification for `Config`**: a variable and its observers, of
   which `setMVal` without nested changes is an implementation.
2. **Logger with FileLogAppender**: late events of several loggers in one file,
   as a composition like `Workers`.
3. **Several threads in the logger**, if the code gets the locks its model needs.
