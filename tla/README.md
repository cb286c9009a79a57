# A formal model of crash_investigator

crash_investigator replaces `operator new`/`delete` and, on Linux, `malloc` and
friends of a program. It remembers where every block came from and where it
went, reports double frees, mismatched frees, bad reallocs and stacks that
allocate too much, and keeps libc from being corrupted by the program's
mistakes. These modules model its core, TLC checks them on small instances and
TLAPS proves all of their safety properties, each under stated conditions, for all
instances.

## Inventory

| component | state | operations | hard parts |
|---|---|---|---|
| Allocation analyzer (`core/basic/crash_investigator_alloc_dealloc_analyze.cpp`) | `m_memoryItems`, `m_stackItems`, `m_mutexForMap`, a thread-local busy flag, `m_handlerMemory` per thread, the limit, the callback | `TestOperatorAlloc/Calloc/ReAlloc/Delete/NewAligned`, `InitFailureDataAndCallClbk`, `ReplaceFailureClbk`, `SetMaxAllowedAllocInTheSameStack`, SIGSEGV handler, constructor, destructor | libc calls before, between and after critical sections; reports made outside the lock from copies; ownership of Backtraces; stale pointers from several threads |
| Failure callback (`include/crash_investigator/callback.hpp`) | the four fields of `SCallback` | the callback and its verdict `MakeAction`, `DoNotMakeActionToPreventCrash`, `ExitApp` | it runs user code that allocates, frees or never returns |
| Hash table (`include/cpputilsm/hashitemsbyptr*.hpp`) | bucket heads, items in two linked lists | `AddEntryWithKnownHash`, `FindEntry`, `RemoveEntry`, `begin`, `++` | pointer surgery in two lists at once, memory reuse |
| Initialisation pool (`cpputilsm/cpputilsm_memorypool.cpp`) | a buffer with headers, an offset, first and last item | `Alloc`, `Calloc`, `Realloc`, `Dealloc` | giving room back out of order, size arithmetic |
| Raw layer of Linux (`core/basic/crash_investigator_alloc_dealloc_unix.cpp`) | libc's functions, two plain flags, `pthread_once`, the pool | `mallocn`, `callocn`, `reallocn`, `freen`, `InitFunction` | recursion through `dlsym`, static constructors in any order |
| Backtraces of Linux (`core/backtrace/crash_investigator_backtrace_unix.cpp`) | `Backtrace` objects | obtain, free, compare, hash, convert to names | out of memory half-way |
| Leak-only analyzers (`core/analyze/*.cpp`, two copies) | two hash maps, mutex, process-wide and thread-local guards | `AllocMem`, `FreeMem`, init, exit | start-up and exit, guards reset by other threads |
| Windows layers (`core/initial_malloc_free_hook`, `*_windows.*`) | function pointers of the CRT | hook, unhook | the exchange of the pointer table |
| Wrappers (`crash_investigator_malloc_free.cpp`, `_new_delete.cpp`) | none on Linux | forward to the analyzer | none |

The wrappers call the analyzer; the analyzer calls the raw layer (`mallocn`...),
asks the pool about blocks it does not know, keeps two hash tables and owns
Backtraces; a failure goes to the callback on the thread that failed. All
threads share the tables under one mutex. The busy flag makes the calls the
library itself (or its callback) makes bypass the tables.

What makes the components correct:

- analyzer: the table and libc agree about every block; libc never gets a block
  twice; a correct program is never accused; counts per stack are exact; a
  Backtrace has one owner; no report and no callback under the lock;
- hash table: finds exactly what is stored, iterates over all of it;
- pool: blocks in use never overlap, freed room comes back, its assertions hold;
- leak-only analyzer: its two tables agree with each other and with libc, exist
  whenever they are used, and are never locked twice by one thread; a leak is
  reported when and only when there is one;
- raw layer: every block goes back to the allocator it came from, no null function
  is called, and the call that triggers the initialisation does not wait for itself;
- aligned new: the alignment is the least that does, and no block of libc's is dropped.

## Modules

**AllocAnalyze** is the analyzer. A call is split where other threads can run:
`CallAlloc` (libc's malloc and the backtrace; they touch nothing another thread
reads, so they are one step), `Register` (the whole critical section of
`AddNewAllocatedMemoryAndCleanOldEntry`), `CallDelete`, `DeleteLocked` (the
critical section of `TestOperatorDelete`), `Free` (the final `freen`),
`CallReAlloc`, `ReAllocLocked` and `ReAllocMoved` (libc's realloc and the
registration are two steps, because another thread's malloc may be given the
old block in between; the lock is held across both), `EarlyReAlloc`,
`CallClbk`, `EndClbk`, and `NestedCall` (what the callback does with memory).
`realloc(NULL, n)` is `CallAlloc`, `realloc(p, 0)` is `CallDelete` with type
Malloc, as in the source. A null pointer, a size of 0 and a failed malloc
return without changing anything and are no steps.

`memoryItems` is a function from addresses (an absent entry is
`DoesNotExistAtAll`); `stackItems` counts under a pair of the key object and
the stack that was hashed when the key was added, 0 being absent. `content`
says what stack a Backtrace object holds and whether it is freed. A freed
Backtrace that is still used as a key or as a query may compare and hash any
way: it is a read of freed memory. `proc` records how the process fares:
assertion failed, null Backtrace dereferenced, block or Backtrace freed twice.
The busy flag is true exactly while `pc[t]` is not `"client"`, so it has no
variable. `Destroy` is `~CrashInvestAnalizerInit` after `main` returned and the
other threads are gone: it frees the traces of every item. `held` (which routine's block the program may still free) and
`misused` are ghosts that say whether the program deserves an accusation;
`Misuse` says what it does wrong: `"stale"`, it frees or reallocates, with any routine
and as often as it likes, every block it was ever `given`, registered or not (blocks of
the pool apart: giving one of those back twice is outside the contract of MemoryPool);
`"wild"`, any address at all. A pointer the program did not own and the table has no
entry of goes to libc unchecked (`analyze.cpp:217-230` and `319-335`); the ghost
`strayed` says that this happened, and `HeapAgrees` and `NoBlockFreedTwice` hold until
it does. A second free of a block older than the tables is the shortest way there. The
tables are ideal maps here; HashItems tells which uses of the real table bear that.

The decrement of a count stands inside an `assert` (lines 244 and 355). What is modelled
is a build that has assertions; with `NDEBUG`, as the release configurations of the Visual
Studio projects define it, the counts only grow.

`CountSpec` is `Spec` up to the first step of `Skews`, after which the counts may be
wrong: a registration that frees the key of a stack with live blocks (`FreesKey`), that
overwrites an entry still Allocated (`Overwrites`), that is not counted because the limit
is 0 (`Uncounted`), or a mismatched free, which drops the count and keeps the block
(`DropsCountOnly`). They are steps of a run, not conditions on the constants: addresses
are reused, limits of 0 set and stale pointers passed before them.

**AllocLedger** is the abstract specification: the life of a block is free,
handed, live, dying and free again, `Exchange` being a realloc. AllocAnalyze
implements it through `BlockState`.

**HashItems** is the table, pointer by pointer, with the line
`m_pFirstItem->prev = pItem` (`hashitemsbyptr.impl.hpp:84`) as it is. `Chain` is the
sequence of items the loops of `FindEntryRaw` and of the iteration visit. `Uses`
separates a table nothing is removed from (`m_memoryItems`), one whose keys
never share a bucket, and one used in any way (`m_stackItems`).

**MemoryPool** is the pool, with offsets for addresses, `size_t` modulo `W`,
and one step per turn of the trimming loop. Headers above the offset are
dropped from the state: a caller that passes only blocks it holds never makes
the code read them. `Item.next` is written and never read, so it is left out.

**RawAlloc** is the raw layer, composed with MemoryPool, and with what the
analyzer's entry points do with a pointer's home. `Call` and `CallAligned` begin a
call of the client's; the first one enters `pthread_once` (`EnterOnce`), where
`Dlsym` resolves one function after the other, `Nested` is whatever dlsym
allocates, resizes and frees on the way (the pool serves it while
`s_isInitFunction` is up; with the flag down the call would wait for its own
`pthread_once`, outcome `"selfWait"`), and `Decide` is the test in line 52 with its
`exit(1)`. `ConstructPool` and `ConstructTables` are the static constructors; they
run at any time between calls, before or after the first one. A zeroed pool has no
room and finds no pointer in its buffer. The answers (`AnswerAlloc`, `AnswerPoolFree`,
`AnswerFree`, `AnswerPoolRealloc`, `AnswerRealloc`, `AnswerAligned`) are the `TestOperator`
functions as far as the choice between tables, pool and libc goes: `known` is the set
of pointers whose entry says Allocated. A pointer is a block and a distance from
its start, because `TestOperatorNewAligned` returns pointers inside their blocks; its
rounding of the alignment is `Alignment`, whose shifts act on the set of the bits that
are 1. `std::align` is not the repository's: `Fitting` is the postcondition the standard gives
it, and no property restates it. `Power` spells the powers of two out as doublings
(`^` is for the provers a number they know nothing about).

The process has one thread until the first call returned, because `pthread_create`
allocates. After that there may be several (the habit `"threads"`), and they can meet in
the pool, which has no lock: `TestOperatorDelete` and `TestOperatorReAlloc` unlock the
mutex before they offer it a pointer (`analyze.cpp:219-220`, `322-324`). A call of one
thread may be answered while another is in the pool's trimming loop; if it needs the
pool itself the run ends in the outcome `"poolRace"` (`PoolRace`). Two calls at once are a
data race in the code, and nothing is promised of what comes after it; up to it every
property holds. Where the pool's call is one step (no loop follows) the overlap is not
visible. Calls after the static destructors, and libc's own failing `realloc` (which
AllocAnalyze has), are left out. That dlsym finds `calloc` is assumed: line 52 does not
test it.

**LeakOnly** is the leak-only analyzer from the first `new` of a static
initialiser to the last `delete` after `~MemAnalyzeData`. `AllocMem` is
`CallNew`, `SkipInit` or `CallOnce`, `Malloc`, `Lock`, `RegisterBlock`, `Leave`;
`FreeMem` is `CallDelete`, `Lock`, `TakeBlock`, `Leave`, `Free`; `InitRaw` is
`MakeMutex`, `MakeStack`, `MakeMem`, reached from `call_once` or from the
constructor; `PassNew` is an allocation a guard lets through. Both copies of the
source read this way; the one on `std::unordered_map` also allocates its nodes
through the replaced operators, which `Fate` checks. `CRASH_INVEST_INIT_TIME` is 0, so
the test of the time in line 387 always passes and is left out. `made` says which of the
three pointers are not null. Backtraces are their stacks: the tables own
separate copies and compare them by value. The flags are plain variables in the
code; they are read and written one step at a time. Running out of memory inside
the tables or in `CloneBackTrace` (line 376, whose null would become a key of `s_pStack`),
and the allocation hook of the Microsoft runtime, are left out.

**LeakWatch** is the abstract specification of LeakOnly, without threads, locks and
tables: a block is obtained, watched with the stack it is from, no longer watched and
given back, and the alarm goes off with the block that makes too many of one stack.
LeakOnly implements it through `WatchedFrom`: what is watched is what `*s_pMem` holds,
until the destructor deletes it.

**MCAllocAnalyze**, **MCHashItems** and **MCLeakOnly** add symmetry sets.
**AllocAnalyzeProofs** holds the theorems about the analyzer's tables, its lock and
libc; **AllocLedgerProofs** (the refinement), **AllocTraceProofs** (traces and counts)
and **AllocAlarmProofs** (what a correct program is told) extend it. **HashItemsProofs**,
**LeakOnlyProofs** and **MemoryPoolProofs** are about the modules they are named after,
and **RawAllocProofs**, which extends MemoryPoolProofs, is about RawAlloc.

A definition named `Mutant...` is a slip the code could have in the definition
after it. No specification uses it; it is there to show that a property notices.

## Runs

| run | instance | what it shows |
|---|---|---|
| AnalyzeMisuse | 2 threads, an ordinary reusable address and a block older than the tables, stale pointers of both kinds, a callback that declines, 4 traces, the destructor | `TypeOK`, `HeapAgrees`, `NoBlockFreedTwice`, `TracesOwnedOnce`, `NoTraceFreedTwice`, `ReportsReadOwnTraces` |
| AnalyzeLedger | 2 threads, 2 reusable addresses, 2 routines, stale pointers, a callback that declines, fair | `ImplementsLedger`, with "what is struck is given back"; `TracesOwnedOnce` with two routines |
| AnalyzeLegal | correct program, 3 reusable addresses and a block of the pool, 2 stacks, limit of 2 on and off | `NoFalseAlarm` |
| AnalyzeCounts | `CountSpec`: 3 reusable addresses, 2 stacks, limits of 2, 1 and 0 set while calls are under way, stale pointers, a callback that declines errors | `StackTableExact`, `NoAssertFails`, `LeakReportExact` |
| AnalyzeAnything | wild pointers, both callbacks, all verdicts, nested calls, failing malloc, limit 0, fair | `LockDiscipline`, `MutexReleased`, `CallsEnd` |
| RawLife | 6-unit buffer, requests of 0, 1 and 3, two blocks of libc, `free` possibly missing, alignments 0 and 17, sizes 5 and 61 of 64, several threads, fair | the five invariants of MemoryPool where the pool is used, `TrimmingEnds`, and the six others of RawAlloc |
| HashUses | 3 keys, 3 buckets, 4 cells, every hash, no removal or no shared bucket | `HashTypeOK`, `FindsWhatIsStored`, `IterationComplete` |
| LeakOnlyLife | 3 threads, 3 addresses, 2 stacks, limit 2, failing malloc; threads start after the constructor and are joined before `main` returns | the eight properties of LeakOnly, and that it implements LeakWatch (`ImplementsWatch`) |
| AssertOnReuse | correct program, 1 thread | violation of `NoAssertFails` |
| ReportOfFreedTrace | 2 threads, a double free | violation of `ReportsReadLiveTraces` |
| HashRemoveLoses | removals under any hash | violation of `FindsWhatIsStored` |
| OverAlignedDelete | a client that deletes what the aligned operator new returned | violation of `HomeKept` |

Bounds. Two threads are the fewest that race, and every race of the code is
between two; two addresses give "the block just freed" and "another one", three
let a realloc move while a stale pointer is passed and let a stack pass the limit. In
AnalyzeMisuse one address and one early block are enough: what a step does to a table
entry concerns one address, and a realloc moves the block from either to the other;
AnalyzeLedger has two ordinary ones. `Traces` bounds how many
Backtraces exist at once: each live or freed address keeps up to two, each call
in progress one. `InitialLimit` is above or below the number of blocks
according to whether a run is about leaks, and `LeakVerdicts`, what the callback
answers to a leak, ends the process wherever a property is about traces or counts.
The default limit of 10 only scales.
In RawLife six units of buffer with headers of one unit hold up to five blocks of no
bytes or two of one (the test in line 27 of the pool keeps the last unit free), so
several neighbours are freed in every order, the last one grows and shrinks, and the
buffer runs full; `size_t` has 6 bits there, the size 61
wraps around with any alignment, 5 does not, and 17 is no power of two. In LeakOnlyLife three
addresses are one more than the limit, so a leak and its absence both occur, with
a third thread always free to interfere. Symmetry over threads and
traces is used in the runs without liveness only. Deadlock is not checked: the
program may stop calling, and exit or a crash of the process is an end.

Fairness. `FairSpec` assumes that a thread inside the library keeps running
while the process does (the scheduler's promise); nothing of the program or its
callback, and no fairness of `std::mutex`, which is why `CallsEnd` is
conditional on reallocs not taking the lock for ever. `MemoryPool` assumes that
its loop, once entered, runs on. `RawSpec` adds that the code of a call runs on and
that dlsym returns at last, however often it allocates: strong fairness of `Dlsym`
and `Decide`, because the pool's loop in a nested call disables them for a while.

## What the violations show

- **AssertOnReuse.** The key of a stack's count is the Backtrace of the first
  block allocated there. When that block's address is registered again, its
  Backtrace is freed (`analyze.cpp:162-163`) while the count still uses it. A
  correct free then fails the assertion in line 244.
- **ReportOfFreedTrace.** A report works on a copy of the item made under the
  lock (`analyze.cpp:235`) but reads the Backtraces after the unlock; another
  thread's registration may have freed them.
- **HashRemoveLoses.** Because of line 84 a removal can cut another bucket's
  chain; the count of a live stack is then not found.
- **OverAlignedDelete.** `TestOperatorNewAligned` registers what malloc returned and
  gives out the aligned pointer (`analyze.cpp:412-413`). Where the two differ the
  delete finds neither an entry nor a block of the pool, and libc's `free` gets a
  pointer into the middle of a block.

The same modules show more when their constants are changed; the runs that pass
exclude these cases and say so:

- `SPECIFICATION Spec` in AnalyzeCounts: with the key of AssertOnReuse freed, or with
  blocks of a time when the limit was 0, which are not counted (`analyze.cpp:172`) but
  whose frees drop the count all the same, `NoAssertFails` and `StackTableExact` are violated.
- the same with `Verdicts = {"MakeAction"}`, a block older than the tables or `CanFail`:
  an entry that is Allocated is overwritten, and its old block stays counted;
  `StackTableExact` is violated (the count is too high: the assertion holds).
- two `Types` in AnalyzeCounts, with `Spec`: the count is dropped
  before the type is compared (242 against 248); a declined mismatch and then
  the correct free violate `NoAssertFails`. With the default callback the same
  happens if another thread frees the block while the report is being made.
- a block older than the tables in AnalyzeLegal (`Addrs = {a1, e1}`, `Early = {e1}`,
  one thread): `realloc` of a block the tables do not know returns libc's answer
  unregistered (`analyze.cpp:335`). If libc moves it to an address whose old entry
  says Deallocated, the correct free of it is reported as a double free;
  `NoFalseAlarm` is violated.
- `CanFail = TRUE` in AnalyzeLegal: a realloc that fails retires the old block
  (351-358); `NoFalseAlarm` is violated by its correct free.
- `Nested` and the callback `"user"` in AnalyzeLegal: what a callback allocates bypasses
  the tables (266) and may get an address whose entry says Deallocated; `NoFalseAlarm` is violated.
- `LeakVerdicts = {"DoNotMakeActionToPreventCrash"}` in AnalyzeCounts: the cleaner (706) of
  a leak report the callback declines frees a trace the table owns; `NoTraceFreedTwice`
  and `TracesOwnedOnce` are violated.
- `HeapAgrees` and `NoBlockFreedTwice` without their exception in AnalyzeMisuse: the early
  block is freed twice, each time past the table, or a realloc moves it to an address
  libc then has two claims on.
- `Pool` not empty in AnalyzeMisuse: the return for pool blocks (220, 324) loses
  the trace; `TracesOwnedOnce` is violated.
- a second thread in the pool: RawLife reaches the outcome `"poolRace"`, two calls in the
  unlocked pool at once (`analyze.cpp:219-220`, `322-324`).
- `Requests = {1, 61}` in RawLife: the sum in `memorypool.cpp:27` wraps around (so
  does the product in line 50 for large `Factors`); `NoPoolAssertFails` and
  `BlocksDisjoint` are violated.
- `NothingDropped` without its exception: an aligned request whose size wraps around
  makes `std::align` fail, and the raw block is dropped (`analyze.cpp:415`).
- `"calloc"` among the `Missing` (which `RawAssumption` excludes): the test in
  `alloc_dealloc_unix.cpp:52` passes and `callocn` calls a null pointer.
- `Habits = {"daemons"}` in LeakOnlyLife: a thread that passed the guard before
  the constructor or the destructor set `g_initOrExitOngoing` finds no table, and
  its `~IntHandler` (`leak_only_new_delete.cpp:245`) opens the guard for others;
  `TablesUsedSafely` is violated.
- `Habits = {"deleteFirst"}`: `FreeMemAnalyze` locks `*s_pMutex` (421) before
  anything made it; the comment in line 427 on early allocations and null
  pointers is about a test that comes too late. `TablesUsedSafely` is violated.
- `TablesUsedSafely` without its exception for a report: `exit(1)` runs the
  destructors under the other threads, with deletes that take no lock (422).
- `IterationComplete` without its restriction to `"keeping"`: a removed item
  stays in the list the destructor walks.

## Proofs

All theorems hold for any number of threads, addresses, stacks, traces, keys and blocks,
any hash, limit, buffer and request sizes, from the assumptions on the constants alone
(`ConstantsAssumption`, `HashAssumption`, `LeakAssumption`, `PoolAssumption`,
`RawAssumption`): the null pointer is none of the other values, sets of routines,
callbacks and verdicts are the code's, sizes are numbers, the buffer is smaller than
`W`, `size_t` has at most 64 bits, no alignment asked for is above the greatest power of
two it holds, the default alignment is a power of two, the cells of a table are finitely many.

| theorem | statement | needs |
|---|---|---|
| `TypeCorrect` | `Spec => []TypeOK` | nothing |
| `MutexOnlyForRealloc` | `Spec => []LockDiscipline` | nothing |
| `TableAgreesWithLibc` | `Spec => []HeapAgrees` | `Declines` |
| `LibcFreesOnce` | `Spec => []NoBlockFreedTwice` | `Declines` |
| `LedgerImplemented` | `Spec => Ledger!LedgerSafety` | `Declines`, `Early = {}`, `"wild" \notin Misuse` |
| `TracesHaveOneOwner` | `Spec => []TracesOwnedOnce` | `Pool = {}`, `LeaksEnd` |
| `TracesFreedOnce` | `Spec => []NoTraceFreedTwice` | `Pool = {}`, `LeaksEnd` |
| `ReportsAreOfOwnTraces` | `Spec => []ReportsReadOwnTraces` | `Pool = {}`, `LeaksEnd` |
| `OneThreadReportsLiveTraces` | `Spec => []ReportsReadLiveTraces` | `Pool = {}`, `LeaksEnd`, one thread |
| `StackCountsAreExact` | `CountSpec => []StackTableExact` | `Pool = {}`, `LeaksEnd` |
| `CountAssertHolds` | `CountSpec => []NoAssertFails` | `Pool = {}`, `LeaksEnd` |
| `LeaksAreCountedRight` | `CountSpec => LeakReportExact` | `Pool = {}`, `LeaksEnd` |
| `CorrectIsNotAccused` | `Spec => []NoFalseAlarm` | `Declines`, `Early = {}`, `~CanFail` |
| `LeakTypeCorrect` | `Spec => []LeakTypeOK` of LeakOnly | nothing |
| `NeverReenters` | `Spec => []NoReentry` of LeakOnly | nothing |
| `RegisteredBlocksAreAllocated` | `Spec => []RegisteredIsAllocated` of LeakOnly | `Habits = {}` |
| `CountsAreExact` | `Spec => []CountsExact` of LeakOnly | `Habits = {}` |
| `LeakAssertsHold` | `Spec => []NoLeakAssertFails` of LeakOnly | `Habits = {}` |
| `TablesAreUsedSafely` | `Spec => []TablesUsedSafely` of LeakOnly; with one thread also `[](proc \notin {"segv", "race"})`, reports included | `Habits = {}`, or one thread and `"deleteFirst" \notin Habits` |
| `LeaksAreReported` | `Spec => []NoLeakMissed` of LeakOnly | `Habits = {}`, `Limit > 0` |
| `ReportsAreRight` | `Spec => NoFalseLeak` of LeakOnly | `Habits = {}` |
| `WatchImplemented` | `Spec => ImplementsWatch` of LeakOnly | `Habits = {}` |
| `HashTypeCorrect` | `Spec => []HashTypeOK` of HashItems | nothing |
| `FindsExactly` | `Spec => []FindsWhatIsStored` of HashItems | `"any" \notin Uses` |
| `IterationIsComplete` | `Spec => []IterationComplete` of HashItems | nothing |
| `PoolTypeCorrect` | `Spec => []PoolTypeOK` of MemoryPool | `Small` |
| `BlocksStayDisjoint` | `Spec => []BlocksDisjoint` | `Small` |
| `NothingIsStranded` | `Spec => []NothingStranded` | `Small` |
| `ChainIsKept` | `Spec => []Chained` | `Small` |
| `PoolAssertionHolds` | `Spec => []NoPoolAssertFails` | `Small` |
| `TrimmingDescends` | `Spec => [][`each turn of the loop ends it or takes it down`]_vars` | `Small` |
| `NoNullIsCalled` | `RawSpec => []NeverCallsNull` | nothing |
| `NeverWaitsForItself` | `RawSpec => [](fate # "selfWait")` | nothing |
| `PointersComeHome` | `RawSpec => []HomeKept` | `Small`, `"deletesMoved" \notin Habits` |
| `PoolSoundInUse` | `RawSpec => []` the five pool invariants | `Small` |
| `RawTypeCorrect` | `RawSpec => []RawTypeOK` | `Small` |
| `AlignmentIsLeast` | `RawSpec => []AlignmentLeast` | nothing |
| `BlocksReachTheClient` | `RawSpec => NothingDropped` | nothing |

`Declines` says that the callback does not answer `MakeAction`, which carries out what was
reported, and that it does not itself allocate or free behind the tables: both give libc
pointers the tables still hold. It says nothing of the client, which may pass anything;
where that matters `strayed` is part of the property: `HeapAgrees` and `NoBlockFreedTwice`
promise nothing once a pointer the client did not own went past the table. `Early = {}`
is needed in `LedgerImplemented` because such a block is allocated without ever having
been entered, a state the ledger does not have; the ledger does not have wild pointers
either, and `CorrectIsNotAccused` is not true of early blocks. `LeaksEnd` says that no
leak report is declined: there is none, the default callback ends the process, or the
client's answers that it should; the cleaner of a declined one frees a trace of the table's,
and a pool block's trace is owned by nobody, hence `Pool = {}`. `~CanFail` says that libc
does not run out of memory: the table then retires a block the program still has. `Small`
says that no size, with a header and the buffer added, exceeds `W`: the
sums of the pool do not test for that. In RawAlloc `"deletesMoved"` is the client of
OverAlignedDelete; the habit `"threads"` is allowed everywhere.

The theorems on the counts assume nothing of libc or of the client: addresses are reused,
memory runs out, pointers are stale or wild, there are early blocks, several routines and
limits of 0. What they promise ends with the first step of `Skews`, that is with one of
the four kinds of step after which the code's own counts are wrong. All but the mismatched
free are open to a correct program: `FreesKey` as AssertOnReuse shows, `Uncounted` by the
limit it sets, `Overwrites` when two of its reallocs fail.

In LeakOnly `Habits = {}` says that no thread runs before the constructor of `s_memData`
or after `main`, and that nothing is deleted before the first allocation: the other
habits are the two violations above. What most of these theorems say ends with a report,
because its `exit(1)` runs with the other threads still in the tables. In a process of one
thread nobody is: `TablesAreUsedSafely` says of it, without the excuse, that no call meets a
missing or deleted table up to the end of that exit. The first block of a stack is never compared with
the limit, so `LeaksAreReported` needs one above 0. `"any" \notin Uses` keeps out the
table whose removals lose entries, HashRemoveLoses.

**AllocAnalyze.** `TypeOK` is inductive: that no count falls below 0 follows from the
assertion, after which alone a count is dropped.
`LockDiscipline` is inductive with it: only `ReAllocLocked` takes the lock across
a step, and its thread is the one that gives it back.

`HeapAgrees` is not inductive. A block the table has never seen is nowhere
protected by the table, so its invariant holds as long as nothing `strayed`, and
`HeapInv` adds for such a block (`Sole`) that it is allocated as
long as the program holds it or a call claims it, and that only one of them does,
which is why freeing it is harmless;
`CallInv` says what the locals of a call mean at each label (that a thread about
to free or register a block owes it, and no other thread does); and an allocated
address has been used. Then a struck entry is what makes a second free
impossible: the thread that strikes it under the lock is the only one that owes
the block, and libc cannot give the address to anybody before that thread's free.
Each action has a lemma; the steps common to several (a call that ends, libc
handing out an address, an entry made) have one each.

Traces are owned by places: the two entries of an item, a call, a thread's parking
place. `TraceInv` says that ownership, as a function from places to traces, is exact
(every trace that is not freed has one place, and a place has none that is freed), and
each step changes it by three moves that keep it so: a place is given a fresh trace,
some places are emptied and their traces freed, or one hands its trace to another. It
also says at which labels a call owns none, and that the entry of a live block has no
trace of a deallocation, which is why striking it loses nothing.

For a correct program the item and the program must agree. `AlarmInv` says that as long
as the client has not misused a pointer, it or exactly one call has the right to a block
(a call gets it with the pointer and gives it back with the report's result), and
that such a block is in the table with the routine it is from, and no realloc is about
to retire it. By `HeapInv` it is live, so libc cannot give the address to another call,
whose registration would overwrite the entry.

The refinement maps each step by its effect on one block: `CallAlloc` and realloc
of a new block to handing out, registration to living, striking to dying, the
final free to freeing, `ReAllocLocked` to the ledger's exchange, and all else to
stuttering; `HeapInv` supplies the ledger's guards.

Of reports the same ownership says what they can read: a copy that is still the entry of
its address names traces an item owns, and the rest is the call's own (`UpToDateLives`);
so only a new registration of the address makes a report read freed memory. With one
thread nothing comes between the copy and the report (`ReportFresh`).

A count is kept under the trace of its stack's first block, so `CountInv` needs
`TraceInv` as well: every key is the trace of some item (`KeysOwned`), hence not freed, and
every live item has one. `Tally` then says that each stack with live blocks has one key,
whose count is their number; the lemmas on it say how one block more or less changes it
(`EnterTally`, `StrikeTally`), and what a registration frees is no key unless the step is
one of `Skews` (`CleanTally`).

**LeakOnly.** The invariant `HandlersCounted` says what `s_isOngoing` counts: one
handler for a call between its guard and its end, one more inside `InitRaw`, and
one that stays for good on a thread that reported a leak, because `exit` unwinds
nothing. So the counter is positive in every critical section, and what is
allocated there bypasses the lock. A thread that is allocating can have no
handler left over: with one it would have been let through.

The other theorems on LeakOnly rest on `SafeInv`. `Phases` orders the life of the process: the
tables are made inside `call_once` or by the constructor, while no other thread runs,
and deleted when none does any more. `Locked` says that until a report a thread is in a
critical section exactly if it owns the mutex; `Holding` and `Ownership`, what a call
carries at each label, and that a block is never the program's and a call's, or two
calls', at once. `Entries` and `Counted` say that the table of blocks agrees with libc and
that of stacks with the table of blocks, and where in a call a block may be entered;
`Few`, that until a report the program's blocks are within the limit.

`Solo` is the invariant of a process of one thread, and holds after a report too: who owns
the lock is in a critical section, the tables are there at every label that uses them
until the destructor deletes them, and after that `g_initOrExitOngoing` is up, which keeps
every call from them.

The refinement maps `Malloc` to `Obtain`, the registration to `Watch`, `TakeBlock` to
`Unwatch`, `Free` to `GiveBack`, making and deleting the table of blocks to `Forget`, and
all else to stuttering. `Entries` and `Ownership` say that a block about to be registered
is allocated and not in the table, and `FreesUnregistered` that one about to be freed is
not; they hold after a report, too. `Counted` turns the count the code compares with the
limit into the number of watched blocks of that stack.

**HashItems.** `HashInv` has a part for each use of the table. Where keys share no bucket
a chain is one item long. Where nothing is removed the items have ranks, the order they
were added in: both kinds of chain go from the last one added to the first, and a bucket's
chain skips none of its items. The ranks are a witness inside the invariant and not in
the state. What a loop over a chain visits is shown by looking at the first item of which
it would not be true, because the prover has no induction.

**MemoryPool.** None of the invariants is inductive: that blocks do not overlap needs
the links between headers, and those are broken for a while inside the trimming loop.
`PoolInv` therefore has two cases. Between calls the headers are `Sound`: every block
ends at or below the offset, each but the first starts where the one its `prev` names
ends, they fill the buffer up to the offset, and the ones in use are exactly the
callers'. Inside the loop the blocks are as far apart and linked as before, the
callers' are those in use below the block being looked at, and everything from it on
is free (`Walk`). The lemmas say what the pieces of the code do to sound headers: appending one, freeing one, cutting
the topmost ones, and changing the size of the last. `Small` turns the sums modulo `W`
into sums, by three lemmas on `%`. `TrimmingDescends` reads off `Walk` that a turn of the
loop moves to the header of a block that ends at or below the one it leaves.

**RawAlloc.** `Resolved` follows dlsym: what `InitFunction` has got past it has asked
for, and what the answers call it has tested. `RawInv` adds to the pool's invariant in
which order things can happen (`Phases`: nothing is in the pool before its constructor
and the first call; a call waits while dlsym runs, and is then no `free`), whose a
pointer given back is (`Claims`: the start of a block of libc's or a live block of the
pool, which nobody else gives back while the call is under way, because what is left of the
trimming loop then touches free blocks only; a client that deletes moved pointers may free
anything, which leaves the pool as it was),
and what the tables and the client know (`Homes`). That the pool and libc have no
address in common is `PoolApart`. So every use of the pool is an action of
MemoryPool in a state `PoolInv` describes, and its step lemmas apply as they are: an answer
that would enter the pool while its loop is on ends the run instead.
`Flagged` says that `s_isInitFunction` is up as long as `pthread_once` runs, also while
`exit` does: no nested call gets past the flag.

The aligned operator new needs no more than that a request under way is of sizes
(`Asked`), and that its alignment is a number below `W`. That the alignment is the least
fitting power of two is arithmetic: `Power` and `Number` are recursions, shown to have
a result by looking at the least argument that would have none (`DoublesExist`,
`SumsAll`); the sum does not depend on the order of the bits (`NumberOfMore`), so all the
bits below the `k`-th add up to one less than the `k`-th power (`NumberOfAll`); the six
shifts reach 63 places down (`SmearedFills`), which is where 64 bits are used; and a number
lies between its highest bit's power and twice that (`HighestBit`). So the increment of
`AlignmentRounds` gives the power above `al - 1`, which is the least that reaches `al`.

Only model-checked is liveness, which under fairness is beyond the prover: the liveness
part of `ImplementsLedger`, `MutexReleased`, `CallsEnd`, `TrimmingEnds` and `CallsAnswered`.
The safety halves of the last two are theorems: the trimming loop descends
(`TrimmingDescends`), and no call waits for itself (`NeverWaitsForItself`).

## Not modelled

- The SIGSEGV handler (`analyze.cpp`, `SigActionFunction`). It ends the process. Unlike
  a report it runs without the busy flag, so the strings it builds go through the
  tables as ordinary calls; AllocAnalyze stops in the outcome `"segv"` where it would
  start. A later SIGSEGV that has nothing to do with a free reads the item that the
  last free parked.
- The constructor of the analyzer, which only installs that handler, and its
  destructor while other threads run (`exit` called in the middle of the program).
- Failures of the tables' own allocations, and of `new` in `Backtrace`'s code: the
  exception leaves an entry without its trace or its count.
- Builds with `NDEBUG`, whose counts are never dropped.
- Two calls in the pool at once: the run ends where they meet (`"poolRace"`).
- A torn `ReplaceFailureClbk`: the callback and its user data are one value here.
- The nothrow forms of the aligned operator new, which hand `true` where the others do
  and throw like them (`new_delete.cpp:59,62`).
- The raw layer with several threads before the first call returned; `pthread_create`
  allocates, so a program without other means of making threads has none.
- The Windows layers. The hook is unfinished: the exchange of the pointer table
  (`malloc_free_hook_windows2.c:193`) is marked to be implemented and `s_cranLib` is
  never set. There is no behaviour to model before the code decides on one.
- The texts of reports and the translation of addresses to source lines (libdwarf).

## What is left

1. The SIGSEGV handler as actions of AllocAnalyze, with the nested calls it makes; the
   destructor with running threads.
2. A stack's hash modulo the size of the table, against collisions, on top of
   HashItems; the hook of Windows when its code is there.
3. Weaker conditions for the theorems: what of the traces with pool blocks and declined
   leak reports, what still holds of the counts after one of `Skews`, and of the pool when a
   size wraps around but the sum still fits.
