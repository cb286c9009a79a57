------------------------------ MODULE LeakOnly ------------------------------
(***************************************************************************)
(* The leak-only analyzer, crash_investigator_analyze_leak_only_new_       *)
(* delete.cpp and its copy over std::unordered_map (.._std_hash.cpp): from *)
(* the first allocation of a static initialiser, through the constructor   *)
(* of s_memData and normal operation, to its destructor and what the       *)
(* program still frees after it.                                           *)
(*                                                                         *)
(* The library's own news and deletes come back to AllocMem and FreeMem;   *)
(* a process-wide flag (g_initOrExitOngoing) and a counter of each thread  *)
(* (s_isOngoing) are to let them pass.  Every IntHandler that ends resets  *)
(* the flag, whoever set it.  Stacks stand for Backtraces: the two tables  *)
(* own separate copies and compare them by value.                          *)
(***************************************************************************)
EXTENDS Naturals, FiniteSets

CONSTANTS
  Threads, Main,  \* threads, and the one that runs main()
  Addrs, Stacks,  \* addresses of blocks, call stacks
  Null,
  Limit,          \* g_unMaxNumberOfAllocInTheStack (100)
  CanFail,        \* may malloc fail?
  Habits          \* unusual clients: a subset of HabitKinds

\* "daemons": threads run before the constructor and while the process exits;
\* "deleteFirst": something is deleted before any allocation was analysed.
HabitKinds == {"daemons", "deleteFirst"}

ASSUME LeakAssumption ==
  /\ Main \in Threads /\ Limit \in Nat /\ CanFail \in BOOLEAN
  /\ Habits \subseteq HabitKinds
  /\ Null \notin Threads \union Addrs \union Stacks

VARIABLES
  initOrExit,     \* g_initOrExitOngoing
  ongoing,        \* s_isOngoing of every thread
  made,           \* which of s_pMutex, s_pStack, s_pMem are not null
  owner,          \* the thread that holds *s_pMutex, or Null
  once,           \* s_call_once_flag
  memItems,       \* *s_pMem: the stack of a registered block, else Null
  stackItems,     \* *s_pStack: the count of a stack, 0 if absent
  memData,        \* the life of s_memData
  leaver,         \* the thread that runs exit(), or Null
  heap, held,     \* blocks allocated in libc, blocks the program may delete
  call,           \* where a thread is, in which operation, and its locals
  proc,           \* how the process fares
  reported,       \* a leak was reported, and exit(1) called
  origin          \* ghost: the stack a block was allocated from by an analysed
                  \* call, since the tables were made

guards == <<initOrExit, ongoing>>
tables == <<memItems, stackItems>>
life   == <<once, memData>>
blocks == <<heap, held, origin>>
ends   == <<leaver, reported>>
vars   == <<initOrExit, ongoing, made, owner, once, memItems, stackItems,
            memData, leaver, heap, held, call, proc, reported, origin>>

Parts == {"mutex", "stack", "mem"}
Labels == {"client", "init", "makeMutex", "makeStack", "makeMem", "malloc",
           "lock", "section", "leave", "free",
           "deleteMem", "deleteStack", "deleteMutex"}
Frame(l, o, a, s) == [at |-> l, op |-> o, addr |-> a, stack |-> s]
Idle == Frame("client", "none", Null, Null)

LeakTypeOK ==
  /\ initOrExit \in BOOLEAN /\ ongoing \in [Threads -> 0..3]
  /\ made \subseteq Parts /\ owner \in Threads \union {Null}
  /\ once \in {"never", "running", "done"}
  /\ memItems \in [Addrs -> Stacks \union {Null}]
  /\ stackItems \in [Stacks -> Nat]
  /\ memData \in {"raw", "made", "gone"}
  /\ leaver \in Threads \union {Null}
  /\ heap \subseteq Addrs /\ held \subseteq Addrs
  /\ call \in [Threads -> [at : Labels,
                           op : {"new", "delete", "construct", "none"},
                           addr : Addrs \union {Null},
                           stack : Stacks \union {Null}]]
  /\ proc \in {"running", "assertFailed", "segv", "race", "reentered"}
  /\ reported \in BOOLEAN /\ origin \in [Addrs -> Stacks \union {Null}]

NoItems  == [a \in Addrs |-> Null]
NoStacks == [s \in Stacks |-> 0]

Init ==
  /\ initOrExit = FALSE /\ ongoing = [t \in Threads |-> 0]
  /\ made = {} /\ owner = Null /\ once = "never"
  /\ memItems = NoItems /\ stackItems = NoStacks
  /\ memData = "raw" /\ leaver = Null
  /\ heap = {} /\ held = {} /\ origin = NoItems
  /\ call = [t \in Threads |-> Idle]
  /\ proc = "running" /\ reported = FALSE

-----------------------------------------------------------------------------
(* The guards. *)

\* Mutant: the constructor of IntHandler does not count.
MutantEntered(t) == ongoing

\* s_isOngoing after IntHandler().
Entered(t) == [ongoing EXCEPT ![t] = @ + 1]

\* Mutant: the destructor of IntHandler does not count down.
MutantLeft(t) == ongoing

\* s_isOngoing after ~IntHandler().
Left(t) == [ongoing EXCEPT ![t] = @ - 1]

\* AllocMem lets a call through to malloc.
Bypasses(t) == initOrExit \/ ongoing[t] > 0

\* Mutant: the nested deletes' exemption is off by one.
MutantLocks(t) == call[t].op = "new" \/ ongoing[t] < 1

\* The call takes the mutex.
Locks(t) == call[t].op = "new" \/ ongoing[t] < 2

\* Thread t is at the label l.
At(t, l) == proc = "running" /\ call[t].at = l

\* Thread t goes on to the label l.
Goto(t, l) == call' = [call EXCEPT ![t].at = l]

\* The process ends badly.
Stop(outcome) ==
  /\ proc' = outcome
  /\ UNCHANGED <<guards, made, owner, life, tables, blocks, ends, call>>

\* The program lets t call the library, or exit, now.  Threads are started
\* after the initialisation and joined before main() returns, unless they are
\* daemons; nobody joins them when a report calls exit(1).
MayCall(t) ==
  \/ t = leaver
  \/ /\ leaver = Null \/ reported \/ "daemons" \in Habits
     /\ t = Main \/ memData # "raw" \/ "daemons" \in Habits

-----------------------------------------------------------------------------
(* Making the tables, InitRaw. *)

\* The constructor of s_memData.
Construct(t) ==
  /\ At(t, "client") /\ t = Main /\ memData = "raw" /\ leaver = Null
  /\ call' = [call EXCEPT ![t] = Frame("makeMutex", "construct", Null, Null)]
  /\ UNCHANGED <<guards, made, owner, life, tables, blocks, ends, proc>>

\* Init: the tables are there, or are not but were once.
SkipInit(t) ==
  /\ At(t, "init")
  /\ "mutex" \in made \/ once = "done"
  /\ Goto(t, "malloc")
  /\ UNCHANGED <<guards, made, owner, life, tables, blocks, ends, proc>>

\* Init: call_once.  A second thread waits meanwhile.
CallOnce(t) ==
  /\ At(t, "init")
  /\ "mutex" \notin made /\ once = "never"
  /\ once' = "running"
  /\ Goto(t, "makeMutex")
  /\ UNCHANGED <<guards, made, owner, memData, tables, blocks, ends, proc>>

MakeMutex(t) ==
  /\ At(t, "makeMutex")
  /\ initOrExit' = TRUE /\ ongoing' = Entered(t)
  /\ made' = made \union {"mutex"} /\ owner' = Null
  /\ Goto(t, "makeStack")
  /\ UNCHANGED <<life, tables, blocks, ends, proc>>

MakeStack(t) ==
  /\ At(t, "makeStack")
  /\ made' = made \union {"stack"} /\ stackItems' = NoStacks
  /\ Goto(t, "makeMem")
  /\ UNCHANGED <<guards, owner, life, memItems, blocks, ends, proc>>

\* The last table, and ~IntHandler.  The constructor forgets the blocks of
\* tables that were made before it.
MakeMem(t) ==
  /\ At(t, "makeMem")
  /\ made' = made \union {"mem"} /\ memItems' = NoItems
  /\ origin' = NoItems
  /\ initOrExit' = FALSE /\ ongoing' = Left(t)
  /\ IF call[t].op = "construct"
     THEN /\ memData' = "made" /\ call' = [call EXCEPT ![t] = Idle]
          /\ once' = once
     ELSE /\ once' = "done" /\ Goto(t, "malloc")
          /\ memData' = memData
  /\ UNCHANGED <<owner, stackItems, heap, held, ends, proc>>

-----------------------------------------------------------------------------
(* AllocMem and FreeMem. *)

\* operator new, let through to malloc.  The program may have set its thread's
\* g_bIgnoreThisStack at any time, so no guard says when.
PassNew(t) ==
  /\ At(t, "client") /\ MayCall(t)
  /\ \E a \in Addrs \ heap :
       heap' = heap \union {a} /\ held' = held \union {a}
  /\ UNCHANGED <<guards, made, owner, life, tables, origin, ends, call, proc>>

\* operator new from the stack s.
CallNew(t) ==
  /\ At(t, "client") /\ MayCall(t)
  /\ ~Bypasses(t)
  /\ ongoing' = Entered(t)
  /\ \E s \in Stacks :
       call' = [call EXCEPT ![t] = Frame("init", "new", Null, s)]
  /\ UNCHANGED <<initOrExit, made, owner, life, tables, blocks, ends, proc>>

\* malloc and InitBacktraceDataForCurrentStack; either may fail.
Malloc(t) ==
  /\ At(t, "malloc")
  /\ \/ \E a \in Addrs \ heap, tracked \in {TRUE, ~CanFail} :
          /\ heap' = heap \union {a}
          /\ origin' = [origin EXCEPT ![a] = IF tracked THEN call[t].stack
                                             ELSE Null]
          /\ call' = [call EXCEPT ![t].addr = a,
                        ![t].at = IF tracked THEN "lock" ELSE "leave"]
     \/ /\ CanFail /\ Goto(t, "leave")
        /\ UNCHANGED <<heap, origin>>
  /\ UNCHANGED <<guards, made, owner, life, tables, held, ends, proc>>

\* operator delete of a block the program holds, or of a null pointer.
CallDelete(t) ==
  /\ At(t, "client") /\ MayCall(t)
  /\ made # {} \/ memData # "raw" \/ "deleteFirst" \in Habits
  /\ \E a \in held \union {Null} :
       /\ held' = held \ {a}
       /\ call' = [call EXCEPT ![t] =
                     Frame(IF initOrExit THEN "free" ELSE "lock", "delete", a, Null)]
  /\ ongoing' = IF initOrExit THEN ongoing ELSE Entered(t)
  /\ UNCHANGED <<initOrExit, made, owner, life, tables, heap, origin, ends, proc>>

\* The lock, unless the call does without it.
Lock(t) ==
  /\ At(t, "lock")
  /\ IF Locks(t) /\ "mutex" \notin made THEN Stop("segv")
     ELSE /\ Locks(t) => owner = Null
          /\ owner' = IF Locks(t) THEN t ELSE owner
          /\ Goto(t, "section")
          /\ UNCHANGED <<guards, made, life, tables, blocks, ends, proc>>

\* What happens to t in the critical section: its tables may be gone, another
\* thread may be in them, and the news and deletes of their nodes (of the
\* unordered_map) must bypass the lock t holds.
Fate(t, found) ==
  IF "mem" \notin made \/ (found /\ "stack" \notin made) THEN "segv"
  ELSE IF owner \notin {t, Null} THEN "race"
  ELSE IF found /\ ~Bypasses(t) THEN "reentered"
  ELSE "running"

Unlocked(t) == IF owner = t THEN Null ELSE owner

\* Mutant: one block too many is allowed.
MutantTooMany(n) == n > Limit + 1

\* The n-th block of one stack is a leak; the first one is never looked at.
TooMany(n) == n > 1 /\ n > Limit

\* AllocMem, under the lock: both tables, the test of the limit, and exit(1).
RegisterBlock(t) ==
  LET a == call[t].addr
      s == call[t].stack
      n == stackItems[s] + 1
  IN
  /\ At(t, "section") /\ call[t].op = "new"
  /\ IF Fate(t, TRUE) # "running" THEN Stop(Fate(t, TRUE))
     ELSE IF memItems[a] # Null THEN Stop("assertFailed")
     ELSE
       /\ memItems' = [memItems EXCEPT ![a] = s]
       /\ stackItems' = [stackItems EXCEPT ![s] = n]
       /\ owner' = Unlocked(t)
       /\ reported' = (reported \/ TooMany(n))
       /\ leaver' = IF TooMany(n) /\ leaver = Null THEN t ELSE leaver
       /\ call' = [call EXCEPT ![t] = IF TooMany(n) THEN Idle
                                      ELSE [@ EXCEPT !.at = "leave"]]
       /\ UNCHANGED <<guards, made, life, blocks, proc>>

\* Mutant: a count above 1 is left alone.
MutantDropped(n) == IF n = 1 THEN 0 ELSE n

\* Mutant: entries are erased at once.
MutantErased(n) == 0

\* A count after TakeStackOut, which erases the entry of the last block.
Dropped(n) == n - 1

\* Mutant: RemoveEntryRaw is forgotten.
MutantRemoved(a) == memItems

\* s_pMem after RemoveEntryRaw.
Removed(a) == [memItems EXCEPT ![a] = Null]

\* FreeMemAnalyze, under the lock (or without, when nested): both tables.
TakeBlock(t) ==
  LET a     == call[t].addr
      found == a # Null /\ memItems[a] # Null
  IN
  /\ At(t, "section") /\ call[t].op = "delete"
  /\ IF Fate(t, found) # "running" THEN Stop(Fate(t, found))
     ELSE IF found /\ stackItems[memItems[a]] = 0 THEN Stop("assertFailed")
     ELSE
       /\ stackItems' = IF found
                        THEN [stackItems EXCEPT ![memItems[a]] = Dropped(@)]
                        ELSE stackItems
       /\ memItems' = IF found THEN Removed(a) ELSE memItems
       /\ owner' = Unlocked(t)
       /\ Goto(t, "leave")
       /\ UNCHANGED <<guards, made, life, blocks, ends, proc>>

\* ~IntHandler: AllocMem returns the block, FreeMem goes on to free.
Leave(t) ==
  /\ At(t, "leave")
  /\ initOrExit' = FALSE /\ ongoing' = Left(t)
  /\ IF call[t].op = "new"
     THEN /\ held' = held \union ({call[t].addr} \ {Null})
          /\ call' = [call EXCEPT ![t] = Idle]
     ELSE /\ held' = held
          /\ Goto(t, "free")
  /\ UNCHANGED <<made, owner, life, tables, heap, origin, ends, proc>>

\* The final free of FreeMem.
Free(t) ==
  /\ At(t, "free")
  /\ heap' = heap \ {call[t].addr}
  /\ origin' = [a \in Addrs |-> IF a = call[t].addr THEN Null ELSE origin[a]]
  /\ call' = [call EXCEPT ![t] = Idle]
  /\ UNCHANGED <<guards, made, owner, life, tables, held, ends, proc>>

-----------------------------------------------------------------------------
(* exit() and ~MemAnalyzeData. *)

\* main() returns.
Exit(t) ==
  /\ At(t, "client") /\ t = Main /\ memData = "made" /\ leaver = Null
  /\ "daemons" \in Habits \/ \A u \in Threads : call[u] = Idle
  /\ leaver' = t
  /\ UNCHANGED <<guards, made, owner, life, tables, blocks, call, proc, reported>>

\* The destructor of s_memData begins.
Destroy(t) ==
  /\ At(t, "client") /\ t = leaver /\ memData = "made"
  /\ memData' = "gone" /\ initOrExit' = TRUE
  /\ call' = [call EXCEPT ![t] = Frame("deleteMem", "none", Null, Null)]
  /\ UNCHANGED <<ongoing, made, owner, once, tables, blocks, ends, proc>>

\* One object is deleted; a thread that is using it is not waited for.
DeletePart(t, part, here, next) ==
  /\ At(t, here)
  /\ IF owner # Null THEN Stop("race")
     ELSE /\ made' = made \ {part}
          /\ call' = [call EXCEPT ![t] = Frame(next, "none", Null, Null)]
          /\ UNCHANGED <<guards, owner, life, tables, blocks, ends, proc>>

DeleteMem(t)   == DeletePart(t, "mem", "deleteMem", "deleteStack")
DeleteStack(t) == DeletePart(t, "stack", "deleteStack", "deleteMutex")
DeleteMutex(t) == DeletePart(t, "mutex", "deleteMutex", "client")

Next ==
  \E t \in Threads :
    \/ Construct(t) \/ SkipInit(t) \/ CallOnce(t)
    \/ MakeMutex(t) \/ MakeStack(t) \/ MakeMem(t)
    \/ PassNew(t) \/ CallNew(t) \/ Malloc(t) \/ CallDelete(t)
    \/ Lock(t) \/ RegisterBlock(t) \/ TakeBlock(t) \/ Leave(t) \/ Free(t)
    \/ Exit(t) \/ Destroy(t)
    \/ DeleteMem(t) \/ DeleteStack(t) \/ DeleteMutex(t)

Spec == Init /\ [][Next]_vars

-----------------------------------------------------------------------------
(* Properties. *)

\* Both tables exist, and none is just being replaced or deleted.
InUse ==
  /\ {"stack", "mem"} \subseteq made /\ memData # "gone"
  /\ \A t \in Threads : call[t].at # "makeMem"

\* A registered block is allocated in libc, and nobody has got as far as to free
\* it: what the assertion on a new block's address (line 360) rests on.
RegisteredIsAllocated ==
  InUse => \A a \in Addrs : memItems[a] # Null =>
             /\ a \in heap
             /\ \A t \in Threads : ~(call[t].at = "free" /\ call[t].addr = a)

\* The count of a stack is the number of its registered blocks: AllocMem and
\* TakeStackOut keep the two tables in step, across the constructor that makes
\* them anew too.
CountsExact ==
  InUse => \A s \in Stacks :
             stackItems[s] = Cardinality({a \in Addrs : memItems[a] = s})

\* Until a report calls exit(1), neither of the two assertions fails (lines 310
\* and 360), and nobody uses a table that is not there, or one that another
\* thread is using, from the first new to the last delete.
NoLeakAssertFails == reported \/ proc # "assertFailed"
TablesUsedSafely == reported \/ proc \notin {"segv", "race"}

\* The library's own news and deletes, made under the lock, never come to the
\* lock again (std::mutex is not recursive).
NoReentry == proc # "reentered"

\* The program never holds more blocks of one stack than the limit allows
\* without the report having been made.
NoLeakMissed ==
  reported \/ \A s \in Stacks : Cardinality({a \in held : origin[a] = s}) <= Limit

\* A report is made only while more blocks of one stack are allocated than the
\* limit allows.
NoFalseLeak ==
  [][reported' /\ ~reported =>
       \E s \in Stacks : Cardinality({a \in heap : origin[a] = s}) > Limit]_vars

-----------------------------------------------------------------------------
(* The analyzer implements LeakWatch. *)

\* A block is watched while it is in *s_pMem, which is there until the destructor.
WatchedFrom == IF memData = "gone" THEN NoItems ELSE memItems

Watcher == INSTANCE LeakWatch WITH
  Blocks <- Addrs, Sites <- Stacks, Nowhere <- Null, Allowed <- Limit,
  allocated <- heap, from <- WatchedFrom, alarm <- reported

\* Whatever the threads and the life of the process do, AllocMem and FreeMem keep
\* LeakWatch's promise: no block is freed while it is registered, none is registered
\* twice or unallocated, and the report comes with the block that is one too many.
ImplementsWatch == Watcher!WatchSpec
=============================================================================
