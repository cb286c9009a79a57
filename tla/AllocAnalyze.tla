---------------------------- MODULE AllocAnalyze ----------------------------
(***************************************************************************)
(* The allocation analyzer, crash_investigator_alloc_dealloc_analyze.cpp:  *)
(* the table of every block the program was given (m_memoryItems), the     *)
(* table that counts the live blocks of every allocation stack             *)
(* (m_stackItems), the mutex over both, the thread-local flag that lets    *)
(* the library's own allocations through, and the failure callback.        *)
(*                                                                         *)
(* Every call of the program is split where other threads can run: before  *)
(* the lock (libc call, backtrace), under it (one step, except realloc,    *)
(* whose libc call and registration are two steps under one lock), and     *)
(* after it (the final free, the failure report).  The client may be       *)
(* wrong: Misuse says which pointers it passes that it does not own.       *)
(***************************************************************************)
EXTENDS Naturals, FiniteSets

CONSTANTS
  Threads,       \* threads of the program under investigation
  Addrs,         \* addresses of client blocks
  Stacks,        \* distinguishable call stacks
  Traces,        \* addresses of Backtrace objects
  Types,         \* allocation routines used, a subset of MemoryType
  Null,          \* the null pointer
  Early,         \* blocks of libc handed out before the tables exist
  Pool,          \* blocks of the initialisation-time memory pool
  InitialLimit,  \* s_unMaxNumberOfAllocFromTheSameStack at start (10)
  Limits,        \* values SetMaxAllowedAllocInTheSameStack is called with
  Callbacks,     \* callbacks that can be installed: "default", "user"
  Verdicts,      \* FailureActions the user callback returns to an error
  LeakVerdicts,  \* FailureActions it returns to a leak report
  Misuse,        \* pointers the client passes without owning: "stale", "wild"
  CanReuse,      \* may libc hand out an address again after it was freed?
  CanFail,       \* may libc run out of memory?
  Nested         \* does the user callback itself allocate and free?

MemoryType    == {"New", "NewArr", "Malloc"}
FailureAction == {"MakeAction", "DoNotMakeActionToPreventCrash", "ExitApp"}
FailureType   == {"DoubleFree", "BadReallocDeletedMem", "FreeMissmatch",
                  "BadReallocCreatedByWrongAlloc", "PossibilityOfMemoryLeak"}

ASSUME ConstantsAssumption ==
  /\ Null \notin Threads \union Addrs \union Traces \union Stacks
  /\ Null \notin MemoryType \union FailureType
  /\ Types \subseteq MemoryType
  /\ Early \subseteq Addrs /\ Pool \subseteq Addrs /\ Early \cap Pool = {}
  /\ InitialLimit \in Nat /\ Limits \subseteq Nat
  /\ Callbacks \subseteq {"default", "user"} /\ Callbacks # {}
  /\ Verdicts \subseteq FailureAction /\ LeakVerdicts \subseteq FailureAction
  /\ Misuse \subseteq {"stale", "wild"}
  /\ {CanReuse, CanFail, Nested} \subseteq BOOLEAN

VARIABLES
  heap,          \* client blocks libc considers allocated
  used,          \* addresses libc has handed out so far
  content,       \* the stack a Backtrace object holds, Null once it is freed
  memoryItems,   \* m_memoryItems: the SMemoryItem of an address
  stackItems,    \* m_stackItems: count under <<key, stack hashed>>, 0 if absent
  mutexForMap,   \* the thread that holds m_mutexForMap, or Null
  handlerMemory, \* m_handlerMemory: the trace parked for the signal handler
  maxSame,       \* s_unMaxNumberOfAllocFromTheSameStack
  clbkFnc,       \* s_clbkData.clbkFnc
  pc, loc,       \* where a thread is in a call of the library, and its locals
  proc,          \* how the process fares
  held,          \* ghost: the routine the client rightfully holds a block from
  given,         \* ghost: the blocks the client was ever given
  misused,       \* ghost: the client has passed a pointer it did not own
  strayed,       \* ghost: one of those pointers the table had no entry of
  shownDead      \* ghost: a report has read a freed Backtrace

libc    == <<heap, used>>
tables  == <<memoryItems, stackItems>>
config  == <<maxSame, clbkFnc>>
ghosts  == <<held, given, misused, strayed, shownDead>>
vars    == <<heap, used, content, memoryItems, stackItems, mutexForMap,
             handlerMemory, maxSame, clbkFnc, pc, loc, proc, held, given,
             misused, strayed, shownDead>>

MemoryStatus == {"DoesNotExistAtAll", "Allocated", "Deallocated"}
Pcs == {"client", "register", "delete", "realloc", "moved", "free",
        "earlyRealloc", "report", "callback"}
Outcomes == {"running", "exited", "finished", "assertFailed", "segv",
             "blockFreedTwice", "traceFreedTwice"}

SMemoryItem == [type : MemoryType \union {Null}, status : MemoryStatus,
                alloc : Traces \union {Null}, dealloc : Traces \union {Null}]
NoItem == [type |-> Null, status |-> "DoesNotExistAtAll",
           alloc |-> Null, dealloc |-> Null]

Locals == [ptr : Addrs \union {Null}, res : Addrs \union {Null},
           type : MemoryType \union {Null}, trace : Traces \union {Null},
           item : SMemoryItem, failure : FailureType \union {Null}]
NoLoc == [ptr |-> Null, res |-> Null, type |-> Null, trace |-> Null,
          item |-> NoItem, failure |-> Null]

TypeOK ==
  /\ heap \subseteq Addrs /\ used \subseteq Addrs
  /\ content \in [Traces -> Stacks \union {Null}]
  /\ memoryItems \in [Addrs \union {Null} -> SMemoryItem]
  /\ stackItems \in [Traces \X Stacks -> Nat]
  /\ mutexForMap \in Threads \union {Null}
  /\ handlerMemory \in [Threads -> Traces \union {Null}]
  /\ maxSame \in Nat /\ clbkFnc \in {"default", "user"}
  /\ pc \in [Threads -> Pcs] /\ loc \in [Threads -> Locals]
  /\ proc \in Outcomes
  /\ held \in [Addrs -> MemoryType \union {Null}]
  /\ given \subseteq Addrs
  /\ {misused, strayed, shownDead} \subseteq BOOLEAN

Init ==
  /\ heap = Early /\ used = Early
  /\ content = [tr \in Traces |-> Null]
  /\ memoryItems = [a \in Addrs \union {Null} |-> NoItem]
  /\ stackItems = [e \in Traces \X Stacks |-> 0]
  /\ mutexForMap = Null
  /\ handlerMemory = [t \in Threads |-> Null]
  /\ maxSame = InitialLimit /\ clbkFnc \in Callbacks
  /\ pc = [t \in Threads |-> "client"] /\ loc = [t \in Threads |-> NoLoc]
  /\ proc = "running"
  /\ held = [a \in Addrs |-> IF a \in Early \union Pool THEN "Malloc" ELSE Null]
  /\ given = Early \union Pool
  /\ misused = FALSE /\ strayed = FALSE /\ shownDead = FALSE

-----------------------------------------------------------------------------
(* The C library, as the analyzer uses it. *)

\* Addresses malloc may return next.
FreshAddrs == (IF CanReuse THEN Addrs \ heap ELSE Addrs \ used) \ Pool

\* Objects InitBacktraceDataForCurrentStack may return: it answers a null
\* pointer when either of its two allocations fails.
FreshTraces ==
  {tr \in Traces : content[tr] = Null} \union (IF CanFail THEN {Null} ELSE {})

\* content after the trace tr, if any, was filled with the stack s.
Fill(tr, s) == [x \in Traces |-> IF x = tr THEN s ELSE content[x]]

\* content after FreeBacktraceData of every trace of S; null is ignored.
Release(c, S) == [x \in Traces |-> IF x \in S THEN Null ELSE c[x]]

\* Some trace of S is freed memory.
Dead(c, S) == \E tr \in S \ {Null} : c[tr] = Null

-----------------------------------------------------------------------------
(* m_stackItems.FindEntry: entries are bucketed by the hash of the stack the *)
(* key held when it was added, and compared with what the key holds now.  A  *)
(* key or a query whose object was freed may compare either way.             *)

NotFound == <<Null, Null>>

\* The stacks whose hash the object tr may give.
HashedAs(c, tr) == IF c[tr] = Null THEN Stacks ELSE {c[tr]}

FindStackEntry(stk, c, q) ==
  LET Entries == {e \in Traces \X Stacks : stk[e] > 0}
  IN {e \in Entries : e[2] \in HashedAs(c, q) \cap HashedAs(c, e[1])}
       \union (IF \E e \in Entries : c[q] = e[2] /\ c[e[1]] = e[2]
               THEN {} ELSE {NotFound})

-----------------------------------------------------------------------------
(* Ends of a step. *)

\* The process runs, and the thread t has come to the label l.
At(t, l) == proc = "running" /\ pc[t] = l

\* The process is gone; nothing of its state matters any more.
Stop(how) ==
  /\ proc' = how
  /\ UNCHANGED <<libc, content, tables, mutexForMap, handlerMemory, config,
                 pc, loc, ghosts>>

\* The call returns r, got from routine ty, to the client.
Return(t, r, ty) ==
  /\ pc' = [pc EXCEPT ![t] = "client"]
  /\ loc' = [loc EXCEPT ![t] = NoLoc]
  /\ held' = [a \in Addrs |-> IF a = r THEN ty ELSE held[a]]
  /\ given' = given \union ({r} \ {Null})
  /\ UNCHANGED <<misused, strayed, shownDead>>

\* The call goes on at label l with the locals v.
Goto(t, l, v) ==
  /\ pc' = [pc EXCEPT ![t] = l]
  /\ loc' = [loc EXCEPT ![t] = v]
  /\ UNCHANGED ghosts

\* InitFailureDataAndCallClbk is entered with a copy of the item.
Report(t, item, ptr, res, failure) ==
  Goto(t, "report", [ptr |-> ptr, res |-> res, type |-> loc[t].type,
                     trace |-> loc[t].trace, item |-> item,
                     failure |-> failure])

-----------------------------------------------------------------------------
(* The pieces of the critical sections.  A definition called Mutant... is a  *)
(* slip the code could have in the definition after it; the specification    *)
(* never uses it.                                                            *)

\* Mutants: the lock is not taken; a report is made before it is given back.
MutantNoLock == TRUE
MutantReportHoldsLock ==
  mutexForMap = Null /\ \A t \in Threads : pc[t] \notin {"report", "callback"}

\* std::unique_lock(s_mutexForMap) gets the lock.
LockFree == mutexForMap = Null

\* Mutant: unlock is forgotten.
MutantForgotten == mutexForMap' = mutexForMap

\* a_pLock->unlock(), or the end of the lock's scope.
Unlock == mutexForMap' = Null

\* FindEntry answered s_endIter.
Unknown(item) == item.status = "DoesNotExistAtAll"

\* The initialisation pool takes the block back: SystemSpecificLibInitial...
OfPool(a) == a \in Pool

\* Mutant: an entry the address had before stays.
MutantStale(table, a, item) ==
  IF Unknown(table[a]) THEN [table EXCEPT ![a] = item] ELSE table

\* m_memoryItems with the item under the address a.
Entered(table, a, item) == [table EXCEPT ![a] = item]

\* Mutant: the trace of the deallocation is forgotten.
MutantTracesOf(item) == {item.alloc}

\* The traces an item owns, freed when its address is registered again.
TracesOf(item) == {item.alloc, item.dealloc}

\* Mutant: the entry is not marked.
MutantStruck(a, tr) == [memoryItems EXCEPT ![a].dealloc = tr]

\* m_memoryItems once a is deallocated in the stack of tr; a realloc that moves
\* the block gives no trace (DuringReallocChanged is Deallocated).
Struck(a, tr) ==
  [memoryItems EXCEPT ![a].status = "Deallocated", ![a].dealloc = tr]

\* Mutants: the count drops by two; the entry goes with its first block; the
\* count is not dropped.
MutantDroppedTwo(e) == [stackItems EXCEPT ![e] = @ - 2]
MutantRemoved(e)    == [stackItems EXCEPT ![e] = 0]
MutantKept(e)       == stackItems

\* m_stackItems after the count under the entry e dropped by one; an entry at
\* 0 is an absent one.
Dropped(e) == [stackItems EXCEPT ![e] = @ - 1]

\* Mutant: one block too early.
MutantTooMany(n) == n >= maxSame

\* n blocks of one stack call for a leak report.
TooMany(n) == n > maxSame

\* Mutant: the block's own trace goes.
MutantUnusedTraces(t) == {memoryItems[loc[t].ptr].alloc}

\* What a realloc that resized in place frees.
UnusedTraces(t) == {loc[t].trace}

-----------------------------------------------------------------------------
(* AddNewAllocatedMemoryAndCleanOldEntryNoLock: register loc[t].res with the *)
(* trace loc[t].trace in the given tables, and leave the critical section.   *)
(* The count under a stack is raised only while a limit is set; passing the  *)
(* limit is reported after the unlock.                                       *)

AddNewNoLock(t, table, stk) ==
  LET new  == loc[t].res
      tr   == loc[t].trace
      old  == TracesOf(table[new])
      c    == Release(content, old)
      item == [type |-> loc[t].type, status |-> "Allocated",
               alloc |-> tr, dealloc |-> Null]
  IN \/ Dead(content, old) /\ Stop("traceFreedTwice")
     \/ ~Dead(content, old) /\ tr = Null /\ Stop("segv") \* HashOfTheStack(null)
     \/ /\ ~Dead(content, old) /\ tr # Null
        /\ content' = c
        /\ memoryItems' = Entered(table, new, item)
        /\ Unlock
        /\ \E e \in FindStackEntry(stk, c, tr) :
             \/ /\ e = NotFound
                /\ \E s \in HashedAs(c, tr) :
                     stackItems' = [stk EXCEPT ![<<tr, s>>] = 1]
                /\ Return(t, new, loc[t].type)
             \/ /\ e # NotFound /\ maxSame = 0
                /\ stackItems' = stk
                /\ Return(t, new, loc[t].type)
             \/ /\ e # NotFound /\ maxSame > 0
                /\ stackItems' = [stk EXCEPT ![e] = @ + 1]
                /\ IF TooMany(stk[e] + 1)
                   THEN Report(t, item, new, new, "PossibilityOfMemoryLeak")
                   ELSE Return(t, new, loc[t].type)
        /\ UNCHANGED <<libc, handlerMemory, config, proc>>

\* TestOperatorAlloc, TestOperatorCalloc and TestOperatorReAlloc(NULL, n): the
\* libc call and the backtrace, before the lock.  A count of 0 and a failed
\* libc call return without touching any state.
CallAlloc(t) ==
  /\ At(t, "client")
  /\ \E a \in FreshAddrs, tr \in FreshTraces, ty \in Types, s \in Stacks :
       /\ heap' = heap \union {a} /\ used' = used \union {a}
       /\ content' = Fill(tr, s)
       /\ Goto(t, "register", [NoLoc EXCEPT !.res = a, !.type = ty,
                                            !.trace = tr])
  /\ UNCHANGED <<tables, mutexForMap, handlerMemory, config, proc>>

\* AddNewAllocatedMemoryAndCleanOldEntry: registration under the lock.
Register(t) ==
  /\ At(t, "register") /\ LockFree
  /\ AddNewNoLock(t, memoryItems, stackItems)

-----------------------------------------------------------------------------
(* The client hands a pointer back. *)

\* Pointers the client may pass to a routine of type ty: the blocks it holds from
\* that routine; "stale", every block it was ever given, the ones that went past
\* the tables included (what the pool does with a block given back twice is
\* outside the contract of MemoryPool); "wild", any address.
Passes(a, ty) ==
  \/ held[a] = ty
  \/ "stale" \in Misuse /\ a \in given \ Pool
  \/ "wild" \in Misuse

\* The trace of the caller is taken, and the ghosts follow who owns a.
CallWith(t, a, ty, label) ==
  \E tr \in FreshTraces, s \in Stacks :
    /\ content' = Fill(tr, s)
    /\ pc' = [pc EXCEPT ![t] = label]
    /\ loc' = [loc EXCEPT ![t] = [NoLoc EXCEPT !.ptr = a, !.type = ty,
                                               !.trace = tr]]
    /\ IF held[a] = ty
       THEN held' = [held EXCEPT ![a] = Null] /\ UNCHANGED <<misused, strayed>>
       ELSE /\ held' = held /\ misused' = TRUE
            /\ strayed' = (strayed \/ Unknown(memoryItems[a]))
    /\ UNCHANGED <<libc, tables, mutexForMap, handlerMemory, config, proc, given,
                   shownDead>>

\* TestOperatorDelete before the lock; a null pointer returns at once.
CallDelete(t) ==
  /\ At(t, "client")
  /\ \E a \in Addrs, ty \in Types : Passes(a, ty) /\ CallWith(t, a, ty, "delete")

\* CMemoryItem::Init: the trace replaces the one parked before.
Park(t) ==
  /\ handlerMemory' = [handlerMemory EXCEPT ![t] = loc[t].trace]
  /\ content' = Release(content, {handlerMemory[t]})

\* TestOperatorDelete under the lock.
DeleteLocked(t) ==
  LET a    == loc[t].ptr
      item == memoryItems[a]
  IN
  /\ At(t, "delete") /\ LockFree
  /\ \/ /\ Unknown(item) /\ OfPool(a) \* MemoryPool::Dealloc
        /\ Return(t, Null, Null)
        /\ UNCHANGED <<libc, content, tables, mutexForMap, handlerMemory,
                       config, proc>>
     \/ /\ Unknown(item) /\ ~OfPool(a)
        /\ Park(t)
        /\ Goto(t, "free", [NoLoc EXCEPT !.ptr = a])
        /\ UNCHANGED <<libc, tables, mutexForMap, config, proc>>
     \/ /\ ~Unknown(item) /\ item.status # "Allocated"
        /\ Report(t, item, a, Null, "DoubleFree")
        /\ UNCHANGED <<libc, content, tables, mutexForMap, handlerMemory,
                       config, proc>>
     \/ /\ item.status = "Allocated"
        /\ \E e \in FindStackEntry(stackItems, content, item.alloc) :
             \/ e = NotFound /\ Stop("assertFailed")
             \/ /\ e # NotFound
                /\ stackItems' = Dropped(e)
                /\ \/ /\ item.type # loc[t].type
                      /\ Report(t, item, a, Null, "FreeMissmatch")
                      /\ UNCHANGED memoryItems
                   \/ /\ item.type = loc[t].type
                      /\ memoryItems' = Struck(a, loc[t].trace)
                      /\ Goto(t, "free", [NoLoc EXCEPT !.ptr = a])
                /\ UNCHANGED <<libc, content, mutexForMap, handlerMemory,
                               config, proc>>

\* freen outside the lock.
Free(t) ==
  /\ At(t, "free")
  /\ \/ /\ loc[t].ptr \in heap
        /\ heap' = heap \ {loc[t].ptr}
        /\ Return(t, Null, Null)
        /\ UNCHANGED <<used, content, tables, mutexForMap, handlerMemory,
                       config, proc>>
     \/ loc[t].ptr \notin heap /\ Stop("blockFreedTwice")

-----------------------------------------------------------------------------
(* Realloc. *)

\* TestOperatorReAlloc before the lock.  A null pointer makes it an
\* allocation, a count of 0 a delete of type Malloc.
CallReAlloc(t) ==
  /\ At(t, "client") /\ "Malloc" \in Types
  /\ \E a \in Addrs : Passes(a, "Malloc") /\ CallWith(t, a, "Malloc", "realloc")

\* TestOperatorReAlloc under the lock, up to and including its libc call.
ReAllocLocked(t) ==
  LET a    == loc[t].ptr
      item == memoryItems[a]
  IN
  /\ At(t, "realloc") /\ LockFree
  /\ \/ /\ Unknown(item) /\ OfPool(a)
        /\ \E r \in {p \in Pool : held[p] = Null} \union {Null} :
             Return(t, r, "Malloc") \* MemoryPool::Realloc
        /\ UNCHANGED <<libc, content, tables, mutexForMap, handlerMemory,
                       config, proc>>
     \/ /\ Unknown(item) /\ ~OfPool(a)
        /\ Park(t)
        /\ Goto(t, "earlyRealloc", [NoLoc EXCEPT !.ptr = a])
        /\ UNCHANGED <<libc, tables, mutexForMap, config, proc>>
     \/ /\ ~Unknown(item) /\ item.type # "Malloc"
        /\ Report(t, item, a, Null, "BadReallocCreatedByWrongAlloc")
        /\ UNCHANGED <<libc, content, tables, mutexForMap, handlerMemory,
                       config, proc>>
     \/ /\ ~Unknown(item) /\ item.type = "Malloc" /\ item.status # "Allocated"
        /\ Report(t, item, a, Null, "BadReallocDeletedMem")
        /\ UNCHANGED <<libc, content, tables, mutexForMap, handlerMemory,
                       config, proc>>
     \/ /\ item.status = "Allocated" /\ item.type = "Malloc"
        /\ a \notin heap /\ Stop("blockFreedTwice")
     \/ /\ item.status = "Allocated" /\ item.type = "Malloc"
        /\ a \in heap \* resized in place: the new trace is dropped
        /\ content' = Release(content, UnusedTraces(t))
        /\ Return(t, a, "Malloc")
        /\ UNCHANGED <<libc, tables, mutexForMap, handlerMemory, config, proc>>
     \/ /\ item.status = "Allocated" /\ item.type = "Malloc"
        /\ a \in heap
        /\ \E r \in FreshAddrs : \* moved
             /\ heap' = (heap \ {a}) \union {r}
             /\ used' = used \union {r}
             /\ Goto(t, "moved", [loc[t] EXCEPT !.res = r])
        /\ mutexForMap' = t
        /\ UNCHANGED <<content, tables, handlerMemory, config, proc>>
     \/ /\ item.status = "Allocated" /\ item.type = "Malloc"
        /\ a \in heap /\ CanFail \* null, which differs from a_ptr as well
        /\ pc' = [pc EXCEPT ![t] = "moved"] /\ loc' = loc
        /\ held' = [held EXCEPT ![a] = "Malloc"] \* C leaves a with its owner
        /\ mutexForMap' = t
        /\ UNCHANGED <<libc, content, tables, handlerMemory, config, proc,
                       given, misused, strayed, shownDead>>

\* The rest of TestOperatorReAlloc when libc answered another pointer: the old
\* entry is retired, the answer registered under the same lock.
ReAllocMoved(t) ==
  LET a == loc[t].ptr IN
  /\ At(t, "moved") /\ mutexForMap = t
  /\ \E e \in FindStackEntry(stackItems, content, memoryItems[a].alloc) :
       \/ e = NotFound /\ Stop("assertFailed")
       \/ /\ e # NotFound
          /\ AddNewNoLock(t, Struck(a, Null), Dropped(e))

\* libc's realloc of the live block a past the tables.  When it fails the client
\* keeps a.
LibcReAlloc(t, a) ==
  \/ \E r \in FreshAddrs \union {a} :
       /\ heap' = (heap \ {a}) \union {r} /\ used' = used \union {r}
       /\ Return(t, r, "Malloc")
  \/ CanFail /\ UNCHANGED libc /\ Return(t, a, "Malloc")

\* SystemSpecificGlibcRealloc, for a block the tables never saw.
EarlyReAlloc(t) ==
  /\ At(t, "earlyRealloc")
  /\ \/ loc[t].ptr \notin heap /\ Stop("blockFreedTwice")
     \/ /\ loc[t].ptr \in heap /\ LibcReAlloc(t, loc[t].ptr)
        /\ UNCHANGED <<content, tables, mutexForMap, handlerMemory, config,
                       proc>>

-----------------------------------------------------------------------------
(* InitFailureDataAndCallClbk. *)

\* The traces a report of the thread's failure turns into names.
ShownTraces(v) ==
  CASE v.failure \in {"DoubleFree", "BadReallocDeletedMem"} ->
         {v.item.alloc, v.item.dealloc, v.trace}
    [] v.failure \in {"FreeMissmatch", "BadReallocCreatedByWrongAlloc"} ->
         {v.item.alloc, v.trace}
    [] OTHER -> {v.item.alloc}

\* The names are built and the callback is called; the default one prints them
\* and asks for exit.
CallClbk(t) ==
  /\ At(t, "report")
  /\ shownDead' = (shownDead \/ Dead(content, ShownTraces(loc[t])))
  /\ IF clbkFnc = "default"
     THEN proc' = "exited" /\ pc' = pc
     ELSE proc' = proc /\ pc' = [pc EXCEPT ![t] = "callback"]
  /\ UNCHANGED <<libc, content, tables, mutexForMap, handlerMemory, config, loc,
                 held, given, misused, strayed>>

\* What the failing call gives the client once the callback let it go on: the
\* block whose registration raised a leak report, a null pointer otherwise.
Answer(t) == Return(t, loc[t].res, loc[t].type)

\* The user callback answers; its verdict is carried out and the cleaner frees
\* the trace handed to the report.
EndClbk(t) ==
  LET a == loc[t].ptr
      Clean == /\ content' = Release(content, {loc[t].trace})
               /\ UNCHANGED <<tables, mutexForMap, handlerMemory, config, proc>>
      answers == IF loc[t].failure = "PossibilityOfMemoryLeak"
                 THEN LeakVerdicts ELSE Verdicts
      reallocates == loc[t].failure \in {"BadReallocDeletedMem",
                                         "BadReallocCreatedByWrongAlloc"}
      dead == Dead(content, {loc[t].trace})
  IN
  /\ At(t, "callback")
  /\ \E verdict \in answers :
       \/ verdict = "ExitApp" /\ Stop("exited")
       \/ /\ verdict # "ExitApp" /\ dead
          /\ Stop("traceFreedTwice")
       \/ /\ verdict = "MakeAction" /\ a \notin heap \union {Null}
          /\ Stop("blockFreedTwice")
       \/ /\ verdict = "DoNotMakeActionToPreventCrash" /\ ~dead
          /\ Answer(t) /\ Clean /\ UNCHANGED libc
       \/ /\ verdict = "MakeAction" /\ ~dead /\ ~reallocates
          /\ a \in heap \union {Null} \* free ignores null
          /\ heap' = heap \ {a} /\ used' = used
          /\ Answer(t) /\ Clean
       \/ /\ verdict = "MakeAction" /\ ~dead /\ reallocates /\ a \in heap
          /\ LibcReAlloc(t, a) /\ Clean

\* What the user callback itself does with memory: s_bIsAllocingOrDeallocing is
\* set, so its calls go to libc past the tables.
NestedCall(t) ==
  /\ Nested /\ At(t, "callback")
  /\ \/ \E a \in FreshAddrs, ty \in Types :
          /\ heap' = heap \union {a} /\ used' = used \union {a}
          /\ held' = [held EXCEPT ![a] = ty] /\ given' = given \union {a}
          /\ proc' = proc
     \/ \E a \in Addrs :
          /\ held[a] # Null /\ held' = [held EXCEPT ![a] = Null]
          /\ given' = given
          /\ heap' = heap \ {a} /\ used' = used
          /\ proc' = IF a \in heap THEN proc ELSE "blockFreedTwice"
  /\ UNCHANGED <<content, tables, mutexForMap, handlerMemory, config, pc, loc,
                 misused, strayed, shownDead>>

-----------------------------------------------------------------------------
(* The settings, both written without any lock. *)

SetMaxAllowedAllocInTheSameStack ==
  /\ proc = "running"
  /\ \E n \in Limits : maxSame' = n
  /\ UNCHANGED <<libc, content, tables, mutexForMap, handlerMemory, clbkFnc, pc,
                 loc, proc, ghosts>>

ReplaceFailureClbk ==
  /\ proc = "running"
  /\ \E c \in Callbacks : clbkFnc' = c
  /\ UNCHANGED <<libc, content, tables, mutexForMap, handlerMemory, maxSame, pc,
                 loc, proc, ghosts>>

-----------------------------------------------------------------------------
(* The end of the program. *)

\* The fields of items that hold traces, and what they hold.
ItemPlaces == {"alloc", "dealloc"} \X (Addrs \union {Null})

Held(p) == IF p[1] = "alloc" THEN memoryItems[p[2]].alloc
                             ELSE memoryItems[p[2]].dealloc

\* main returned and the other threads are gone: ~CrashInvestAnalizerInit frees
\* the traces of every item it finds.
Destroy ==
  LET all    == {Held(p) : p \in ItemPlaces}
      shared == \E p, q \in ItemPlaces :
                  p # q /\ Held(p) # Null /\ Held(p) = Held(q)
  IN
  /\ proc = "running" /\ \A t \in Threads : pc[t] = "client"
  /\ IF shared \/ Dead(content, all) THEN Stop("traceFreedTwice")
     ELSE /\ content' = Release(content, all)
          /\ proc' = "finished"
          /\ UNCHANGED <<libc, tables, mutexForMap, handlerMemory, config, pc, loc,
                         ghosts>>

-----------------------------------------------------------------------------
\* The steps the library takes by itself once it was called.
LibraryStep(t) ==
  \/ Register(t) \/ DeleteLocked(t) \/ Free(t)
  \/ ReAllocLocked(t) \/ ReAllocMoved(t) \/ EarlyReAlloc(t)
  \/ CallClbk(t)

\* The steps of the program: its calls, and its callback.
ProgramStep(t) ==
  CallAlloc(t) \/ CallDelete(t) \/ CallReAlloc(t) \/ EndClbk(t) \/ NestedCall(t)

Next ==
  \/ \E t \in Threads : LibraryStep(t) \/ ProgramStep(t)
  \/ SetMaxAllowedAllocInTheSameStack
  \/ ReplaceFailureClbk
  \/ Destroy

Spec == Init /\ [][Next]_vars

\* A thread inside the library keeps running; a mutex is only granted when it
\* is free.  Nothing is assumed of the program or of its callback.
Fairness == \A t \in Threads : WF_vars(LibraryStep(t))

FairSpec == Spec /\ Fairness

-----------------------------------------------------------------------------
(* The steps after which the counts of m_stackItems may be wrong.            *)

\* The thread t registers a block and goes on.
Registers(t) == pc[t] \in {"register", "moved"} /\ pc'[t] # pc[t]

\* The Backtrace freed with the old entry of the address is the key of a stack
\* that still has blocks (CleanOldEntry deletes it whoever uses it).
FreesKey(t) ==
  \E k \in Traces, s \in Stacks :
    k = memoryItems[loc[t].res].alloc /\ stackItems'[<<k, s>>] > 0

\* The address was still in the table as allocated: it went back to libc past
\* the table, or it is the null pointer of a second failed realloc.
Overwrites(t) == memoryItems[loc[t].res].status = "Allocated"

\* With a limit of 0 only the first block of a stack is counted.
Uncounted(t) ==
  maxSame = 0 /\ \A s \in Stacks : stackItems'[<<loc[t].trace, s>>] = 0

\* The count is dropped, and then the block is found to be of another routine
\* and stays.
DropsCountOnly(t) ==
  pc[t] = "delete" /\ pc'[t] = "report" /\ loc'[t].failure = "FreeMissmatch"

Skews ==
  \E t \in Threads :
    \/ Registers(t) /\ (FreesKey(t) \/ Overwrites(t) \/ Uncounted(t))
    \/ DropsCountOnly(t)

\* The program up to the first of these steps.
CountSpec == Init /\ [][Next /\ ~Skews]_vars

-----------------------------------------------------------------------------
(* Properties. *)

\* A thread is between the libc call that made it responsible for the block a
\* and the step that hands a on: registration, or the final free.
Owes(t, a) ==
  \/ pc[t] \in {"register", "moved"} /\ loc[t].res = a
  \/ pc[t] = "free" /\ loc[t].ptr = a

\* The table says a is allocated, and no realloc is about to retire it.
Live(a) ==
  /\ memoryItems[a].status = "Allocated"
  /\ \A t \in Threads : pc[t] = "moved" /\ loc[t].res # Null => loc[t].ptr # a

\* What the table calls allocated libc has not got back, and nobody is about to
\* give it back or to register it a second time; and a block some thread has in
\* its hands has that thread alone (TestOperatorDelete marks the entry before it
\* frees, AddNew... registers only after libc answered).
BlocksAgree ==
  \A a \in Addrs :
    /\ Live(a) => a \in heap
    /\ \A t \in Threads :
         Owes(t, a) => /\ a \in heap /\ ~Live(a)
                       /\ \A u \in Threads : Owes(u, a) => u = t

\* The table and libc agree until the client has passed a pointer that it did not
\* own and that the table has no entry of: that one goes to libc unchecked (lines
\* 217-230 and 319-335).
HeapAgrees == ~strayed => BlocksAgree

\* "The goal of this project": whatever registered block the program frees or
\* reallocates again, and from however many threads, libc is never asked to free
\* a block that is not allocated.  It is asked only after the program has passed
\* a pointer it did not own and the tables never saw, such as a block from
\* before their time that it had given back already.
NoBlockFreedTwice == ~strayed => proc # "blockFreedTwice"

\* A program that returns every block once, with the right routine, is never
\* accused of anything but a leak.
NoFalseAlarm ==
  ~misused => \A t \in Threads :
    pc[t] = "report" => loc[t].failure = "PossibilityOfMemoryLeak"

\* assert((stackIter != s_endIter) && ((stackIter->second--) != 0)) never fires.
NoAssertFails == proc # "assertFailed"

\* Every report turns traces into names that are still allocated.
ReportsReadLiveTraces == ~shownDead

\* The item a report was given by value is still the entry of its address.
UpToDate(t) == memoryItems[loc[t].ptr] = loc[t].item

\* A report made outside the lock can read a freed Backtrace only if the address
\* was registered again since the item was copied: no other call, callback or
\* cleaner frees what it shows.
ReportsReadOwnTraces ==
  \A t \in Threads :
    pc[t] = "report" /\ UpToDate(t) => ~Dead(content, ShownTraces(loc[t]))

\* Blocks of the table that were allocated from the stack s and are live.
CountedFor(s) ==
  {a \in Addrs \union {Null} :
     memoryItems[a].status = "Allocated" /\ content[memoryItems[a].alloc] = s}

\* Until the first step of Skews or the destructor, m_stackItems has exactly one
\* entry for every stack with live blocks, its key is a live trace of that stack,
\* and its count is the number of those blocks: the bookkeeping of Alloc, Delete
\* and ReAlloc does not drift.
StackTableExact ==
  proc # "finished" => \A s \in Stacks :
    LET n == Cardinality(CountedFor(s))
        keys == {k \in Traces : stackItems[<<k, s>>] > 0}
    IN IF n = 0 THEN keys = {}
       ELSE \E k \in Traces : /\ keys = {k} /\ content[k] = s
                              /\ stackItems[<<k, s>>] = n

\* A registration raises the leak report exactly when a limit is set and, with the
\* new block, more than the allowed number of blocks of its stack are live.
LeakReportExact ==
  [][\A t \in Threads, s \in Stacks :
       Registers(t) /\ content[loc[t].trace] = s =>
         (pc'[t] = "report" <=>
            maxSame > 0 /\ Cardinality(CountedFor(s)') > maxSame)]_vars

\* Places that own a Backtrace: the two fields of an item, until the destructor
\* gives all of them back, a call in progress (until it reports a leak, whose
\* trace is the item's) and the signal handler.
Places == (IF proc = "finished" THEN {} ELSE ItemPlaces)
            \union ({"call", "parked"} \X Threads)

Owned(p) ==
  CASE p[1] = "parked" -> handlerMemory[p[2]]
    [] p[1] = "call"   -> IF loc[p[2]].failure = "PossibilityOfMemoryLeak"
                          THEN Null ELSE loc[p[2]].trace
    [] OTHER -> Held(p)

\* Every Backtrace is owned by exactly one place: none is lost, none is freed
\* under an owner, none is freed by two; and when the program is over only those
\* parked for the signal handler are left.
TracesOwnedOnce ==
  /\ \A p, q \in Places : p # q /\ Owned(p) # Null => Owned(p) # Owned(q)
  /\ {Owned(p) : p \in Places} \ {Null} = {tr \in Traces : content[tr] # Null}

\* Exactly the thread between the two halves of a realloc holds the lock; no
\* failure is reported, and no callback runs, under it.
LockDiscipline ==
  \A t \in Threads : mutexForMap = t <=> pc[t] = "moved"

\* The lock is always given back, even when a callback never returns: reports
\* are made after the unlock.
MutexReleased ==
  \A t \in Threads :
    mutexForMap = t ~> (mutexForMap # t \/ proc # "running")

\* Unless reallocs of others keep taking the lock for ever (std::mutex promises
\* no fairness), every call ends or hands the thread to the callback: no call
\* waits for another thread's callback.
CallsEnd ==
  <>[](mutexForMap = Null) =>
    \A t \in Threads :
      []<>(pc[t] \in {"client", "callback"} \/ proc # "running")

\* FreeBacktraceData never frees a Backtrace a second time, from the first
\* registration of an address to the destructor.
NoTraceFreedTwice == proc # "traceFreedTwice"

-----------------------------------------------------------------------------
(* The analyzer implements AllocLedger. *)

\* Where the block a is in its life.
BlockState(a) ==
  IF Live(a) THEN "live"
  ELSE IF a \notin heap THEN "free"
  ELSE IF \E t \in Threads : pc[t] \in {"register", "moved"} /\ loc[t].res = a
       THEN "handed"
  ELSE "dying"

Ledger == INSTANCE AllocLedger WITH
  Blocks <- Addrs,
  block <- [a \in Addrs |-> BlockState(a)],
  up <- (proc = "running")

\* A block goes back to libc once per registration, after its entry was marked,
\* and it does go back: no interleaving of frees, reallocs and reports of a
\* client that misuses its pointers breaks the life of a block.
ImplementsLedger == Ledger!LedgerSpec

=============================================================================
