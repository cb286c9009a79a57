------------------------- MODULE AllocAnalyzeProofs -------------------------
(* Theorems about AllocAnalyze, for every value of its constants: the types, *)
(* the mutex, and that libc never gets a block twice.                        *)
EXTENDS AllocAnalyze, TLAPS

ContentType == [Traces -> Stacks \union {Null}]
TableType   == [Addrs \union {Null} -> SMemoryItem]
CountType   == [Traces \X Stacks -> Nat]

-----------------------------------------------------------------------------
(* The helpers. *)

\* Freeing traces (FreeBacktraceData) leaves a well-formed trace memory.
LEMMA ReleaseType ==
  ASSUME NEW c \in ContentType, NEW S
  PROVE  Release(c, S) \in ContentType
BY DEF Release, ContentType

\* Filling a trace (InitBacktraceDataForCurrentStack), too.
LEMMA FillType ==
  ASSUME content \in ContentType, NEW tr, NEW s \in Stacks
  PROVE  Fill(tr, s) \in ContentType
BY DEF Fill, ContentType

\* FindEntry of the stack table answers the end iterator or an entry whose count
\* is not 0.
LEMMA FindStackEntryFinds ==
  ASSUME NEW stk \in CountType, NEW c, NEW q, NEW e \in FindStackEntry(stk, c, q),
         e # NotFound
  PROVE  e \in Traces \X Stacks /\ stk[e] > 0
BY DEF FindStackEntry

\* An item is well-formed once it is struck; so is the table.
LEMMA StruckType ==
  ASSUME TypeOK, NEW a \in Addrs \union {Null}, NEW tr \in Traces \union {Null}
  PROVE  Struck(a, tr) \in TableType
BY DEF Struck, TypeOK, TableType, SMemoryItem, MemoryStatus

\* Dropping an entry that was found keeps all counts natural numbers.
LEMMA DroppedType ==
  ASSUME TypeOK, NEW c, NEW q, NEW e \in FindStackEntry(stackItems, c, q),
         e # NotFound
  PROVE  Dropped(e) \in CountType
<1>1. stackItems \in CountType
  BY DEF TypeOK, CountType
<1>2. e \in Traces \X Stacks /\ stackItems[e] > 0
  BY <1>1, FindStackEntryFinds
<1>3. stackItems[e] - 1 \in Nat
  BY <1>1, <1>2 DEF CountType
<1> QED
  BY <1>1, <1>2, <1>3 DEF Dropped, CountType

\* The two halves of TypeOK: what all threads share, and what a call keeps.
StoreType ==
  /\ heap \subseteq Addrs /\ used \subseteq Addrs
  /\ content \in ContentType /\ memoryItems \in TableType
  /\ stackItems \in CountType
  /\ mutexForMap \in Threads \union {Null}
  /\ handlerMemory \in [Threads -> Traces \union {Null}]
  /\ maxSame \in Nat /\ clbkFnc \in {"default", "user"}
  /\ proc \in Outcomes

CallType ==
  /\ pc \in [Threads -> Pcs] /\ loc \in [Threads -> Locals]
  /\ held \in [Addrs -> MemoryType \union {Null}]
  /\ given \subseteq Addrs
  /\ {misused, strayed, shownDead} \subseteq BOOLEAN

LEMMA TypeSplits ==
  /\ TypeOK => StoreType /\ CallType
  /\ StoreType' /\ CallType' => TypeOK'
BY DEF TypeOK, StoreType, CallType, ContentType, TableType, CountType

\* Stopping the process (exit, a failed assertion, a crash) is well-typed.
LEMMA StopType ==
  ASSUME TypeOK, NEW how \in Outcomes, Stop(how)
  PROVE  TypeOK'
BY DEF Stop, TypeOK, libc, tables, config, ghosts, SMemoryItem, Locals

\* Returning to the client leaves the call's state well-formed.
LEMMA ReturnType ==
  ASSUME CallType, NEW t \in Threads, NEW r \in Addrs \union {Null},
         NEW ty \in MemoryType \union {Null}, Return(t, r, ty)
  PROVE  CallType'
<1>1. NoLoc \in Locals
  BY DEF NoLoc, Locals, NoItem, SMemoryItem, MemoryStatus
<1>2. loc' \in [Threads -> Locals]
  BY <1>1 DEF Return, CallType
<1> QED
  BY <1>2 DEF Return, CallType, Pcs

\* Going on at another label with well-formed locals does, too.
LEMMA GotoType ==
  ASSUME CallType, NEW t \in Threads, NEW l \in Pcs, NEW v \in Locals,
         Goto(t, l, v)
  PROVE  CallType'
BY DEF Goto, CallType, ghosts

\* InitFailureDataAndCallClbk is entered with a well-formed copy of the item.
LEMMA ReportType ==
  ASSUME CallType, NEW t \in Threads, NEW i \in SMemoryItem,
         NEW p \in Addrs \union {Null}, NEW r \in Addrs \union {Null},
         NEW f \in FailureType, Report(t, i, p, r, f)
  PROVE  CallType'
<1> DEFINE v == [ptr |-> p, res |-> r, type |-> loc[t].type,
                 trace |-> loc[t].trace, item |-> i, failure |-> f]
<1>1. loc[t] \in Locals
  BY DEF CallType
<1>2. v \in Locals
  BY <1>1 DEF Locals
<1>3. Goto(t, "report", v)
  BY DEF Report
<1>4. "report" \in Pcs
  BY DEF Pcs
<1> HIDE DEF v
<1> QED
  BY <1>2, <1>3, <1>4, GotoType

\* AddNewAllocatedMemoryAndCleanOldEntryNoLock leaves well-formed tables.
LEMMA AddNewType ==
  ASSUME TypeOK, NEW t \in Threads, NEW table \in TableType, NEW stk \in CountType,
         AddNewNoLock(t, table, stk)
  PROVE  TypeOK'
<1> DEFINE new  == loc[t].res
           tr   == loc[t].trace
           old  == TracesOf(table[new])
           c    == Release(content, old)
           item == [type |-> loc[t].type, status |-> "Allocated",
                    alloc |-> tr, dealloc |-> Null]
<1>1. loc[t] \in Locals /\ CallType /\ StoreType
  BY TypeSplits DEF CallType
<1>2. /\ new \in Addrs \union {Null} /\ tr \in Traces \union {Null}
      /\ loc[t].type \in MemoryType \union {Null}
  BY <1>1 DEF Locals
<1>3. item \in SMemoryItem
  BY <1>2 DEF SMemoryItem, MemoryStatus
<1>4. c \in ContentType
  BY <1>1, ReleaseType DEF StoreType
<1>5. Entered(table, new, item) \in TableType
  BY <1>2, <1>3 DEF Entered, TableType
<1>6. CASE Stop("traceFreedTwice") \/ Stop("segv")
  BY <1>6, StopType DEF Outcomes
<1>7. CASE /\ tr # Null
           /\ content' = c /\ memoryItems' = Entered(table, new, item)
           /\ Unlock
           /\ UNCHANGED <<libc, handlerMemory, config, proc>>
           /\ \E e \in FindStackEntry(stk, c, tr) :
               \/ /\ e = NotFound
                  /\ \E s \in HashedAs(c, tr) :
                       stackItems' = [stk EXCEPT ![<<tr, s>>] = 1]
                  /\ Return(t, new, loc[t].type)
               \/ /\ e # NotFound /\ maxSame = 0
                  /\ stackItems' = stk
                  /\ Return(t, new, loc[t].type)
               \/ /\ e # NotFound /\ maxSame > 0
                  /\ stackItems' = [stk EXCEPT ![e] = @ + 1]
                  /\ IF TooMany(stk[e] + 1)
                     THEN Report(t, item, new, new, "PossibilityOfMemoryLeak")
                     ELSE Return(t, new, loc[t].type)
  <2> PICK e \in FindStackEntry(stk, c, tr) :
        \/ /\ e = NotFound
           /\ \E s \in HashedAs(c, tr) :
                stackItems' = [stk EXCEPT ![<<tr, s>>] = 1]
           /\ Return(t, new, loc[t].type)
        \/ /\ e # NotFound /\ maxSame = 0
           /\ stackItems' = stk
           /\ Return(t, new, loc[t].type)
        \/ /\ e # NotFound /\ maxSame > 0
           /\ stackItems' = [stk EXCEPT ![e] = @ + 1]
           /\ IF TooMany(stk[e] + 1)
              THEN Report(t, item, new, new, "PossibilityOfMemoryLeak")
              ELSE Return(t, new, loc[t].type)
    BY <1>7
  <2>1. stackItems' \in CountType
    <3>1. CASE e = NotFound
      <4>1. PICK s \in HashedAs(c, tr) : stackItems' = [stk EXCEPT ![<<tr, s>>] = 1]
        BY <3>1
      <4>2. s \in Stacks
        BY <1>2, <1>4, <1>7 DEF HashedAs, ContentType
      <4> QED
        BY <1>2, <1>7, <4>1, <4>2 DEF CountType
    <3>2. CASE e # NotFound
      <4>1. e \in Traces \X Stacks /\ stk[e] + 1 \in Nat
        BY <3>2, FindStackEntryFinds DEF CountType
      <4> QED
        BY <3>2, <4>1 DEF CountType
    <3> QED
      BY <3>1, <3>2
  <2>2. CallType'
    <3>1. CASE Return(t, new, loc[t].type)
      BY <1>1, <1>2, <3>1, ReturnType
    <3>2. CASE Report(t, item, new, new, "PossibilityOfMemoryLeak")
      <4>1. "PossibilityOfMemoryLeak" \in FailureType
        BY DEF FailureType
      <4> QED
        BY <1>1, <1>2, <1>3, <3>2, <4>1, ReportType
    <3> QED
      BY <3>1, <3>2
  <2>3. StoreType'
    BY <1>1, <1>4, <1>5, <1>7, <2>1 DEF StoreType, Unlock, libc, config
  <2> QED
    BY <2>2, <2>3, TypeSplits
<1> QED
  BY <1>6, <1>7 DEF AddNewNoLock

-----------------------------------------------------------------------------
(* Type correctness: one lemma per action. *)

LEMMA CallWithType ==
  ASSUME TypeOK, NEW t \in Threads, NEW a \in Addrs, NEW ty \in MemoryType,
         NEW l \in Pcs, CallWith(t, a, ty, l)
  PROVE  TypeOK'
<1> DEFINE v(tr) == [NoLoc EXCEPT !.ptr = a, !.type = ty, !.trace = tr]
<1>1. StoreType /\ CallType
  BY TypeSplits
<1>2. PICK tr \in FreshTraces, s \in Stacks :
        /\ content' = Fill(tr, s)
        /\ pc' = [pc EXCEPT ![t] = l] /\ loc' = [loc EXCEPT ![t] = v(tr)]
        /\ held' = [held EXCEPT ![a] = Null] \/ held' = held
        /\ misused' \in {misused, TRUE}
        /\ strayed' \in {strayed, strayed \/ Unknown(memoryItems[a])}
        /\ UNCHANGED <<libc, tables, mutexForMap, handlerMemory, config, proc,
                       given, shownDead>>
  BY DEF CallWith
<1>3. tr \in Traces \union {Null}
  BY DEF FreshTraces
<1>4. v(tr) \in Locals
  BY <1>3 DEF NoLoc, Locals, NoItem, SMemoryItem, MemoryStatus
<1>5. content' \in ContentType
  BY <1>1, <1>2, FillType DEF StoreType
<1> HIDE DEF v
<1>6. CallType'
  BY <1>1, <1>2, <1>4 DEF CallType
<1>7. StoreType'
  BY <1>1, <1>2, <1>5 DEF StoreType, libc, tables, config
<1> QED
  BY <1>6, <1>7, TypeSplits

LEMMA CallAllocType ==
  ASSUME TypeOK, NEW t \in Threads, CallAlloc(t)
  PROVE  TypeOK'
<1> DEFINE v(a, ty, tr) == [NoLoc EXCEPT !.res = a, !.type = ty, !.trace = tr]
<1>1. StoreType /\ CallType
  BY TypeSplits
<1>2. PICK a \in FreshAddrs, tr \in FreshTraces, ty \in Types, s \in Stacks :
        /\ heap' = heap \union {a} /\ used' = used \union {a}
        /\ content' = Fill(tr, s)
        /\ Goto(t, "register", v(a, ty, tr))
  BY DEF CallAlloc
<1>3. /\ a \in Addrs /\ tr \in Traces \union {Null} /\ ty \in MemoryType
      /\ "register" \in Pcs
  BY ConstantsAssumption DEF FreshTraces, FreshAddrs, Pcs
<1>4. v(a, ty, tr) \in Locals
  BY <1>3 DEF NoLoc, Locals, NoItem, SMemoryItem, MemoryStatus
<1>5. content' \in ContentType
  BY <1>1, <1>2, FillType DEF StoreType
<1> HIDE DEF v
<1>6. CallType'
  BY <1>1, <1>2, <1>3, <1>4, GotoType
<1>7. StoreType'
  BY <1>1, <1>2, <1>3, <1>5 DEF StoreType, CallAlloc, tables, config
<1> QED
  BY <1>6, <1>7, TypeSplits

\* Parking a trace for the signal handler.
LEMMA ParkType ==
  ASSUME TypeOK, NEW t \in Threads, Park(t)
  PROVE  /\ content' \in ContentType
         /\ handlerMemory' \in [Threads -> Traces \union {Null}]
<1>1. loc[t].trace \in Traces \union {Null} /\ content \in ContentType
  BY DEF TypeOK, Locals, ContentType
<1> QED
  BY <1>1, ReleaseType DEF Park, TypeOK

\* Forgetting the parameters of a call but its pointer.
LEMMA OnlyPtrType ==
  ASSUME NEW a \in Addrs \union {Null}
  PROVE  [NoLoc EXCEPT !.ptr = a] \in Locals
BY DEF NoLoc, Locals, NoItem, SMemoryItem, MemoryStatus

LEMMA DeleteLockedType ==
  ASSUME TypeOK, NEW t \in Threads, DeleteLocked(t)
  PROVE  TypeOK'
<1> DEFINE a    == loc[t].ptr
           item == memoryItems[a]
<1>1. StoreType /\ CallType
  BY TypeSplits
<1>2. /\ a \in Addrs \union {Null} /\ loc[t].trace \in Traces \union {Null}
      /\ [NoLoc EXCEPT !.ptr = a] \in Locals /\ "free" \in Pcs
  BY <1>1, OnlyPtrType DEF CallType, Locals, Pcs
<1>3. item \in SMemoryItem
  BY <1>1, <1>2 DEF StoreType, TableType
<1>4. CASE /\ Return(t, Null, Null)
           /\ UNCHANGED <<libc, content, tables, mutexForMap, handlerMemory,
                          config, proc>>
  BY <1>1, <1>4, ReturnType, TypeSplits
     DEF StoreType, libc, tables, config
<1>5. CASE /\ Park(t)
           /\ Goto(t, "free", [NoLoc EXCEPT !.ptr = a])
           /\ UNCHANGED <<libc, tables, mutexForMap, config, proc>>
  <2>1. CallType'
    BY <1>1, <1>2, <1>5, GotoType
  <2>2. StoreType'
    BY <1>1, <1>5, ParkType DEF StoreType, libc, tables, config
  <2> QED
    BY <2>1, <2>2, TypeSplits
<1>6. CASE /\ Report(t, item, a, Null, "DoubleFree")
           /\ UNCHANGED <<libc, content, tables, mutexForMap, handlerMemory,
                          config, proc>>
  <2>1. CallType'
    BY <1>1, <1>2, <1>3, <1>6, ReportType DEF FailureType
  <2>2. StoreType'
    BY <1>1, <1>6 DEF StoreType, libc, tables, config
  <2> QED
    BY <2>1, <2>2, TypeSplits
<1>7. CASE Stop("assertFailed")
  BY <1>7, StopType DEF Outcomes
<1>8. ASSUME NEW e \in FindStackEntry(stackItems, content, item.alloc),
             e # NotFound, stackItems' = Dropped(e),
             UNCHANGED <<libc, content, mutexForMap, handlerMemory, config, proc>>,
             \/ /\ Report(t, item, a, Null, "FreeMissmatch")
                /\ UNCHANGED memoryItems
             \/ /\ memoryItems' = Struck(a, loc[t].trace)
                /\ Goto(t, "free", [NoLoc EXCEPT !.ptr = a])
      PROVE  TypeOK'
  <2>1. stackItems' \in CountType
    BY <1>8, DroppedType
  <2>2. memoryItems' \in TableType
    BY <1>1, <1>2, <1>8, StruckType DEF StoreType
  <2>3. CallType'
    <3>1. CASE Report(t, item, a, Null, "FreeMissmatch")
      BY <1>1, <1>2, <1>3, <3>1, ReportType DEF FailureType
    <3>2. CASE Goto(t, "free", [NoLoc EXCEPT !.ptr = a])
      BY <1>1, <1>2, <3>2, GotoType
    <3> QED
      BY <1>8, <3>1, <3>2
  <2>4. StoreType'
    BY <1>1, <1>8, <2>1, <2>2 DEF StoreType, libc, config
  <2> QED
    BY <2>3, <2>4, TypeSplits
<1> QED
  BY <1>4, <1>5, <1>6, <1>7, <1>8 DEF DeleteLocked

LEMMA ReAllocLockedType ==
  ASSUME TypeOK, NEW t \in Threads, ReAllocLocked(t)
  PROVE  TypeOK'
<1> DEFINE a    == loc[t].ptr
           item == memoryItems[a]
<1>1. StoreType /\ CallType
  BY TypeSplits
<1>2. /\ loc[t] \in Locals
      /\ a \in Addrs \union {Null} /\ loc[t].trace \in Traces \union {Null}
      /\ [NoLoc EXCEPT !.ptr = a] \in Locals
      /\ "earlyRealloc" \in Pcs /\ "moved" \in Pcs
      /\ "Malloc" \in MemoryType
  BY <1>1, OnlyPtrType DEF CallType, Locals, Pcs, MemoryType
<1>3. item \in SMemoryItem
  BY <1>1, <1>2 DEF StoreType, TableType
<1>4. ASSUME NEW r \in Addrs \union {Null}, Return(t, r, "Malloc"),
             UNCHANGED <<libc, content, tables, mutexForMap, handlerMemory,
                         config, proc>>
      PROVE  TypeOK'
  BY <1>1, <1>2, <1>4, ReturnType, TypeSplits
     DEF StoreType, libc, tables, config
<1>5. CASE /\ Park(t)
           /\ Goto(t, "earlyRealloc", [NoLoc EXCEPT !.ptr = a])
           /\ UNCHANGED <<libc, tables, mutexForMap, config, proc>>
  <2>1. CallType'
    BY <1>1, <1>2, <1>5, GotoType
  <2>2. StoreType'
    BY <1>1, <1>5, ParkType DEF StoreType, libc, tables, config
  <2> QED
    BY <2>1, <2>2, TypeSplits
<1>6. ASSUME NEW f \in FailureType, Report(t, item, a, Null, f),
             UNCHANGED <<libc, content, tables, mutexForMap, handlerMemory,
                         config, proc>>
      PROVE  TypeOK'
  <2>1. CallType'
    BY <1>1, <1>2, <1>3, <1>6, ReportType
  <2>2. StoreType'
    BY <1>1, <1>6 DEF StoreType, libc, tables, config
  <2> QED
    BY <2>1, <2>2, TypeSplits
<1>7. CASE Stop("blockFreedTwice")
  BY <1>7, StopType DEF Outcomes
<1>8. CASE /\ content' = Release(content, UnusedTraces(t))
           /\ Return(t, a, "Malloc")
           /\ UNCHANGED <<libc, tables, mutexForMap, handlerMemory, config, proc>>
  BY <1>1, <1>2, <1>8, ReturnType, ReleaseType, TypeSplits
     DEF StoreType, libc, tables, config
<1>9. ASSUME NEW r \in FreshAddrs,
             heap' = (heap \ {a}) \union {r}, used' = used \union {r},
             Goto(t, "moved", [loc[t] EXCEPT !.res = r]), mutexForMap' = t,
             UNCHANGED <<content, tables, handlerMemory, config, proc>>
      PROVE  TypeOK'
  <2>1. r \in Addrs
    BY DEF FreshAddrs
  <2>2. [loc[t] EXCEPT !.res = r] \in Locals
    BY <1>2, <2>1 DEF Locals
  <2>3. CallType'
    BY <1>1, <1>2, <1>9, <2>2, GotoType
  <2>4. StoreType'
    BY <1>1, <1>9, <2>1 DEF StoreType, tables, config
  <2> QED
    BY <2>3, <2>4, TypeSplits
<1>10. CASE /\ pc' = [pc EXCEPT ![t] = "moved"] /\ loc' = loc
            /\ held' = [held EXCEPT ![a] = "Malloc"]
            /\ mutexForMap' = t
            /\ UNCHANGED <<libc, content, tables, handlerMemory, config, proc,
                           given, misused, strayed, shownDead>>
  <2>1. CallType'
    BY <1>1, <1>2, <1>10 DEF CallType
  <2>2. StoreType'
    BY <1>1, <1>10 DEF StoreType, libc, tables, config
  <2> QED
    BY <2>1, <2>2, TypeSplits
<1> QED
  BY <1>2, <1>4, <1>5, <1>6, <1>7, <1>8, <1>9, <1>10, ConstantsAssumption
     DEF ReAllocLocked, FailureType

LEMMA RegisterType ==
  ASSUME TypeOK, NEW t \in Threads, Register(t)
  PROVE  TypeOK'
BY AddNewType, TypeSplits DEF Register, StoreType

LEMMA ReAllocMovedType ==
  ASSUME TypeOK, NEW t \in Threads, ReAllocMoved(t)
  PROVE  TypeOK'
<1>1. loc[t].ptr \in Addrs \union {Null}
  BY DEF TypeOK, Locals
<1>2. CASE Stop("assertFailed")
  BY <1>2, StopType DEF Outcomes
<1>3. ASSUME NEW e \in FindStackEntry(stackItems, content,
                                      memoryItems[loc[t].ptr].alloc),
             e # NotFound,
             AddNewNoLock(t, Struck(loc[t].ptr, Null), Dropped(e))
      PROVE  TypeOK'
  <2>1. Struck(loc[t].ptr, Null) \in TableType
    BY <1>1, StruckType
  <2>2. Dropped(e) \in CountType
    BY <1>3, DroppedType
  <2> QED
    BY <1>3, <2>1, <2>2, AddNewType
<1> QED
  BY <1>2, <1>3 DEF ReAllocMoved

LEMMA FreeType ==
  ASSUME TypeOK, NEW t \in Threads, Free(t)
  PROVE  TypeOK'
<1>1. StoreType /\ CallType
  BY TypeSplits
<1>2. CASE Stop("blockFreedTwice")
  BY <1>2, StopType DEF Outcomes
<1>3. CASE /\ heap' = heap \ {loc[t].ptr} /\ Return(t, Null, Null)
           /\ UNCHANGED <<used, content, tables, mutexForMap, handlerMemory,
                          config, proc>>
  BY <1>1, <1>3, ReturnType, TypeSplits DEF StoreType, tables, config
<1> QED
  BY <1>2, <1>3 DEF Free

\* libc's realloc past the tables keeps libc and the call well-formed.
LEMMA LibcReAllocType ==
  ASSUME TypeOK, NEW t \in Threads, NEW a \in Addrs \union {Null},
         a \in heap, LibcReAlloc(t, a)
  PROVE  heap' \subseteq Addrs /\ used' \subseteq Addrs /\ CallType'
<1>1. StoreType /\ CallType /\ "Malloc" \in MemoryType \union {Null}
  BY TypeSplits DEF MemoryType
<1>2. a \in Addrs
  BY <1>1 DEF StoreType
<1>3. CASE \E r \in FreshAddrs \union {a} :
             /\ heap' = (heap \ {a}) \union {r} /\ used' = used \union {r}
             /\ Return(t, r, "Malloc")
  BY <1>1, <1>2, <1>3, ReturnType DEF StoreType, FreshAddrs
<1>4. CASE UNCHANGED libc /\ Return(t, a, "Malloc")
  BY <1>1, <1>4, ReturnType DEF StoreType, libc
<1> QED
  BY <1>3, <1>4 DEF LibcReAlloc

LEMMA EarlyReAllocType ==
  ASSUME TypeOK, NEW t \in Threads, EarlyReAlloc(t)
  PROVE  TypeOK'
<1>1. StoreType /\ CallType /\ loc[t].ptr \in Addrs \union {Null}
  BY TypeSplits DEF CallType, Locals
<1>2. CASE Stop("blockFreedTwice")
  BY <1>2, StopType DEF Outcomes
<1>3. CASE /\ loc[t].ptr \in heap /\ LibcReAlloc(t, loc[t].ptr)
           /\ UNCHANGED <<content, tables, mutexForMap, handlerMemory, config,
                          proc>>
  BY <1>1, <1>3, LibcReAllocType, TypeSplits DEF StoreType, tables, config
<1> QED
  BY <1>2, <1>3 DEF EarlyReAlloc

LEMMA CallClbkType ==
  ASSUME TypeOK, NEW t \in Threads, CallClbk(t)
  PROVE  TypeOK'
<1>1. StoreType /\ CallType
  BY TypeSplits
<1>2. CallType'
  BY <1>1 DEF CallClbk, CallType, Pcs
<1>3. StoreType'
  BY <1>1 DEF CallClbk, StoreType, Outcomes, libc, tables, config
<1> QED
  BY <1>2, <1>3, TypeSplits

LEMMA EndClbkType ==
  ASSUME TypeOK, NEW t \in Threads, EndClbk(t)
  PROVE  TypeOK'
<1> DEFINE a == loc[t].ptr
           Clean == /\ content' = Release(content, {loc[t].trace})
                    /\ UNCHANGED <<tables, mutexForMap, handlerMemory, config,
                                   proc>>
<1>1. StoreType /\ CallType /\ loc[t] \in Locals
  BY TypeSplits DEF CallType
<1>2. /\ a \in Addrs \union {Null} /\ loc[t].res \in Addrs \union {Null}
      /\ loc[t].type \in MemoryType \union {Null}
  BY <1>1 DEF Locals
<1>3. CASE Stop("exited") \/ Stop("traceFreedTwice") \/ Stop("blockFreedTwice")
  BY <1>3, StopType DEF Outcomes
<1>4. ASSUME Clean, heap' \subseteq Addrs, used' \subseteq Addrs, CallType'
      PROVE  TypeOK'
  BY <1>1, <1>4, ReleaseType, TypeSplits DEF StoreType, tables, config
<1>5. CASE Answer(t) /\ Clean /\ UNCHANGED libc
  BY <1>1, <1>2, <1>4, <1>5, ReturnType DEF Answer, StoreType, libc
<1>6. CASE heap' = heap \ {a} /\ used' = used /\ Answer(t) /\ Clean
  BY <1>1, <1>2, <1>4, <1>6, ReturnType DEF Answer, StoreType
<1>7. CASE a \in heap /\ LibcReAlloc(t, a) /\ Clean
  BY <1>2, <1>4, <1>7, LibcReAllocType
<1> QED
  BY <1>3, <1>5, <1>6, <1>7 DEF EndClbk

LEMMA NestedCallType ==
  ASSUME TypeOK, NEW t \in Threads, NestedCall(t)
  PROVE  TypeOK'
<1>1. StoreType /\ CallType
  BY TypeSplits
<1>2. /\ heap' \subseteq Addrs /\ used' \subseteq Addrs
      /\ held' \in [Addrs -> MemoryType \union {Null}]
      /\ proc' \in Outcomes
  <2>1. CASE \E a \in FreshAddrs, ty \in Types :
               /\ heap' = heap \union {a} /\ used' = used \union {a}
               /\ held' = [held EXCEPT ![a] = ty]
               /\ proc' = proc
    BY <1>1, <2>1, ConstantsAssumption DEF StoreType, CallType, FreshAddrs
  <2>2. CASE \E a \in Addrs :
               /\ held' = [held EXCEPT ![a] = Null]
               /\ heap' = heap \ {a} /\ used' = used
               /\ proc' = IF a \in heap THEN proc ELSE "blockFreedTwice"
    BY <1>1, <2>2 DEF StoreType, CallType, Outcomes
  <2> QED
    BY <2>1, <2>2 DEF NestedCall
<1>3. CallType' /\ StoreType'
  BY <1>1, <1>2 DEF NestedCall, CallType, StoreType, tables, config
<1> QED
  BY <1>3, TypeSplits

LEMMA SettingsType ==
  ASSUME TypeOK, SetMaxAllowedAllocInTheSameStack \/ ReplaceFailureClbk
  PROVE  TypeOK'
<1>1. maxSame' \in Nat /\ clbkFnc' \in {"default", "user"}
  BY ConstantsAssumption
     DEF TypeOK, SetMaxAllowedAllocInTheSameStack, ReplaceFailureClbk
<1>2. UNCHANGED <<libc, content, tables, mutexForMap, handlerMemory, pc, loc,
                  proc, ghosts>>
  BY DEF SetMaxAllowedAllocInTheSameStack, ReplaceFailureClbk
<1> QED
  BY <1>1, <1>2 DEF TypeOK, libc, tables, ghosts, SMemoryItem, Locals

LEMMA DestroyType ==
  ASSUME TypeOK, Destroy
  PROVE  TypeOK'
<1>1. CASE Stop("traceFreedTwice")
  BY <1>1, StopType DEF Outcomes
<1>2. CASE /\ content' = Release(content, {Held(p) : p \in ItemPlaces})
           /\ proc' = "finished"
           /\ UNCHANGED <<libc, tables, mutexForMap, handlerMemory, config, pc,
                          loc, ghosts>>
  <2>1. StoreType /\ CallType
    BY TypeSplits
  <2>2. content' \in ContentType
    BY <1>2, <2>1, ReleaseType DEF StoreType
  <2>3. StoreType'
    BY <1>2, <2>1, <2>2 DEF StoreType, Outcomes, libc, tables, config
  <2>4. CallType'
    BY <1>2, <2>1 DEF CallType, ghosts
  <2> QED
    BY <2>3, <2>4, TypeSplits
<1> QED
  BY <1>1, <1>2 DEF Destroy

LEMMA InitType == ASSUME Init PROVE TypeOK
<1>1. NoItem \in SMemoryItem /\ NoLoc \in Locals
  BY DEF NoItem, NoLoc, SMemoryItem, Locals, MemoryStatus
<1>2. StoreType
  BY <1>1, ConstantsAssumption
     DEF Init, StoreType, ContentType, TableType, CountType, Outcomes
<1>3. CallType
  BY <1>1, ConstantsAssumption DEF Init, CallType, Pcs, MemoryType
<1> QED
  BY <1>2, <1>3 DEF TypeOK, StoreType, CallType, ContentType, TableType, CountType

LEMMA NextType == ASSUME TypeOK, [Next]_vars PROVE TypeOK'
<1>1. ASSUME NEW t \in Threads, CallDelete(t) \/ CallReAlloc(t)
      PROVE  TypeOK'
  BY <1>1, CallWithType, ConstantsAssumption
     DEF CallDelete, CallReAlloc, Pcs, MemoryType
<1>2. ASSUME NEW t \in Threads, LibraryStep(t)
      PROVE  TypeOK'
  BY <1>2, RegisterType, DeleteLockedType, FreeType, ReAllocLockedType,
     ReAllocMovedType, EarlyReAllocType, CallClbkType DEF LibraryStep
<1>3. ASSUME NEW t \in Threads, ProgramStep(t)
      PROVE  TypeOK'
  BY <1>1, <1>3, CallAllocType, EndClbkType, NestedCallType DEF ProgramStep
<1>4. CASE UNCHANGED vars
  BY <1>4 DEF vars, TypeOK, SMemoryItem, Locals
<1> QED
  BY <1>2, <1>3, <1>4, SettingsType, DestroyType DEF Next

\* Every reachable state of the analyzer is well-typed; in particular no count
\* of m_stackItems (a size_t) is ever dropped below 0.
THEOREM TypeCorrect == Spec => []TypeOK
<1>1. Init => TypeOK
  BY InitType
<1>2. TypeOK /\ [Next]_vars => TypeOK'
  BY NextType
<1> QED
  BY <1>1, <1>2, PTL DEF Spec

-----------------------------------------------------------------------------
(* The mutex. *)

\* A step of a thread that has no lock and takes none.
LEMMA StaysOutside ==
  ASSUME TypeOK, LockDiscipline, NEW t \in Threads, pc[t] # "moved",
         NEW l, l # "moved", pc' = [pc EXCEPT ![t] = l],
         mutexForMap' = mutexForMap
  PROVE  LockDiscipline'
BY DEF TypeOK, LockDiscipline

\* The registration gives the lock back, and a report is made without it.
LEMMA AddNewLock ==
  ASSUME TypeOK, LockDiscipline, NEW t \in Threads, mutexForMap \in {Null, t},
         NEW table, NEW stk, AddNewNoLock(t, table, stk)
  PROVE  LockDiscipline'
<1>1. CASE Stop("traceFreedTwice") \/ Stop("segv")
  BY <1>1 DEF Stop, LockDiscipline
<1>2. CASE /\ mutexForMap' = Null
           /\ \/ pc' = [pc EXCEPT ![t] = "client"]
              \/ pc' = [pc EXCEPT ![t] = "report"]
  BY <1>2, ConstantsAssumption DEF TypeOK, LockDiscipline
<1> QED
  BY <1>1, <1>2 DEF AddNewNoLock, Unlock, Return, Report, Goto

LEMMA LibraryStepLock ==
  ASSUME TypeOK, LockDiscipline, NEW t \in Threads, LibraryStep(t)
  PROVE  LockDiscipline'
<1>1. ASSUME NEW how, Stop(how) PROVE LockDiscipline'
  BY <1>1 DEF Stop, LockDiscipline
<1>2. CASE Register(t)
  BY <1>2, AddNewLock DEF Register, LockFree
<1>3. CASE DeleteLocked(t)
  BY <1>1, <1>3, StaysOutside DEF DeleteLocked, At, Return, Goto, Report
<1>4. CASE Free(t)
  BY <1>1, <1>4, StaysOutside DEF Free, At, Return
<1>5. CASE ReAllocLocked(t)
  <2>1. CASE mutexForMap' = t /\ pc' = [pc EXCEPT ![t] = "moved"]
    BY <1>5, <2>1, ConstantsAssumption
       DEF ReAllocLocked, LockFree, TypeOK, LockDiscipline
  <2> QED
    BY <1>1, <1>5, <2>1, StaysOutside
       DEF ReAllocLocked, At, Return, Goto, Report
<1>6. CASE ReAllocMoved(t)
  BY <1>1, <1>6, AddNewLock DEF ReAllocMoved
<1>7. CASE EarlyReAlloc(t)
  BY <1>1, <1>7, StaysOutside DEF EarlyReAlloc, At, LibcReAlloc, Return
<1>8. CASE CallClbk(t)
  BY <1>8, StaysOutside DEF CallClbk, At, LockDiscipline
<1> QED
  BY <1>2, <1>3, <1>4, <1>5, <1>6, <1>7, <1>8 DEF LibraryStep

LEMMA ProgramStepLock ==
  ASSUME TypeOK, LockDiscipline, NEW t \in Threads, ProgramStep(t)
  PROVE  LockDiscipline'
<1>1. CASE CallAlloc(t)
  BY <1>1, StaysOutside DEF CallAlloc, At, Goto
<1>2. CASE CallDelete(t) \/ CallReAlloc(t)
  BY <1>2, StaysOutside DEF CallDelete, CallReAlloc, At, CallWith
<1>3. CASE EndClbk(t)
  <2>1. CASE \E how : Stop(how)
    BY <2>1 DEF Stop, LockDiscipline
  <2>2. CASE mutexForMap' = mutexForMap /\ pc' = [pc EXCEPT ![t] = "client"]
    BY <1>3, <2>2, StaysOutside DEF EndClbk, At
  <2> QED
    BY <1>3, <2>1, <2>2 DEF EndClbk, Answer, LibcReAlloc, Return
<1>4. CASE NestedCall(t)
  BY <1>4 DEF NestedCall, LockDiscipline
<1> QED
  BY <1>1, <1>2, <1>3, <1>4 DEF ProgramStep

LEMMA InitLock == ASSUME Init PROVE LockDiscipline
BY ConstantsAssumption DEF Init, LockDiscipline

LEMMA NextLock ==
  ASSUME TypeOK, LockDiscipline, [Next]_vars
  PROVE  LockDiscipline'
<1>1. CASE UNCHANGED vars \/ SetMaxAllowedAllocInTheSameStack \/ ReplaceFailureClbk
  BY <1>1 DEF vars, SetMaxAllowedAllocInTheSameStack, ReplaceFailureClbk,
              LockDiscipline
<1>2. CASE Destroy
  BY <1>2 DEF Destroy, Stop, LockDiscipline
<1> QED
  BY <1>1, <1>2, LibraryStepLock, ProgramStepLock DEF Next

\* The mutex is held by exactly the thread between the libc call of a realloc
\* and the registration of its answer; in particular no failure is reported and
\* no callback runs under it, so a callback may allocate.
THEOREM MutexOnlyForRealloc == Spec => []LockDiscipline
<1>1. Init => TypeOK /\ LockDiscipline
  BY InitType, InitLock
<1>2. TypeOK /\ LockDiscipline /\ [Next]_vars => TypeOK' /\ LockDiscipline'
  BY NextType, NextLock
<1> QED
  BY <1>1, <1>2, PTL DEF Spec

-----------------------------------------------------------------------------
(* Libc never gets a block twice.                                            *)
(*                                                                           *)
(* BlocksAgree alone is not inductive: it says nothing of a block before the  *)
(* lock is taken, and nothing of the blocks older than the tables, which no  *)
(* entry protects.  Those have to be followed from the client, which holds   *)
(* them once, through the call that claims them.                             *)

\* The callback declines to act on a pointer the analyzer has found fault with, and
\* does not itself allocate.
Declines == "MakeAction" \notin Verdicts \union LeakVerdicts /\ ~Nested

\* The thread t was given the pointer a and has not looked it up yet, or found
\* that the tables never saw it.
Claims(t, a) == pc[t] \in {"delete", "realloc", "earlyRealloc"} /\ loc[t].ptr = a

\* What the locals of a call mean at each of its labels.
CallInv(t) ==
  /\ pc[t] \in {"delete", "realloc", "earlyRealloc", "moved", "free"} =>
       loc[t].ptr \in Addrs
  /\ pc[t] = "register" => loc[t].res \in Addrs
  /\ pc[t] = "realloc" => loc[t].res = Null
  /\ pc[t] = "moved" => ~Unknown(memoryItems[loc[t].ptr])
  /\ pc[t] = "earlyRealloc" =>
       loc[t].ptr \notin Pool /\ Unknown(memoryItems[loc[t].ptr])
  /\ pc[t] \in {"report", "callback"} /\ loc[t].res # Null =>
       ~Unknown(memoryItems[loc[t].res])

\* A block the tables never saw is allocated as long as the client holds it or a
\* call claims it, and only one of them does.  If no block is older than the
\* tables, nobody has such a block.
Sole(a) ==
  /\ Early = {} => held[a] = Null /\ \A t \in Threads : ~Claims(t, a)
  /\ held[a] # Null =>
       a \in heap /\ \A t \in Threads : ~Claims(t, a) /\ ~Owes(t, a)
  /\ \A t \in Threads :
       Claims(t, a) => /\ a \in heap
                       /\ \A u \in Threads : ~Owes(u, a) /\ (Claims(u, a) => u = t)

\* Libc was not asked to free a block twice.
FreedOnce == proc # "blockFreedTwice"

HeapInv ==
  /\ BlocksAgree
  /\ FreedOnce
  /\ heap \subseteq used
  /\ \A t \in Threads : CallInv(t)
  /\ \A a \in Addrs \ Pool : Unknown(memoryItems[a]) => Sole(a)

\* One thread goes to the label l with the locals v; the others stay.
Moves(t, l, v) == pc' = [pc EXCEPT ![t] = l] /\ loc' = [loc EXCEPT ![t] = v]

LEMMA OthersStay ==
  ASSUME TypeOK, NEW t \in Threads, NEW l, NEW v, Moves(t, l, v)
  PROVE  /\ pc'[t] = l /\ loc'[t] = v
         /\ \A u \in Threads : u # t => pc'[u] = pc[u] /\ loc'[u] = loc[u]
BY DEF Moves, TypeOK

\* A step that ends the process otherwise keeps the invariant.
LEMMA StopHeap ==
  ASSUME HeapInv, NEW how, how # "blockFreedTwice", Stop(how)
  PROVE  HeapInv'
BY DEF Stop, HeapInv, BlocksAgree, FreedOnce, CallInv, Sole, Live, Owes,
       Claims, Unknown, libc, tables, ghosts

\* A step that leaves libc and the table alone and ends the call, or hands it to
\* a report.
LEMMA QuietHeap ==
  ASSUME TypeOK, HeapInv, NEW t \in Threads, pc[t] # "moved",
         NEW l \in {"client", "report", "callback"}, NEW v, Moves(t, l, v),
         l # "client" /\ v.res # Null => ~Unknown(memoryItems[v.res]),
         UNCHANGED <<heap, used, memoryItems>>, proc' # "blockFreedTwice",
         \A a \in Addrs \ Pool : Unknown(memoryItems[a]) => held'[a] = held[a]
  PROVE  HeapInv'
<1>1. /\ pc'[t] = l /\ loc'[t] = v
      /\ \A u \in Threads : u # t => pc'[u] = pc[u] /\ loc'[u] = loc[u]
  BY OthersStay
<1>2. \A u \in Threads, a \in Addrs : /\ Owes(u, a)' => Owes(u, a)
                                      /\ Claims(u, a)' => Claims(u, a)
  BY <1>1 DEF Owes, Claims
<1>3. \A a \in Addrs : Live(a)' <=> Live(a)
  BY <1>1 DEF Live
<1>4. BlocksAgree'
  BY <1>2, <1>3 DEF HeapInv, BlocksAgree
<1>5. \A u \in Threads : CallInv(u)'
  BY <1>1 DEF HeapInv, CallInv, Unknown
<1>6. \A a \in Addrs \ Pool : Unknown(memoryItems'[a]) => Sole(a)'
  BY <1>2 DEF HeapInv, Sole
<1> QED
  BY <1>4, <1>5, <1>6 DEF HeapInv, FreedOnce, Unknown

\* A step that obtains a block from libc, and the thread owes it.
LEMMA ObtainHeap ==
  ASSUME TypeOK, HeapInv, NEW t \in Threads, pc[t] \in {"client", "realloc"},
         NEW r \in FreshAddrs, NEW l, NEW v, Moves(t, l, v), v.res = r,
         \/ l = "register" /\ heap' = heap \union {r}
         \/ /\ l = "moved" /\ v.ptr \in Addrs /\ ~Unknown(memoryItems[v.ptr])
            /\ heap' = (heap \ {v.ptr}) \union {r}
            /\ Live(v.ptr),
         used' = used \union {r}, UNCHANGED <<memoryItems, held, proc>>
  PROVE  HeapInv'
<1>1. /\ pc'[t] = l /\ loc'[t] = v
      /\ \A u \in Threads : u # t => pc'[u] = pc[u] /\ loc'[u] = loc[u]
  BY OthersStay
<1>2. r \in Addrs /\ r \notin heap /\ r # Null
  BY ConstantsAssumption DEF FreshAddrs, HeapInv
<1>3. \A u \in Threads, a \in Addrs :
        /\ Owes(u, a)' <=> (Owes(u, a) \/ (u = t /\ a = r))
        /\ Claims(u, a)' => Claims(u, a)
  BY <1>1 DEF Owes, Claims
<1>4. \A a \in Addrs : Live(a)' => Live(a) /\ (l = "moved" => a # v.ptr)
  BY <1>1, <1>2 DEF Live
<1>5. \A u \in Threads : ~Owes(u, r)
  BY <1>2 DEF HeapInv, BlocksAgree
<1>6. l = "moved" => \A u \in Threads : ~Owes(u, v.ptr)
  BY DEF HeapInv, BlocksAgree
<1>7. BlocksAgree'
  <2> SUFFICES ASSUME NEW a \in Addrs
               PROVE  /\ Live(a)' => a \in heap'
                      /\ \A u \in Threads :
                           Owes(u, a)' => /\ a \in heap' /\ ~Live(a)'
                                          /\ \A w \in Threads : Owes(w, a)' => w = u
    BY DEF BlocksAgree
  <2>1. Live(a)' => a \in heap'
    BY <1>4 DEF HeapInv, BlocksAgree
  <2>2. ASSUME NEW u \in Threads, Owes(u, a)'
        PROVE  /\ a \in heap' /\ ~Live(a)'
               /\ \A w \in Threads : Owes(w, a)' => w = u
    BY <1>2, <1>3, <1>4, <1>5, <1>6, <2>2 DEF HeapInv, BlocksAgree
  <2> QED
    BY <2>1, <2>2
<1>8. \A u \in Threads : CallInv(u)'
  BY <1>1, <1>2 DEF HeapInv, CallInv, Unknown
<1>9. ASSUME NEW a \in Addrs \ Pool, Unknown(memoryItems'[a])
      PROVE  Sole(a)'
  <2>1. Sole(a) /\ (l = "moved" => a # v.ptr)
    BY <1>9 DEF HeapInv
  <2> QED
    BY <1>2, <1>3, <2>1 DEF Sole
<1>10. heap' \subseteq used'
  BY <1>2 DEF HeapInv
<1> QED
  BY <1>7, <1>8, <1>9, <1>10 DEF HeapInv, FreedOnce, Unknown

\* Registration: the thread goes to l with v, enters its block, having retired the
\* old entry of a realloc, and owes it no longer.
Enters(t, l, v) ==
  /\ Moves(t, l, v)
  /\ l = "report" => v.res = loc[t].res
  /\ UNCHANGED <<heap, used, proc>>
  /\ \A a \in Addrs \union {Null} :
       memoryItems'[a].status =
         IF a = loc[t].res THEN "Allocated"
         ELSE IF pc[t] = "moved" /\ a = loc[t].ptr THEN "Deallocated"
         ELSE memoryItems[a].status
  /\ \A a \in Addrs : a # loc[t].res => held'[a] = held[a]

\* AddNewAllocatedMemoryAndCleanOldEntryNoLock does, unless the process ends.
LEMMA AddNewEnters ==
  ASSUME TypeOK, NEW t \in Threads, NEW table \in TableType, NEW stk,
         \/ pc[t] = "register" /\ table = memoryItems
         \/ pc[t] = "moved" /\ table = Struck(loc[t].ptr, Null),
         AddNewNoLock(t, table, stk)
  PROVE  \/ Stop("traceFreedTwice") \/ Stop("segv")
         \/ \E l \in {"client", "report"} : \E v : Enters(t, l, v)
<1> DEFINE new  == loc[t].res
           item == [type |-> loc[t].type, status |-> "Allocated",
                    alloc |-> loc[t].trace, dealloc |-> Null]
<1>1. CASE Stop("traceFreedTwice") \/ Stop("segv")
  BY <1>1
<1>2. CASE /\ memoryItems' = Entered(table, new, item)
           /\ UNCHANGED <<heap, used, proc>>
           /\ \/ Return(t, new, loc[t].type)
              \/ Report(t, item, new, new, "PossibilityOfMemoryLeak")
  <2>1. loc[t].ptr \in Addrs \union {Null} /\ memoryItems \in TableType
    BY DEF TypeOK, Locals, TableType
  <2>2. \A a \in Addrs \union {Null} :
          table[a].status =
            IF pc[t] = "moved" /\ a = loc[t].ptr THEN "Deallocated"
            ELSE memoryItems[a].status
    BY <2>1 DEF Struck, TableType, SMemoryItem
  <2>3. \A a \in Addrs \union {Null} :
          memoryItems'[a].status = IF a = new THEN "Allocated" ELSE table[a].status
    BY <1>2 DEF Entered, TableType
  <2>4. CASE Return(t, new, loc[t].type)
    <3>1. Moves(t, "client", NoLoc) /\ \A a \in Addrs : a # new => held'[a] = held[a]
      BY <2>4 DEF Return, Moves
    <3>2. Enters(t, "client", NoLoc)
      BY <1>2, <2>2, <2>3, <3>1 DEF Enters
    <3> QED
      BY <3>2
  <2>5. CASE Report(t, item, new, new, "PossibilityOfMemoryLeak")
    <3> DEFINE v == [ptr |-> new, res |-> new, type |-> loc[t].type,
                     trace |-> loc[t].trace, item |-> item,
                     failure |-> "PossibilityOfMemoryLeak"]
    <3>1. Moves(t, "report", v) /\ v.res = new /\ held' = held
      BY <2>5 DEF Report, Goto, Moves, ghosts
    <3> HIDE DEF v
    <3>2. Enters(t, "report", v)
      BY <1>2, <2>2, <2>3, <3>1 DEF Enters
    <3> QED
      BY <3>2
  <2> QED
    BY <1>2, <2>4, <2>5
<1> QED
  BY <1>1, <1>2 DEF AddNewNoLock, libc

LEMMA EnterHeap ==
  ASSUME TypeOK, HeapInv, NEW t \in Threads, pc[t] \in {"register", "moved"},
         NEW l \in {"client", "report"}, NEW v, Enters(t, l, v)
  PROVE  HeapInv'
<1> USE DEF Enters
<1> DEFINE new == loc[t].res
<1>1. /\ pc'[t] = l /\ loc'[t] = v
      /\ \A u \in Threads : u # t => pc'[u] = pc[u] /\ loc'[u] = loc[u]
  BY OthersStay
<1>2. /\ \A u \in Threads : loc[u].ptr \in Addrs \union {Null}
                            /\ loc[u].res \in Addrs \union {Null}
      /\ Null \notin Addrs
  BY ConstantsAssumption DEF TypeOK, Locals
<1>3. \A u \in Threads, a \in Addrs :
        /\ Owes(u, a)' => Owes(u, a) /\ a # new
        /\ Claims(u, a)' => Claims(u, a)
  BY <1>1 DEF Owes, Claims, HeapInv, BlocksAgree
<1>4. \A a \in Addrs : Live(a)' => Live(a) \/ a = new
  BY <1>1 DEF Live
<1>5. BlocksAgree'
  <2>1. new \in Addrs => new \in heap
    BY DEF HeapInv, BlocksAgree, Owes
  <2> QED
    BY <1>3, <1>4, <2>1 DEF HeapInv, BlocksAgree
<1>6. \A a \in Addrs \union {Null} :
        ~Unknown(memoryItems[a]) => ~Unknown(memoryItems'[a])
  BY DEF Unknown
<1>7. \A u \in Threads : CallInv(u)'
  <2> SUFFICES ASSUME NEW u \in Threads, u # t PROVE CallInv(u)'
    <3>1. CallInv(t)'
      BY <1>1, <1>2 DEF CallInv, Unknown
    <3> QED
      BY <3>1
  <2>1. ASSUME pc[u] = "earlyRealloc"
        PROVE  Unknown(memoryItems'[loc[u].ptr])
    <3>1. /\ loc[u].ptr \in Addrs \ Pool /\ Unknown(memoryItems[loc[u].ptr])
          /\ Claims(u, loc[u].ptr)
      BY <2>1 DEF HeapInv, CallInv, Claims
    <3>2. loc[u].ptr # new
      BY <3>1 DEF HeapInv, Sole, Owes
    <3>3. ~(pc[t] = "moved" /\ loc[u].ptr = loc[t].ptr)
      BY <3>1 DEF HeapInv, CallInv
    <3> QED
      BY <3>1, <3>2, <3>3 DEF Unknown
  <2> QED
    BY <1>1, <1>2, <1>6, <2>1 DEF HeapInv, CallInv
<1>8. ASSUME NEW a \in Addrs \ Pool, Unknown(memoryItems'[a])
      PROVE  Sole(a)'
  <2>1. a # new /\ Sole(a)
    BY <1>8 DEF HeapInv, Unknown
  <2> QED
    BY <1>3, <2>1 DEF Sole
<1> QED
  BY <1>5, <1>7, <1>8 DEF HeapInv, FreedOnce, Unknown

LEMMA AddNewHeap ==
  ASSUME TypeOK, HeapInv, NEW t \in Threads, NEW table \in TableType, NEW stk,
         \/ pc[t] = "register" /\ table = memoryItems
         \/ pc[t] = "moved" /\ table = Struck(loc[t].ptr, Null),
         AddNewNoLock(t, table, stk)
  PROVE  HeapInv'
BY AddNewEnters, EnterHeap, StopHeap

\* The client hands a pointer over: one it holds, or one the table has seen.
LEMMA CallWithHeap ==
  ASSUME TypeOK, HeapInv, ~strayed', NEW t \in Threads, pc[t] = "client",
         NEW a \in Addrs, NEW ty \in MemoryType, NEW l \in {"delete", "realloc"},
         CallWith(t, a, ty, l)
  PROVE  HeapInv'
<1>1. PICK tr \in FreshTraces :
        Moves(t, l, [NoLoc EXCEPT !.ptr = a, !.type = ty, !.trace = tr])
  BY DEF CallWith, Moves
<1> DEFINE v == [NoLoc EXCEPT !.ptr = a, !.type = ty, !.trace = tr]
<1>2. v.ptr = a /\ v.res = Null
  BY DEF NoLoc
<1> HIDE DEF v
<1>3. /\ pc'[t] = l /\ loc'[t] = v
      /\ \A u \in Threads : u # t => pc'[u] = pc[u] /\ loc'[u] = loc[u]
  BY <1>1, OthersStay DEF v
<1>4. /\ UNCHANGED <<heap, used, memoryItems, proc>>
      /\ \A b \in Addrs : b # a => held'[b] = held[b]
      /\ held[a] = ty => held'[a] = Null
  BY DEF CallWith, libc, tables, TypeOK
<1>5. \A u \in Threads, b \in Addrs :
        /\ Owes(u, b)' <=> Owes(u, b)
        /\ Claims(u, b)' <=> Claims(u, b) \/ (u = t /\ b = a)
  BY <1>2, <1>3 DEF Owes, Claims
<1>6. \A b \in Addrs : Live(b)' <=> Live(b)
  BY <1>3, <1>4 DEF Live
<1>7. BlocksAgree'
  BY <1>4, <1>5, <1>6 DEF HeapInv, BlocksAgree
<1>8. \A u \in Threads : CallInv(u)'
  BY <1>2, <1>3, <1>4 DEF HeapInv, CallInv, Unknown
<1>9. ASSUME NEW b \in Addrs \ Pool, Unknown(memoryItems'[b])
      PROVE  Sole(b)'
  <2>1. Sole(b)
    BY <1>4, <1>9 DEF HeapInv
  <2>2. CASE b # a
    BY <1>4, <1>5, <2>1, <2>2 DEF Sole
  <2>3. CASE b = a
    <3>1. held[a] = ty /\ ty # Null
      BY <1>4, <1>9, <2>3, ConstantsAssumption DEF CallWith, Unknown
    <3> QED
      BY <1>4, <1>5, <2>1, <2>3, <3>1 DEF Sole
  <2> QED
    BY <2>2, <2>3
<1> QED
  BY <1>4, <1>7, <1>8, <1>9 DEF HeapInv, FreedOnce, Unknown

\* A delete whose pointer passed the checks: the block is struck off the table,
\* or was never on it, and the thread owes its free.
LEMMA GoFreeHeap ==
  ASSUME TypeOK, HeapInv, NEW t \in Threads, pc[t] = "delete",
         NEW a, a = loc[t].ptr, Moves(t, "free", [NoLoc EXCEPT !.ptr = a]),
         UNCHANGED <<heap, used, held, proc>>,
         \A b \in Addrs : b # a => memoryItems'[b].status = memoryItems[b].status,
         \/ /\ memoryItems'[a].status = memoryItems[a].status
            /\ Unknown(memoryItems[a]) /\ a \notin Pool
         \/ memoryItems'[a].status = "Deallocated" /\ Live(a)
  PROVE  HeapInv'
<1> DEFINE v == [NoLoc EXCEPT !.ptr = a]
<1>1. v.ptr = a
  BY DEF NoLoc
<1> HIDE DEF v
<1>2. /\ pc'[t] = "free" /\ loc'[t] = v
      /\ \A u \in Threads : u # t => pc'[u] = pc[u] /\ loc'[u] = loc[u]
  BY OthersStay DEF v
<1>3. /\ a \in Addrs
      /\ Unknown(memoryItems[a]) => a \notin Pool /\ Sole(a) /\ Claims(t, a)
      /\ ~Unknown(memoryItems[a]) => Live(a)
  BY DEF HeapInv, CallInv, Claims, Live, Unknown
<1>4. a \in heap /\ \A u \in Threads : ~Owes(u, a)
  BY <1>3 DEF HeapInv, BlocksAgree, Sole
<1>5. \A u \in Threads, b \in Addrs :
        /\ Owes(u, b)' <=> Owes(u, b) \/ (u = t /\ b = a)
        /\ Claims(u, b)' <=> Claims(u, b) /\ u # t
  BY <1>1, <1>2 DEF Owes, Claims
<1>6. ~Live(a)' /\ \A b \in Addrs : Live(b)' => Live(b)
  BY <1>2, <1>3 DEF Live, Unknown
<1>7. BlocksAgree'
  BY <1>3, <1>4, <1>5, <1>6 DEF HeapInv, BlocksAgree
<1>8. \A b \in Addrs : ~Unknown(memoryItems[b]) => ~Unknown(memoryItems'[b])
  BY DEF Unknown
<1>9. \A u \in Threads : CallInv(u)'
  <2> SUFFICES ASSUME NEW u \in Threads, u # t PROVE CallInv(u)'
    <3>1. CallInv(t)'
      BY <1>1, <1>2, <1>3 DEF CallInv
    <3> QED
      BY <3>1
  <2>1. loc[u].res \in Addrs \union {Null}
    BY DEF TypeOK, Locals
  <2>2. ASSUME pc[u] = "earlyRealloc"
        PROVE  Unknown(memoryItems'[loc[u].ptr])
    <3>1. /\ loc[u].ptr \in Addrs \ Pool /\ Unknown(memoryItems[loc[u].ptr])
          /\ Claims(u, loc[u].ptr)
      BY <2>2 DEF HeapInv, CallInv, Claims
    <3>2. loc[u].ptr # a
      BY <1>3, <3>1 DEF Sole
    <3> QED
      BY <3>1, <3>2 DEF Unknown
  <2> QED
    BY <1>2, <1>8, <2>1, <2>2 DEF HeapInv, CallInv
<1>10. ASSUME NEW b \in Addrs \ Pool, Unknown(memoryItems'[b])
       PROVE  Sole(b)'
  <2>1. Sole(b)
    BY <1>3, <1>10 DEF HeapInv, Unknown
  <2>2. CASE b # a
    BY <1>5, <2>1, <2>2 DEF Sole
  <2>3. CASE b = a
    <3>1. Claims(t, a)
      BY <1>3 DEF Claims
    <3>2. held[a] = Null
      BY <2>1, <2>3, <3>1 DEF Sole
    <3> QED
      BY <1>5, <2>1, <2>3, <3>1, <3>2 DEF Sole
  <2> QED
    BY <2>2, <2>3
<1> QED
  BY <1>7, <1>9, <1>10 DEF HeapInv, FreedOnce, Unknown

LEMMA DeleteLockedHeap ==
  ASSUME TypeOK, LockDiscipline, HeapInv, NEW t \in Threads, DeleteLocked(t)
  PROVE  HeapInv'
<1> DEFINE a    == loc[t].ptr
           item == memoryItems[a]
<1>1. /\ pc[t] = "delete" /\ LockFree
      /\ a \in Addrs /\ proc # "blockFreedTwice" /\ Null \notin Addrs
      /\ memoryItems \in TableType
  BY ConstantsAssumption DEF DeleteLocked, At, HeapInv, CallInv, TypeOK, TableType
<1>2. item.status = "Allocated" => Live(a)
  BY <1>1, ConstantsAssumption DEF LockFree, LockDiscipline, Live
<1>3. CASE /\ Return(t, Null, Null)
           /\ UNCHANGED <<libc, tables, proc>>
  <2>1. Moves(t, "client", NoLoc) /\ \A b \in Addrs : held'[b] = held[b]
    BY <1>1, <1>3 DEF Return, Moves
  <2> QED
    BY <1>1, <1>3, <2>1, QuietHeap DEF libc, tables
<1>4. CASE /\ Goto(t, "free", [NoLoc EXCEPT !.ptr = a])
           /\ Unknown(item) /\ ~OfPool(a)
           /\ UNCHANGED <<libc, tables, proc>>
  BY <1>1, <1>4, GoFreeHeap DEF Goto, Moves, ghosts, libc, tables, OfPool
<1>5. ASSUME NEW f, Report(t, item, a, Null, f),
             UNCHANGED <<libc, memoryItems, proc>>
      PROVE  HeapInv'
  <2> DEFINE v == [ptr |-> a, res |-> Null, type |-> loc[t].type,
                   trace |-> loc[t].trace, item |-> item, failure |-> f]
  <2>1. Moves(t, "report", v) /\ v.res = Null /\ held' = held
    BY <1>5 DEF Report, Goto, Moves, ghosts
  <2> HIDE DEF v
  <2> QED
    BY <1>1, <1>5, <2>1, QuietHeap DEF libc
<1>6. CASE Stop("assertFailed")
  BY <1>6, StopHeap
<1>7. CASE /\ item.status = "Allocated"
           /\ memoryItems' = Struck(a, loc[t].trace)
           /\ Goto(t, "free", [NoLoc EXCEPT !.ptr = a])
           /\ UNCHANGED <<libc, proc>>
  <2>1. /\ memoryItems'[a].status = "Deallocated"
        /\ \A b \in Addrs : b # a => memoryItems'[b].status = memoryItems[b].status
    BY <1>1, <1>7 DEF Struck, TableType, SMemoryItem
  <2> QED
    BY <1>1, <1>2, <1>7, <2>1, GoFreeHeap DEF Goto, Moves, ghosts, libc
<1> QED
  BY <1>3, <1>4, <1>5, <1>6, <1>7 DEF DeleteLocked, tables

LEMMA FreeHeap ==
  ASSUME TypeOK, HeapInv, NEW t \in Threads, Free(t)
  PROVE  HeapInv'
<1>1. PICK a : a = loc[t].ptr
  OBVIOUS
<1>2. /\ pc[t] = "free" /\ a \in Addrs /\ Null \notin Addrs /\ Owes(t, a)
  BY <1>1, ConstantsAssumption DEF Free, At, HeapInv, CallInv, Owes
<1>3. /\ a \in heap /\ ~Live(a)
      /\ \A u \in Threads : Owes(u, a) => u = t
  BY <1>2 DEF HeapInv, BlocksAgree
<1>4. /\ heap' = heap \ {a} /\ Moves(t, "client", NoLoc)
      /\ \A b \in Addrs : held'[b] = held[b]
      /\ UNCHANGED <<used, memoryItems, proc>>
  BY <1>1, <1>2, <1>3 DEF Free, Return, Moves, tables
<1>5. /\ pc'[t] = "client"
      /\ \A u \in Threads : u # t => pc'[u] = pc[u] /\ loc'[u] = loc[u]
  BY <1>4, OthersStay
<1>6. \A u \in Threads, b \in Addrs :
        /\ Owes(u, b)' => Owes(u, b) /\ u # t
        /\ Claims(u, b)' => Claims(u, b)
  BY <1>5 DEF Owes, Claims
<1>7. \A b \in Addrs : Live(b)' => Live(b)
  BY <1>2, <1>4, <1>5 DEF Live
<1>8. BlocksAgree'
  BY <1>3, <1>4, <1>6, <1>7 DEF HeapInv, BlocksAgree
<1>9. \A u \in Threads : CallInv(u)'
  BY <1>4, <1>5 DEF HeapInv, CallInv, Unknown
<1>10. ASSUME NEW b \in Addrs \ Pool, Unknown(memoryItems'[b])
       PROVE  Sole(b)'
  <2>1. Sole(b)
    BY <1>4, <1>10 DEF HeapInv
  <2> QED
    BY <1>2, <1>4, <1>6, <2>1 DEF Sole
<1> QED
  BY <1>4, <1>8, <1>9, <1>10 DEF HeapInv, FreedOnce, Unknown

LEMMA ReAllocLockedHeap ==
  ASSUME TypeOK, LockDiscipline, HeapInv, NEW t \in Threads, ReAllocLocked(t)
  PROVE  HeapInv'
<1> DEFINE item == memoryItems[loc[t].ptr]
<1>1. PICK a : a = loc[t].ptr
  OBVIOUS
<1>2. /\ pc[t] = "realloc" /\ LockFree /\ loc[t].res = Null
      /\ a \in Addrs /\ proc # "blockFreedTwice" /\ Null \notin Addrs
      /\ loc[t] \in Locals
  BY <1>1, ConstantsAssumption
     DEF ReAllocLocked, At, HeapInv, CallInv, TypeOK
<1>3. item.status = "Allocated" => Live(a) /\ a \in heap
  BY <1>1, <1>2, ConstantsAssumption
     DEF LockFree, LockDiscipline, Live, HeapInv, BlocksAgree
<1>4. ASSUME NEW r, Return(t, r, "Malloc"),
             r \in Addrs \ Pool => ~Unknown(memoryItems[r]),
             UNCHANGED <<libc, tables, proc>>
      PROVE  HeapInv'
  <2>1. /\ Moves(t, "client", NoLoc)
        /\ \A b \in Addrs \ Pool : Unknown(memoryItems[b]) => held'[b] = held[b]
    BY <1>4 DEF Return, Moves
  <2> QED
    BY <1>2, <1>4, <2>1, QuietHeap DEF libc, tables
<1>5. CASE /\ Unknown(item) /\ ~OfPool(loc[t].ptr)
           /\ Goto(t, "earlyRealloc", [NoLoc EXCEPT !.ptr = loc[t].ptr])
           /\ UNCHANGED <<libc, tables, proc>>
  <2> DEFINE v == [NoLoc EXCEPT !.ptr = loc[t].ptr]
  <2>1. /\ Moves(t, "earlyRealloc", v) /\ v.ptr = a /\ v.res = Null
        /\ UNCHANGED <<heap, used, memoryItems, held, proc>>
    BY <1>1, <1>5 DEF Goto, Moves, NoLoc, ghosts, libc, tables
  <2> HIDE DEF v
  <2>2. /\ pc'[t] = "earlyRealloc" /\ loc'[t].ptr = a /\ loc'[t].res = Null
        /\ \A u \in Threads : u # t => pc'[u] = pc[u] /\ loc'[u] = loc[u]
    BY <2>1, OthersStay
  <2>3. \A u \in Threads, b \in Addrs : /\ Owes(u, b)' <=> Owes(u, b)
                                        /\ Claims(u, b)' <=> Claims(u, b)
    BY <1>1, <1>2, <2>2 DEF Owes, Claims
  <2>4. \A b \in Addrs : Live(b)' <=> Live(b)
    BY <1>2, <2>1, <2>2 DEF Live
  <2>5. BlocksAgree'
    BY <2>1, <2>3, <2>4 DEF HeapInv, BlocksAgree
  <2>6. \A u \in Threads : CallInv(u)'
    BY <1>1, <1>2, <1>5, <2>1, <2>2 DEF HeapInv, CallInv, Unknown, OfPool
  <2>7. \A b \in Addrs \ Pool : Unknown(memoryItems'[b]) => Sole(b)'
    BY <2>1, <2>3 DEF HeapInv, Sole
  <2> QED
    BY <2>1, <2>5, <2>6, <2>7 DEF HeapInv, FreedOnce, Unknown
<1>6. ASSUME NEW f, Report(t, item, loc[t].ptr, Null, f),
             UNCHANGED <<libc, tables, proc>>
      PROVE  HeapInv'
  <2> DEFINE v == [ptr |-> loc[t].ptr, res |-> Null, type |-> loc[t].type,
                   trace |-> loc[t].trace, item |-> item, failure |-> f]
  <2>1. Moves(t, "report", v) /\ v.res = Null /\ held' = held
    BY <1>6 DEF Report, Goto, Moves, ghosts
  <2> HIDE DEF v
  <2> QED
    BY <1>2, <1>6, <2>1, QuietHeap DEF libc, tables
<1>7. ASSUME item.status = "Allocated", NEW r \in FreshAddrs,
             heap' = (heap \ {loc[t].ptr}) \union {r}, used' = used \union {r},
             Goto(t, "moved", [loc[t] EXCEPT !.res = r]),
             UNCHANGED <<tables, proc>>
      PROVE  HeapInv'
  <2> DEFINE v == [loc[t] EXCEPT !.res = r]
  <2>1. Moves(t, "moved", v) /\ v.res = r /\ v.ptr = a /\ held' = held
    BY <1>1, <1>2, <1>7 DEF Goto, Moves, Locals, ghosts
  <2>2. ~Unknown(memoryItems[a])
    BY <1>1, <1>7 DEF Unknown
  <2> HIDE DEF v
  <2> QED
    BY <1>1, <1>2, <1>3, <1>7, <2>1, <2>2, ObtainHeap DEF tables
<1>8. CASE /\ item.status = "Allocated"
           /\ pc' = [pc EXCEPT ![t] = "moved"] /\ loc' = loc
           /\ held' = [held EXCEPT ![loc[t].ptr] = "Malloc"]
           /\ UNCHANGED <<libc, tables, proc>>
  <2>1. /\ pc'[t] = "moved" /\ loc'[t] = loc[t]
        /\ \A u \in Threads : u # t => pc'[u] = pc[u] /\ loc'[u] = loc[u]
        /\ UNCHANGED <<heap, used, memoryItems, proc>>
        /\ \A b \in Addrs : b # a => held'[b] = held[b]
    BY <1>1, <1>8 DEF TypeOK, libc, tables
  <2>2. \A u \in Threads, b \in Addrs : /\ Owes(u, b)' <=> Owes(u, b)
                                        /\ Claims(u, b)' => Claims(u, b)
    BY <1>2, <2>1 DEF Owes, Claims
  <2>3. \A b \in Addrs : Live(b)' <=> Live(b)
    BY <1>2, <2>1 DEF Live
  <2>4. BlocksAgree'
    BY <2>1, <2>2, <2>3 DEF HeapInv, BlocksAgree
  <2>5. \A u \in Threads : CallInv(u)'
    BY <1>1, <1>2, <1>8, <2>1 DEF HeapInv, CallInv, Unknown
  <2>6. ASSUME NEW b \in Addrs \ Pool, Unknown(memoryItems'[b]) PROVE Sole(b)'
    <3>1. Sole(b) /\ b # a
      BY <1>1, <1>8, <2>1, <2>6 DEF HeapInv, Unknown
    <3> QED
      BY <2>1, <2>2, <3>1 DEF Sole
  <2> QED
    BY <2>1, <2>4, <2>5, <2>6 DEF HeapInv, FreedOnce, Unknown
<1>9. \A r \in {p \in Pool : held[p] = Null} \union {Null} : r \notin Addrs \ Pool
  BY <1>2
<1>10. item.status = "Allocated" =>
         loc[t].ptr \in heap /\ ~Unknown(memoryItems[loc[t].ptr])
  BY <1>1, <1>3 DEF Unknown
<1> QED
  BY <1>4, <1>5, <1>6, <1>7, <1>8, <1>9, <1>10 DEF ReAllocLocked, libc, tables

LEMMA ReAllocMovedHeap ==
  ASSUME TypeOK, HeapInv, NEW t \in Threads, ReAllocMoved(t)
  PROVE  HeapInv'
<1>1. pc[t] = "moved" /\ Struck(loc[t].ptr, Null) \in TableType
  BY StruckType DEF ReAllocMoved, At, TypeOK, Locals
<1>2. CASE Stop("assertFailed")
  BY <1>2, StopHeap
<1>3. ASSUME NEW stk, AddNewNoLock(t, Struck(loc[t].ptr, Null), stk)
      PROVE  HeapInv'
  BY <1>1, <1>3, AddNewHeap
<1> QED
  BY <1>2, <1>3 DEF ReAllocMoved

LEMMA RegisterHeap ==
  ASSUME TypeOK, HeapInv, NEW t \in Threads, Register(t)
  PROVE  HeapInv'
BY AddNewHeap DEF Register, At, TypeOK, TableType

\* realloc of a block the tables never saw: whoever claims it is alone with it.
LEMMA EarlyReAllocHeap ==
  ASSUME TypeOK, HeapInv, NEW t \in Threads, EarlyReAlloc(t)
  PROVE  HeapInv'
<1>1. PICK a : a = loc[t].ptr
  OBVIOUS
<1>2. /\ pc[t] = "earlyRealloc" /\ a \in Addrs \ Pool /\ Null \notin Addrs
      /\ Unknown(memoryItems[a]) /\ Claims(t, a)
  BY <1>1, ConstantsAssumption
     DEF EarlyReAlloc, At, HeapInv, CallInv, Claims
<1>3. Sole(a)
  BY <1>2 DEF HeapInv
<1>4. /\ a \in heap /\ held[a] = Null /\ ~Live(a) /\ Early # {}
      /\ \A u \in Threads : ~Owes(u, a) /\ (Claims(u, a) => u = t)
  BY <1>2, <1>3 DEF Sole, Live, Unknown
<1>5. PICK r \in FreshAddrs \union {a} :
        /\ heap' = (heap \ {a}) \union {r} /\ used \subseteq used'
        /\ r \in used' /\ Return(t, r, "Malloc")
        /\ UNCHANGED <<memoryItems, proc>>
  <2>1. /\ LibcReAlloc(t, a) /\ UNCHANGED <<tables, proc>>
    BY <1>1, <1>4 DEF EarlyReAlloc
  <2>2. CASE \E r \in FreshAddrs \union {a} :
               /\ heap' = (heap \ {a}) \union {r} /\ used' = used \union {r}
               /\ Return(t, r, "Malloc")
    BY <2>1, <2>2 DEF tables
  <2>3. CASE UNCHANGED libc /\ Return(t, a, "Malloc")
    <3>1. heap' = (heap \ {a}) \union {a} /\ a \in used'
      BY <1>4, <2>3 DEF libc, HeapInv
    <3> QED
      BY <2>1, <2>3, <3>1 DEF libc, tables
  <2> QED
    BY <2>1, <2>2, <2>3 DEF LibcReAlloc
<1>6. /\ Moves(t, "client", NoLoc)
      /\ \A b \in Addrs : b # r => held'[b] = held[b]
  BY <1>5 DEF Return, Moves
<1>7. /\ pc'[t] = "client"
      /\ \A u \in Threads : u # t => pc'[u] = pc[u] /\ loc'[u] = loc[u]
  BY <1>6, OthersStay
<1>8. \A u \in Threads, b \in Addrs :
        /\ Owes(u, b)' => Owes(u, b)
        /\ Claims(u, b)' => Claims(u, b) /\ u # t
  BY <1>7 DEF Owes, Claims
<1>9. \A b \in Addrs : Live(b)' => Live(b)
  BY <1>2, <1>5, <1>7 DEF Live
<1>10. BlocksAgree'
  BY <1>4, <1>5, <1>8, <1>9 DEF HeapInv, BlocksAgree
<1>11. \A u \in Threads : CallInv(u)'
  BY <1>5, <1>7 DEF HeapInv, CallInv, Unknown
<1>12. /\ r # a => r \in Addrs /\ r \notin heap
       /\ heap' \subseteq used'
  BY <1>5 DEF FreshAddrs, HeapInv
<1>13. ASSUME NEW b \in Addrs \ Pool, Unknown(memoryItems'[b])
       PROVE  Sole(b)'
  <2>1. Sole(b)
    BY <1>5, <1>13 DEF HeapInv
  <2>2. CASE b = a
    BY <1>4, <1>5, <1>6, <1>8, <2>2 DEF Sole
  <2>3. CASE b # a /\ b # r
    BY <1>5, <1>6, <1>8, <2>1, <2>3 DEF Sole
  <2>4. CASE b # a /\ b = r
    <3>1. \A u \in Threads : ~Owes(u, b) /\ ~Claims(u, b)
      BY <1>12, <2>1, <2>4 DEF Sole, HeapInv, BlocksAgree
    <3> QED
      BY <1>4, <1>5, <1>8, <2>4, <3>1 DEF Sole
  <2> QED
    BY <2>2, <2>3, <2>4
<1> QED
  BY <1>5, <1>10, <1>11, <1>12, <1>13 DEF HeapInv, FreedOnce, Unknown

LEMMA CallClbkHeap ==
  ASSUME TypeOK, HeapInv, NEW t \in Threads, CallClbk(t)
  PROVE  HeapInv'
<1>1. /\ pc[t] = "report" /\ UNCHANGED <<heap, used, memoryItems, held>>
      /\ proc' # "blockFreedTwice"
      /\ loc[t].res # Null => ~Unknown(memoryItems[loc[t].res])
  BY DEF CallClbk, At, HeapInv, CallInv, FreedOnce, libc, tables
<1>2. Moves(t, "report", loc[t]) \/ Moves(t, "callback", loc[t])
  BY <1>1 DEF CallClbk, Moves, TypeOK
<1> QED
  BY <1>1, <1>2, QuietHeap

\* The callback declines to act: the block's state is the report's.
LEMMA EndClbkHeap ==
  ASSUME Declines, TypeOK, HeapInv, NEW t \in Threads, EndClbk(t)
  PROVE  HeapInv'
<1>1. /\ pc[t] = "callback" /\ proc # "blockFreedTwice"
      /\ loc[t].res # Null => ~Unknown(memoryItems[loc[t].res])
      /\ Null \notin Addrs
  BY ConstantsAssumption
     DEF EndClbk, At, HeapInv, CallInv, FreedOnce
<1>2. CASE Stop("exited") \/ Stop("traceFreedTwice")
  BY <1>2, StopHeap
<1>3. CASE Answer(t) /\ UNCHANGED <<libc, tables, proc>>
  <2>1. /\ Moves(t, "client", NoLoc)
        /\ \A b \in Addrs \ Pool : Unknown(memoryItems[b]) => held'[b] = held[b]
    BY <1>1, <1>3 DEF Answer, Return, Moves
  <2> QED
    BY <1>1, <1>3, <2>1, QuietHeap DEF libc, tables
<1> QED
  BY <1>2, <1>3 DEF EndClbk, Declines

LEMMA CallAllocHeap ==
  ASSUME TypeOK, HeapInv, NEW t \in Threads, CallAlloc(t)
  PROVE  HeapInv'
<1>1. PICK a \in FreshAddrs, tr \in FreshTraces, ty \in Types :
        /\ heap' = heap \union {a} /\ used' = used \union {a}
        /\ Goto(t, "register", [NoLoc EXCEPT !.res = a, !.type = ty, !.trace = tr])
  BY DEF CallAlloc
<1> DEFINE v == [NoLoc EXCEPT !.res = a, !.type = ty, !.trace = tr]
<1>2. /\ Moves(t, "register", v) /\ v.res = a /\ pc[t] = "client"
      /\ UNCHANGED <<memoryItems, held, proc>>
  BY <1>1 DEF CallAlloc, At, Goto, Moves, NoLoc, ghosts, tables
<1> HIDE DEF v
<1> QED
  BY <1>1, <1>2, ObtainHeap

\* The destructor frees traces, no blocks.
LEMMA DestroyHeap ==
  ASSUME HeapInv, Destroy
  PROVE  HeapInv'
<1>1. CASE Stop("traceFreedTwice")
  BY <1>1, StopHeap
<1>2. CASE proc' = "finished" /\ UNCHANGED <<libc, tables, pc, loc, ghosts>>
  BY <1>2 DEF HeapInv, BlocksAgree, FreedOnce, CallInv, Sole, Live, Owes,
              Claims, Unknown, libc, tables, ghosts
<1> QED
  BY <1>1, <1>2 DEF Destroy

LEMMA InitHeap == ASSUME Init PROVE HeapInv
BY ConstantsAssumption
   DEF Init, HeapInv, BlocksAgree, FreedOnce, CallInv, Sole, Live, Owes,
       Claims, Unknown, NoItem

LEMMA NextHeap ==
  ASSUME Declines, TypeOK, LockDiscipline, HeapInv, ~strayed', [Next]_vars
  PROVE  HeapInv'
<1>1. CASE UNCHANGED vars \/ SetMaxAllowedAllocInTheSameStack \/ ReplaceFailureClbk
  BY <1>1 DEF vars, SetMaxAllowedAllocInTheSameStack, ReplaceFailureClbk, libc,
              tables, ghosts, HeapInv, BlocksAgree, FreedOnce, CallInv,
              Sole, Live, Owes, Claims, Unknown
<1>2. ASSUME NEW t \in Threads, LibraryStep(t)
      PROVE  HeapInv'
  BY <1>2, RegisterHeap, DeleteLockedHeap, FreeHeap, ReAllocLockedHeap,
     ReAllocMovedHeap, EarlyReAllocHeap, CallClbkHeap DEF LibraryStep
<1>3. ASSUME NEW t \in Threads, CallDelete(t) \/ CallReAlloc(t)
      PROVE  HeapInv'
  BY <1>3, CallWithHeap, ConstantsAssumption
     DEF CallDelete, CallReAlloc, At, MemoryType
<1>4. ASSUME NEW t \in Threads, ProgramStep(t)
      PROVE  HeapInv'
  <2>1. ~NestedCall(t)
    BY DEF NestedCall, Declines
  <2> QED
    BY <1>3, <1>4, <2>1, CallAllocHeap, EndClbkHeap DEF ProgramStep
<1> QED
  BY <1>1, <1>2, <1>4, DestroyHeap DEF Next

\* A client that strayed has strayed for good.
LEMMA StrayedStays ==
  ASSUME [Next]_vars, strayed
  PROVE  strayed'
<1>1. ASSUME NEW t \in Threads, NEW a, NEW ty, NEW l, CallWith(t, a, ty, l)
      PROVE  strayed'
  BY <1>1 DEF CallWith
<1>2. ASSUME NEW t \in Threads, LibraryStep(t) PROVE strayed' = strayed
  BY <1>2 DEF LibraryStep, Register, DeleteLocked, Free, ReAllocLocked,
     ReAllocMoved, EarlyReAlloc, CallClbk, AddNewNoLock, LibcReAlloc, Report,
     Return, Goto, Stop, ghosts
<1>3. ASSUME NEW t \in Threads, ProgramStep(t) PROVE strayed'
  BY <1>1, <1>3 DEF ProgramStep, CallAlloc, CallDelete, CallReAlloc, EndClbk,
     NestedCall, Stop, Answer, LibcReAlloc, Return, Goto, ghosts
<1> QED
  BY <1>2, <1>3 DEF Next, vars, SetMaxAllowedAllocInTheSameStack,
     ReplaceFailureClbk, Destroy, Stop, ghosts

\* HeapInv is an invariant until the client strays.
LEMMA HeapInvariant ==
  ASSUME Declines
  PROVE  Spec => [](~strayed => HeapInv)
<1>1. Init => TypeOK /\ LockDiscipline /\ (~strayed => HeapInv)
  BY InitType, InitLock, InitHeap
<1>2. TypeOK /\ LockDiscipline /\ (~strayed => HeapInv) /\ [Next]_vars =>
        TypeOK' /\ LockDiscipline' /\ (~strayed => HeapInv)'
  BY NextType, NextLock, NextHeap, StrayedStays
<1> QED
  BY <1>1, <1>2, PTL DEF Spec

\* What the table calls allocated is allocated in libc, and a block between libc
\* and the table has one thread that answers for it: for any number of threads
\* and blocks, with reuse of addresses, exhausted memory, blocks older than the
\* tables and the initialisation pool, whatever pointer is freed or reallocated
\* by whichever thread, up to the first that the client did not own and that the
\* table does not know.
THEOREM TableAgreesWithLibc ==
  ASSUME Declines
  PROVE  Spec => []HeapAgrees
<1>1. (~strayed => HeapInv) => HeapAgrees
  BY DEF HeapInv, HeapAgrees
<1> QED
  BY <1>1, HeapInvariant, PTL

\* Under the same conditions, and up to the same pointer, libc is never asked to
\* free, or to reallocate, a block that is not allocated: the goal of the library.
THEOREM LibcFreesOnce ==
  ASSUME Declines
  PROVE  Spec => []NoBlockFreedTwice
<1>1. (~strayed => HeapInv) => NoBlockFreedTwice
  BY DEF HeapInv, FreedOnce, NoBlockFreedTwice
<1> QED
  BY <1>1, HeapInvariant, PTL

=============================================================================
