-------------------------- MODULE AllocLedgerProofs --------------------------
(* AllocAnalyze implements the safety part of AllocLedger. *)
EXTENDS AllocAnalyzeProofs

\* A thread is about to enter the block a in the table.
Handed(a) == \E t \in Threads : pc[t] \in {"register", "moved"} /\ loc[t].res = a

\* What the life of a block depends on.
SameBlock(a) ==
  /\ Live(a)' <=> Live(a)
  /\ a \in heap' <=> a \in heap
  /\ Handed(a)' <=> Handed(a)

LEMMA SameBlockState ==
  ASSUME NEW a \in Addrs, SameBlock(a)
  PROVE  BlockState(a)' = BlockState(a)
<1>1. /\ BlockState(a) = IF Live(a) THEN "live"
                         ELSE IF a \notin heap THEN "free"
                         ELSE IF Handed(a) THEN "handed" ELSE "dying"
      /\ BlockState(a)' = IF Live(a)' THEN "live"
                          ELSE IF a \notin heap' THEN "free"
                          ELSE IF Handed(a)' THEN "handed" ELSE "dying"
  BY DEF BlockState, Handed
<1> QED
  BY <1>1 DEF SameBlock

\* A step that moves no block.
LEMMA LedgerStutters ==
  ASSUME \A a \in Addrs : SameBlock(a), proc' = proc
  PROVE  UNCHANGED Ledger!ledgerVars
BY SameBlockState DEF Ledger!ledgerVars

\* A step that ends the process and moves no block.
LEMMA LedgerEnds ==
  ASSUME \A a \in Addrs : SameBlock(a), proc = "running", proc' # "running"
  PROVE  Ledger!End
BY SameBlockState DEF Ledger!End

\* A step that moves one block.
LEMMA LedgerMoves ==
  ASSUME NEW b \in Addrs, NEW from, NEW to,
         \A a \in Addrs : a # b => SameBlock(a),
         BlockState(b) = from, BlockState(b)' = to, proc = "running", proc' = proc
  PROVE  Ledger!Move(b, from, to)
<1>1. \A a \in Addrs : a # b => BlockState(a)' = BlockState(a)
  BY SameBlockState
<1> QED
  BY <1>1 DEF Ledger!Move

\* A realloc frees one block and hands out another.
LEMMA LedgerExchanges ==
  ASSUME NEW b \in Addrs, NEW c \in Addrs, b # c,
         \A a \in Addrs : a # b /\ a # c => SameBlock(a),
         BlockState(b) = "live", BlockState(b)' = "free",
         BlockState(c) = "free", BlockState(c)' = "handed",
         proc = "running", proc' = proc
  PROVE  Ledger!Exchange(b, c)
<1>1. \A a \in Addrs : a # b /\ a # c => BlockState(a)' = BlockState(a)
  BY SameBlockState
<1> QED
  BY <1>1 DEF Ledger!Exchange

LEMMA StopLedger ==
  ASSUME NEW how, how # "running", proc = "running", Stop(how)
  PROVE  Ledger!LedgerNext
<1>1. \A a \in Addrs : SameBlock(a)
  BY DEF Stop, SameBlock, Live, Handed, libc, tables
<1>2. proc' # "running"
  BY DEF Stop
<1> QED
  BY <1>1, <1>2, LedgerEnds DEF Ledger!LedgerNext

\* A step of a thread that neither obtains, enters, strikes nor frees a block.
LEMMA QuietLedger ==
  ASSUME TypeOK, NEW t \in Threads, pc[t] \notin {"register", "moved"},
         NEW l, NEW v, Moves(t, l, v),
         l \in {"register", "moved"} => v.res = Null,
         UNCHANGED <<heap, memoryItems>>
  PROVE  \A a \in Addrs : SameBlock(a)
<1>1. /\ pc'[t] = l /\ loc'[t] = v
      /\ \A u \in Threads : u # t => pc'[u] = pc[u] /\ loc'[u] = loc[u]
  BY OthersStay
<1>2. Null \notin Addrs
  BY ConstantsAssumption
<1>3. \A a \in Addrs : Live(a)' <=> Live(a)
  BY <1>1 DEF Live
<1>4. \A a \in Addrs : Handed(a)' <=> Handed(a)
  BY <1>1, <1>2 DEF Handed
<1> QED
  BY <1>3, <1>4 DEF SameBlock

LEMMA CallAllocLedger ==
  ASSUME TypeOK, HeapInv, NEW t \in Threads, CallAlloc(t)
  PROVE  Ledger!LedgerNext
<1>1. PICK r \in FreshAddrs, tr \in FreshTraces, ty \in Types :
        /\ heap' = heap \union {r}
        /\ Goto(t, "register", [NoLoc EXCEPT !.res = r, !.type = ty, !.trace = tr])
  BY DEF CallAlloc
<1> DEFINE v == [NoLoc EXCEPT !.res = r, !.type = ty, !.trace = tr]
<1>2. /\ Moves(t, "register", v) /\ v.res = r /\ pc[t] = "client"
      /\ memoryItems' = memoryItems /\ proc = "running" /\ proc' = proc
  BY <1>1 DEF CallAlloc, At, Goto, Moves, NoLoc, tables
<1> HIDE DEF v
<1>3. /\ pc'[t] = "register" /\ loc'[t].res = r
      /\ \A u \in Threads : u # t => pc'[u] = pc[u] /\ loc'[u] = loc[u]
  BY <1>2, OthersStay
<1>4. r \in Addrs /\ r \notin heap /\ ~Live(r)
  BY DEF FreshAddrs, HeapInv, BlocksAgree
<1>5. \A a \in Addrs : Live(a)' <=> Live(a)
  BY <1>2, <1>3 DEF Live
<1>6. /\ Handed(r)'
      /\ \A a \in Addrs : a # r => (Handed(a)' <=> Handed(a))
  BY <1>2, <1>3 DEF Handed
<1>7. BlockState(r) = "free" /\ BlockState(r)' = "handed"
  BY <1>1, <1>4, <1>5, <1>6 DEF BlockState, Handed
<1>8. \A a \in Addrs : a # r => SameBlock(a)
  BY <1>1, <1>5, <1>6 DEF SameBlock
<1>9. Ledger!Move(r, "free", "handed")
  BY <1>2, <1>4, <1>7, <1>8, LedgerMoves
<1> QED
  BY <1>4, <1>9 DEF Ledger!LedgerNext, Ledger!Obtain

\* Registration enters the block the thread owes; a failed realloc, which
\* registers the null pointer, strikes the block it was given.
LEMMA EnterLedger ==
  ASSUME TypeOK, LockDiscipline, HeapInv, proc = "running", NEW t \in Threads,
         \/ pc[t] = "register" /\ mutexForMap = Null
         \/ pc[t] = "moved" /\ mutexForMap = t,
         NEW l \in {"client", "report"}, NEW v, Enters(t, l, v)
  PROVE  Ledger!LedgerNext \/ UNCHANGED Ledger!ledgerVars
<1> USE DEF Enters
<1>1. PICK new, p : new = loc[t].res /\ p = loc[t].ptr
  OBVIOUS
<1>2. /\ pc'[t] \in {"client", "report"}
      /\ \A u \in Threads : u # t => pc'[u] = pc[u] /\ loc'[u] = loc[u]
  BY OthersStay
<1>3. \A u \in Threads : u # t => pc[u] # "moved"
  BY ConstantsAssumption DEF LockDiscipline
<1>4. /\ new \in Addrs \union {Null} /\ p \in Addrs \union {Null}
      /\ Null \notin Addrs
  BY <1>1, ConstantsAssumption DEF TypeOK, Locals
<1>5. \A a \in Addrs : Live(a)' <=> memoryItems'[a].status = "Allocated"
  BY <1>2, <1>3 DEF Live
<1>6. \A a \in Addrs :
        Live(a) <=> /\ memoryItems[a].status = "Allocated"
                    /\ ~(pc[t] = "moved" /\ new # Null /\ a = p)
  BY <1>1, <1>3 DEF Live
<1>7. \A a \in Addrs : a # new => (Handed(a)' <=> Handed(a))
  BY <1>1, <1>2 DEF Handed
<1>8. \A a \in Addrs : a # new /\ ~(pc[t] = "moved" /\ a = p) => SameBlock(a)
  BY <1>1, <1>5, <1>6, <1>7 DEF SameBlock
<1>9. CASE new \in Addrs
  <2>1. Owes(t, new) /\ Handed(new)
    BY <1>1 DEF Owes, Handed
  <2>2. new \in heap /\ ~Live(new)
    BY <1>9, <2>1 DEF HeapInv, BlocksAgree
  <2>3. BlockState(new) = "handed" /\ BlockState(new)' = "live"
    BY <1>1, <1>5, <1>9, <2>1, <2>2 DEF BlockState, Handed
  <2>4. \A a \in Addrs : a # new => SameBlock(a)
    <3>1. pc[t] = "moved" /\ p \in Addrs /\ p # new => ~Live(p) /\ ~Live(p)'
      BY <1>1, <1>4, <1>5, <1>6, <1>9
    <3> QED
      BY <1>7, <1>8, <3>1 DEF SameBlock
  <2>5. Ledger!Move(new, "handed", "live")
    BY <1>9, <2>3, <2>4, LedgerMoves
  <2> QED
    BY <1>9, <2>5 DEF Ledger!LedgerNext, Ledger!Enter
<1>10. CASE new = Null
  <2>1. pc[t] = "moved" /\ p \in Addrs /\ p # new
    BY <1>1, <1>4, <1>10 DEF HeapInv, CallInv
  <2>2. ~Live(p)' /\ \A a \in Addrs : a # p => SameBlock(a)
    BY <1>1, <1>4, <1>5, <1>8, <1>10, <2>1
  <2>3. CASE Live(p)
    <3>1. p \in heap /\ \A u \in Threads : ~Owes(u, p)
      BY <2>1, <2>3 DEF HeapInv, BlocksAgree
    <3>2. ~Handed(p) /\ ~Handed(p)'
      BY <1>7, <2>1, <3>1 DEF Handed, Owes
    <3>3. BlockState(p) = "live" /\ BlockState(p)' = "dying"
      BY <2>2, <2>3, <3>1, <3>2 DEF BlockState, Handed
    <3>4. Ledger!Move(p, "live", "dying")
      BY <2>1, <2>2, <3>3, LedgerMoves
    <3> QED
      BY <2>1, <3>4 DEF Ledger!LedgerNext, Ledger!Strike
  <2>4. CASE ~Live(p)
    <3>1. SameBlock(p)
      BY <1>7, <2>1, <2>2, <2>4 DEF SameBlock
    <3> QED
      BY <2>2, <3>1, LedgerStutters
  <2> QED
    BY <2>3, <2>4
<1> QED
  BY <1>4, <1>9, <1>10

LEMMA AddNewLedger ==
  ASSUME TypeOK, LockDiscipline, HeapInv, proc = "running", NEW t \in Threads,
         NEW table \in TableType, NEW stk,
         \/ pc[t] = "register" /\ mutexForMap = Null /\ table = memoryItems
         \/ pc[t] = "moved" /\ mutexForMap = t /\ table = Struck(loc[t].ptr, Null),
         AddNewNoLock(t, table, stk)
  PROVE  Ledger!LedgerNext \/ UNCHANGED Ledger!ledgerVars
BY AddNewEnters, EnterLedger, StopLedger

LEMMA RegisterLedger ==
  ASSUME TypeOK, LockDiscipline, HeapInv, NEW t \in Threads,
         Register(t) \/ ReAllocMoved(t)
  PROVE  Ledger!LedgerNext \/ UNCHANGED Ledger!ledgerVars
<1>1. CASE Register(t)
  BY <1>1, AddNewLedger DEF Register, At, LockFree, TypeOK, TableType
<1>2. CASE ReAllocMoved(t)
  <2>1. /\ pc[t] = "moved" /\ mutexForMap = t /\ proc = "running"
        /\ Struck(loc[t].ptr, Null) \in TableType
    BY <1>2, StruckType DEF ReAllocMoved, At, TypeOK, Locals
  <2>2. CASE Stop("assertFailed")
    BY <2>1, <2>2, StopLedger
  <2>3. ASSUME NEW stk, AddNewNoLock(t, Struck(loc[t].ptr, Null), stk)
        PROVE  Ledger!LedgerNext \/ UNCHANGED Ledger!ledgerVars
    BY <2>1, <2>3, AddNewLedger
  <2> QED
    BY <1>2, <2>2, <2>3 DEF ReAllocMoved
<1> QED
  BY <1>1, <1>2

LEMMA FreeLedger ==
  ASSUME TypeOK, HeapInv, NEW t \in Threads, Free(t)
  PROVE  Ledger!LedgerNext
<1>1. PICK a : a = loc[t].ptr
  OBVIOUS
<1>2. /\ pc[t] = "free" /\ proc = "running" /\ a \in Addrs /\ Owes(t, a)
  BY <1>1 DEF Free, At, HeapInv, CallInv, Owes
<1>3. /\ a \in heap /\ ~Live(a)
      /\ \A u \in Threads : Owes(u, a) => u = t
  BY <1>2 DEF HeapInv, BlocksAgree
<1>4. /\ heap' = heap \ {a} /\ Moves(t, "client", NoLoc)
      /\ UNCHANGED <<memoryItems, proc>>
  BY <1>1, <1>3 DEF Free, Return, Moves, tables
<1>5. /\ pc'[t] = "client"
      /\ \A u \in Threads : u # t => pc'[u] = pc[u] /\ loc'[u] = loc[u]
  BY <1>4, OthersStay
<1>6. \A b \in Addrs : /\ Live(b)' <=> Live(b)
                       /\ Handed(b)' <=> Handed(b)
  BY <1>2, <1>4, <1>5 DEF Live, Handed
<1>7. ~Handed(a)
  BY <1>2, <1>3 DEF Handed, Owes
<1>8. BlockState(a) = "dying" /\ BlockState(a)' = "free"
  BY <1>2, <1>3, <1>4, <1>6, <1>7 DEF BlockState, Handed
<1>9. \A b \in Addrs : b # a => SameBlock(b)
  BY <1>4, <1>6 DEF SameBlock
<1>10. Ledger!Move(a, "dying", "free")
  BY <1>2, <1>4, <1>8, <1>9, LedgerMoves
<1> QED
  BY <1>2, <1>10 DEF Ledger!LedgerNext, Ledger!GiveBack

LEMMA DeleteLockedLedger ==
  ASSUME TypeOK, LockDiscipline, HeapInv, NEW t \in Threads, DeleteLocked(t)
  PROVE  Ledger!LedgerNext \/ UNCHANGED Ledger!ledgerVars
<1>1. PICK a : a = loc[t].ptr
  OBVIOUS
<1> DEFINE item == memoryItems[a]
<1>2. /\ pc[t] = "delete" /\ LockFree /\ proc = "running"
      /\ a \in Addrs /\ memoryItems \in TableType
  BY <1>1 DEF DeleteLocked, At, HeapInv, CallInv, TypeOK, TableType
<1>3. ASSUME NEW l \in {"client", "free", "report"}, NEW v, Moves(t, l, v),
             UNCHANGED <<heap, memoryItems, proc>>
      PROVE  UNCHANGED Ledger!ledgerVars
  <2>1. \A b \in Addrs : SameBlock(b)
    BY <1>2, <1>3, QuietLedger
  <2> QED
    BY <1>3, <2>1, LedgerStutters
<1>4. CASE Return(t, Null, Null) /\ UNCHANGED <<libc, tables, proc>>
  <2>1. Moves(t, "client", NoLoc)
    BY <1>4 DEF Return, Moves
  <2> QED
    BY <1>3, <1>4, <2>1 DEF libc, tables
<1>5. CASE /\ Goto(t, "free", [NoLoc EXCEPT !.ptr = a])
           /\ UNCHANGED <<libc, tables, proc>>
  BY <1>3, <1>5 DEF Goto, Moves, libc, tables
<1>6. ASSUME NEW f, Report(t, item, a, Null, f),
             UNCHANGED <<libc, memoryItems, proc>>
      PROVE  UNCHANGED Ledger!ledgerVars
  <2>1. \E v : Moves(t, "report", v)
    BY <1>6 DEF Report, Goto, Moves
  <2> QED
    BY <1>3, <1>6, <2>1 DEF libc
<1>7. CASE Stop("assertFailed")
  BY <1>2, <1>7, StopLedger
<1>8. CASE /\ item.status = "Allocated"
           /\ memoryItems' = Struck(a, loc[t].trace)
           /\ Goto(t, "free", [NoLoc EXCEPT !.ptr = a])
           /\ UNCHANGED <<libc, proc>>
  <2>1. /\ memoryItems'[a].status = "Deallocated"
        /\ \A b \in Addrs : b # a => memoryItems'[b].status = memoryItems[b].status
    BY <1>2, <1>8 DEF Struck, TableType, SMemoryItem
  <2>2. /\ pc'[t] = "free"
        /\ \A u \in Threads : u # t => pc'[u] = pc[u] /\ loc'[u] = loc[u]
    BY <1>8, OthersStay DEF Goto, Moves
  <2>3. \A b \in Addrs : Live(b) <=> memoryItems[b].status = "Allocated"
    BY <1>2, ConstantsAssumption DEF Live, LockFree, LockDiscipline
  <2>4. \A b \in Addrs : Live(b)' <=> Live(b) /\ b # a
    BY <1>2, <2>1, <2>2, <2>3 DEF Live
  <2>5. \A b \in Addrs : Handed(b)' <=> Handed(b)
    BY <1>2, <2>2 DEF Handed
  <2>6. a \in heap /\ ~Handed(a)
    BY <1>2, <1>8, <2>3 DEF HeapInv, BlocksAgree, Handed, Owes
  <2>7. BlockState(a) = "live" /\ BlockState(a)' = "dying"
    BY <1>2, <1>8, <2>3, <2>4, <2>5, <2>6 DEF BlockState, Handed, libc
  <2>8. \A b \in Addrs : b # a => SameBlock(b)
    BY <1>8, <2>4, <2>5 DEF SameBlock, libc
  <2>9. Ledger!Move(a, "live", "dying")
    BY <1>2, <1>8, <2>7, <2>8, LedgerMoves
  <2> QED
    BY <1>2, <2>9 DEF Ledger!LedgerNext, Ledger!Strike
<1> QED
  BY <1>1, <1>4, <1>5, <1>6, <1>7, <1>8 DEF DeleteLocked, tables

LEMMA ReAllocLockedLedger ==
  ASSUME TypeOK, LockDiscipline, HeapInv, NEW t \in Threads, ReAllocLocked(t)
  PROVE  Ledger!LedgerNext \/ UNCHANGED Ledger!ledgerVars
<1>1. PICK a : a = loc[t].ptr
  OBVIOUS
<1> DEFINE item == memoryItems[a]
<1>2. /\ pc[t] = "realloc" /\ LockFree /\ proc = "running" /\ loc[t].res = Null
      /\ a \in Addrs /\ Null \notin Addrs /\ loc[t] \in Locals
  BY <1>1, ConstantsAssumption
     DEF ReAllocLocked, At, HeapInv, CallInv, TypeOK
<1>3. \A b \in Addrs : Live(b) <=> memoryItems[b].status = "Allocated"
  BY <1>2, ConstantsAssumption DEF Live, LockFree, LockDiscipline
<1>4. item.status = "Allocated" => a \in heap
  BY <1>2, <1>3 DEF HeapInv, BlocksAgree
<1>5. ASSUME NEW l \in {"client", "earlyRealloc", "report", "moved"}, NEW v,
             Moves(t, l, v), l = "moved" => v.res = Null,
             UNCHANGED <<heap, memoryItems, proc>>
      PROVE  UNCHANGED Ledger!ledgerVars
  <2>1. \A b \in Addrs : SameBlock(b)
    BY <1>2, <1>5, QuietLedger
  <2> QED
    BY <1>5, <2>1, LedgerStutters
<1>6. ASSUME NEW r, Return(t, r, "Malloc"), UNCHANGED <<libc, tables, proc>>
      PROVE  UNCHANGED Ledger!ledgerVars
  <2>1. Moves(t, "client", NoLoc)
    BY <1>6 DEF Return, Moves
  <2> QED
    BY <1>5, <1>6, <2>1 DEF libc, tables
<1>7. CASE /\ Goto(t, "earlyRealloc", [NoLoc EXCEPT !.ptr = a])
           /\ UNCHANGED <<libc, tables, proc>>
  BY <1>5, <1>7 DEF Goto, Moves, libc, tables
<1>8. ASSUME NEW f, Report(t, item, a, Null, f),
             UNCHANGED <<libc, tables, proc>>
      PROVE  UNCHANGED Ledger!ledgerVars
  <2>1. \E v : Moves(t, "report", v)
    BY <1>8 DEF Report, Goto, Moves
  <2> QED
    BY <1>5, <1>8, <2>1 DEF libc, tables
<1>9. CASE /\ pc' = [pc EXCEPT ![t] = "moved"] /\ loc' = loc
           /\ UNCHANGED <<libc, tables, proc>>
  <2>1. Moves(t, "moved", loc[t])
    BY <1>9 DEF Moves, TypeOK
  <2> QED
    BY <1>2, <1>5, <1>9, <2>1 DEF libc, tables
<1>10. ASSUME item.status = "Allocated", NEW r \in FreshAddrs,
              heap' = (heap \ {a}) \union {r},
              Goto(t, "moved", [loc[t] EXCEPT !.res = r]),
              UNCHANGED <<tables, proc>>
       PROVE  Ledger!LedgerNext
  <2> DEFINE v == [loc[t] EXCEPT !.res = r]
  <2>1. Moves(t, "moved", v) /\ v.res = r /\ v.ptr = a
    BY <1>1, <1>2, <1>10 DEF Goto, Moves, Locals
  <2> HIDE DEF v
  <2>2. /\ pc'[t] = "moved" /\ loc'[t].res = r /\ loc'[t].ptr = a
        /\ \A u \in Threads : u # t => pc'[u] = pc[u] /\ loc'[u] = loc[u]
    BY <2>1, OthersStay
  <2>3. r \in Addrs /\ r \notin heap /\ r # Null /\ r # a
    BY <1>2, <1>4, <1>10 DEF FreshAddrs, HeapInv
  <2>4. ~Live(r) /\ Live(a)
    BY <1>2, <1>3, <1>10, <2>3 DEF HeapInv, BlocksAgree
  <2>5. \A b \in Addrs : Live(b)' <=> Live(b) /\ b # a
    BY <1>2, <1>10, <2>2, <2>3 DEF Live, tables
  <2>6. Handed(r)' /\ \A b \in Addrs : b # r => (Handed(b)' <=> Handed(b))
    BY <1>2, <2>2 DEF Handed
  <2>7. /\ BlockState(a) = "live" /\ BlockState(a)' = "free"
        /\ BlockState(r) = "free" /\ BlockState(r)' = "handed"
    BY <1>2, <1>10, <2>3, <2>4, <2>5, <2>6 DEF BlockState, Handed
  <2>8. \A b \in Addrs : b # a /\ b # r => SameBlock(b)
    BY <1>10, <2>5, <2>6 DEF SameBlock
  <2>9. Ledger!Exchange(a, r)
    BY <1>2, <1>10, <2>3, <2>7, <2>8, LedgerExchanges
  <2> QED
    BY <1>2, <2>3, <2>9 DEF Ledger!LedgerNext
<1> QED
  BY <1>1, <1>4, <1>6, <1>7, <1>8, <1>9, <1>10
     DEF ReAllocLocked, libc, tables

\* Without blocks older than the tables no realloc goes past them.
LEMMA EarlyReAllocLedger ==
  ASSUME Early = {}, HeapInv, NEW t \in Threads, EarlyReAlloc(t)
  PROVE  FALSE
BY DEF EarlyReAlloc, At, HeapInv, CallInv, Sole, Claims

LEMMA CallLedger ==
  ASSUME TypeOK, NEW t \in Threads, CallDelete(t) \/ CallReAlloc(t)
  PROVE  UNCHANGED Ledger!ledgerVars
<1>1. PICK a \in Addrs, ty \in MemoryType, l \in {"delete", "realloc"} :
        CallWith(t, a, ty, l)
  <2>1. CASE CallDelete(t)
    BY <2>1, ConstantsAssumption DEF CallDelete
  <2>2. CASE CallReAlloc(t)
    BY <2>2 DEF CallReAlloc, MemoryType
  <2> QED
    BY <2>1, <2>2
<1>2. /\ \E v : Moves(t, l, v)
      /\ pc[t] = "client" /\ UNCHANGED <<heap, memoryItems, proc>>
  BY <1>1 DEF CallDelete, CallReAlloc, At, CallWith, Moves, libc, tables
<1>3. \A b \in Addrs : SameBlock(b)
  BY <1>2, QuietLedger
<1> QED
  BY <1>2, <1>3, LedgerStutters

LEMMA CallClbkLedger ==
  ASSUME TypeOK, NEW t \in Threads, CallClbk(t)
  PROVE  Ledger!LedgerNext \/ UNCHANGED Ledger!ledgerVars
<1>1. /\ pc[t] = "report" /\ proc = "running" /\ UNCHANGED <<heap, memoryItems>>
      /\ proc' \in {"running", "exited"}
  BY DEF CallClbk, At, libc, tables
<1>2. Moves(t, "report", loc[t]) \/ Moves(t, "callback", loc[t])
  BY <1>1 DEF CallClbk, Moves, TypeOK
<1>3. \A a \in Addrs : SameBlock(a)
  BY <1>1, <1>2, QuietLedger
<1> QED
  BY <1>1, <1>3, LedgerStutters, LedgerEnds DEF Ledger!LedgerNext

LEMMA EndClbkLedger ==
  ASSUME Declines, TypeOK, NEW t \in Threads, EndClbk(t)
  PROVE  Ledger!LedgerNext \/ UNCHANGED Ledger!ledgerVars
<1>1. pc[t] = "callback" /\ proc = "running"
  BY DEF EndClbk, At
<1>2. CASE Stop("exited") \/ Stop("traceFreedTwice")
  BY <1>1, <1>2, StopLedger
<1>3. CASE Answer(t) /\ UNCHANGED <<libc, tables, proc>>
  <2>1. Moves(t, "client", NoLoc)
    BY <1>3 DEF Answer, Return, Moves
  <2>2. \A a \in Addrs : SameBlock(a)
    BY <1>1, <1>3, <2>1, QuietLedger DEF libc, tables
  <2> QED
    BY <1>3, <2>2, LedgerStutters
<1> QED
  BY <1>2, <1>3 DEF EndClbk, Declines

\* The end of the program moves no block.
LEMMA DestroyLedger ==
  ASSUME Destroy
  PROVE  Ledger!LedgerNext
<1> proc = "running"
  BY DEF Destroy
<1>1. CASE Stop("traceFreedTwice")
  BY <1>1, StopLedger
<1>2. CASE proc' = "finished" /\ UNCHANGED <<libc, tables, pc, loc, ghosts>>
  <2>1. \A a \in Addrs : SameBlock(a)
    BY <1>2 DEF SameBlock, Live, Handed, libc, tables
  <2> QED
    BY <1>2, <2>1, LedgerEnds DEF Ledger!LedgerNext
<1> QED
  BY <1>1, <1>2 DEF Destroy

LEMMA InitLedger == ASSUME Init, Early = {} PROVE Ledger!LedgerInit
BY DEF Init, Ledger!LedgerInit, BlockState, Live, NoItem

LEMMA NextLedger ==
  ASSUME Declines, Early = {}, TypeOK, LockDiscipline, HeapInv, [Next]_vars
  PROVE  [Ledger!LedgerNext]_(Ledger!ledgerVars)
<1>1. CASE UNCHANGED vars \/ SetMaxAllowedAllocInTheSameStack \/ ReplaceFailureClbk
  <2>1. \A a \in Addrs : SameBlock(a)
    BY <1>1 DEF vars, SetMaxAllowedAllocInTheSameStack, ReplaceFailureClbk, libc,
                tables, SameBlock, Live, Handed
  <2>2. proc' = proc
    BY <1>1 DEF vars, SetMaxAllowedAllocInTheSameStack, ReplaceFailureClbk
  <2> QED
    BY <2>1, <2>2, LedgerStutters
<1>2. ASSUME NEW t \in Threads, LibraryStep(t)
      PROVE  Ledger!LedgerNext \/ UNCHANGED Ledger!ledgerVars
  BY <1>2, RegisterLedger, DeleteLockedLedger, FreeLedger, ReAllocLockedLedger,
     EarlyReAllocLedger, CallClbkLedger DEF LibraryStep
<1>3. ASSUME NEW t \in Threads, ProgramStep(t)
      PROVE  Ledger!LedgerNext \/ UNCHANGED Ledger!ledgerVars
  <2>1. ~NestedCall(t)
    BY DEF NestedCall, Declines
  <2> QED
    BY <1>3, <2>1, CallAllocLedger, CallLedger, EndClbkLedger DEF ProgramStep
<1> QED
  BY <1>1, <1>2, <1>3, DestroyLedger DEF Next

-----------------------------------------------------------------------------
(* When no block is older than the tables and no pointer is invented, the      *)
(* table knows every block the client was ever given, so the client cannot     *)
(* stray.                                                                      *)

AllKnown == ~strayed /\ \A a \in given \ Pool : ~Unknown(memoryItems[a])

\* An entry of the table is never taken out.
LEMMA KnownStays ==
  ASSUME TypeOK, [Next]_vars, NEW a \in Addrs, ~Unknown(memoryItems[a])
  PROVE  ~Unknown(memoryItems'[a])
<1>1. ASSUME NEW t \in Threads, NEW x, NEW tr, memoryItems' = Struck(x, tr)
      PROVE  ~Unknown(memoryItems'[a])
  BY <1>1 DEF Struck, Unknown, TypeOK
<1>2. ASSUME NEW t \in Threads, NEW table, NEW stk, AddNewNoLock(t, table, stk),
             \/ table = memoryItems
             \/ \E x, tr : table = Struck(x, tr)
      PROVE  ~Unknown(memoryItems'[a])
  <2>1. UNCHANGED memoryItems \/ \E item : /\ item.status = "Allocated"
                                        /\ memoryItems' = Entered(table, loc[t].res, item)
    BY <1>2 DEF AddNewNoLock, Stop, tables
  <2>2. memoryItems \in [Addrs \union {Null} -> SMemoryItem] /\ memoryItems[a] \in SMemoryItem
    BY DEF TypeOK
  <2>3. ASSUME NEW x, NEW tr, table = Struck(x, tr)
        PROVE  ~Unknown(table[a]) /\ a \in DOMAIN table
    BY <2>2, <2>3 DEF Struck, Unknown, SMemoryItem
  <2>4. ~Unknown(table[a]) /\ a \in DOMAIN table
    BY <1>2, <2>2, <2>3
  <2> QED
    BY <2>1, <2>4 DEF Entered, Unknown
<1>3. ASSUME NEW t \in Threads, LibraryStep(t)
      PROVE  ~Unknown(memoryItems'[a])
  <2>1. CASE Register(t) \/ ReAllocMoved(t)
    BY <1>2, <2>1 DEF Register, ReAllocMoved, Stop, tables
  <2>2. CASE DeleteLocked(t)
    BY <1>1, <2>2 DEF DeleteLocked, Stop, tables
  <2>3. CASE Free(t) \/ ReAllocLocked(t) \/ EarlyReAlloc(t) \/ CallClbk(t)
    BY <2>3 DEF Free, ReAllocLocked, EarlyReAlloc, CallClbk, Stop, tables
  <2> QED
    BY <1>3, <2>1, <2>2, <2>3 DEF LibraryStep
<1>4. ASSUME NEW t \in Threads, ProgramStep(t)
      PROVE  UNCHANGED memoryItems
  BY <1>4 DEF ProgramStep, CallAlloc, CallDelete, CallReAlloc, CallWith, EndClbk,
     NestedCall, Stop, tables
<1> QED
  BY <1>3, <1>4 DEF Next, vars, SetMaxAllowedAllocInTheSameStack,
     ReplaceFailureClbk, Destroy, Stop, tables

\* What a step of the thread may add to what the client was given.
Gives ==
  /\ strayed' = strayed
  /\ \A a \in given' \ given : a \in Pool \/ ~Unknown(memoryItems'[a])

\* A registration gives the client the block it enters.
LEMMA AddNewGives ==
  ASSUME NEW t \in Threads, NEW table, NEW stk, AddNewNoLock(t, table, stk),
         loc[t].res \in DOMAIN table
  PROVE  Gives
<1>1. ASSUME NEW how, Stop(how)
      PROVE  Gives
  BY <1>1 DEF Stop, ghosts, Gives
<1>2. ASSUME NEW item, item.status = "Allocated",
             memoryItems' = Entered(table, loc[t].res, item),
             strayed' = strayed, given' \subseteq given \union {loc[t].res}
      PROVE  Gives
  BY <1>2 DEF Entered, Unknown, Gives
<1>3. CASE \E how : Stop(how)
  BY <1>1, <1>3
<1>4. CASE ~\E how : Stop(how)
  <2> DEFINE item == [type |-> loc[t].type, status |-> "Allocated",
                      alloc |-> loc[t].trace, dealloc |-> Null]
  <2>1. item.status = "Allocated"
    OBVIOUS
  <2>2. memoryItems' = Entered(table, loc[t].res, item)
    BY <1>4 DEF AddNewNoLock
  <2>3. strayed' = strayed /\ given' \subseteq given \union {loc[t].res}
    BY <1>4 DEF AddNewNoLock, Return, Report, Goto, ghosts
  <2> QED
    BY <1>2, <2>1, <2>2, <2>3
<1> QED
  BY <1>3, <1>4

\* What a library step hands to the client is a block of the table or of the pool.
LEMMA LibraryGives ==
  ASSUME Early = {}, TypeOK, HeapInv, NEW t \in Threads, LibraryStep(t)
  PROVE  Gives
<1>1. /\ loc[t].res \in DOMAIN memoryItems
      /\ \A x, tr : DOMAIN Struck(x, tr) = DOMAIN memoryItems
  BY DEF TypeOK, Locals, Struck
<1>2. CASE Register(t)
  BY <1>1, <1>2, AddNewGives DEF Register
<1>3. CASE ReAllocMoved(t)
  <2>1. CASE Stop("assertFailed")
    BY <2>1 DEF Stop, ghosts, Gives
  <2>2. CASE \E stk : AddNewNoLock(t, Struck(loc[t].ptr, Null), stk)
    <3>1. loc[t].res \in DOMAIN Struck(loc[t].ptr, Null)
      BY <1>1
    <3> QED
      BY <2>2, <3>1, AddNewGives
  <2> QED
    BY <1>3, <2>1, <2>2 DEF ReAllocMoved
<1>4. CASE DeleteLocked(t) \/ Free(t) \/ ReAllocLocked(t) \/ CallClbk(t)
  <2>1. ASSUME NEW r, NEW ty, Return(t, r, ty)
        PROVE  /\ strayed' = strayed /\ given' \subseteq given \union {r}
               /\ r = Null => given' = given
    BY <2>1 DEF Return
  <2>2. \/ UNCHANGED <<given, strayed>>
        \/ \E r, ty : Return(t, r, ty) /\ (r = Null \/ r \in Pool)
        \/ /\ \E ty : Return(t, loc[t].ptr, ty)
           /\ UNCHANGED memoryItems /\ ~Unknown(memoryItems[loc[t].ptr])
    <3>1. CASE DeleteLocked(t)
      BY <3>1 DEF DeleteLocked, Stop, Report, Goto, ghosts
    <3>2. CASE Free(t) \/ CallClbk(t)
      BY <3>2 DEF Free, CallClbk, Stop, ghosts
    <3>3. CASE ReAllocLocked(t)
      BY <3>3 DEF ReAllocLocked, Stop, Report, Goto, ghosts, tables, Unknown
    <3> QED
      BY <1>4, <3>1, <3>2, <3>3
  <2> QED
    BY <2>1, <2>2 DEF Gives
<1>5. ~EarlyReAlloc(t)
  BY EarlyReAllocLedger
<1> QED
  BY <1>2, <1>3, <1>4, <1>5 DEF LibraryStep

LEMMA NextKnown ==
  ASSUME Declines, Early = {}, "wild" \notin Misuse, TypeOK, HeapInv, AllKnown,
         [Next]_vars
  PROVE  AllKnown'
<1>1. \A a \in given \ Pool : ~Unknown(memoryItems'[a])
  BY KnownStays DEF AllKnown, TypeOK
<1>2. ASSUME NEW t \in Threads, NEW a \in Addrs, NEW ty, NEW l, Passes(a, ty),
             CallWith(t, a, ty, l)
      PROVE  given' = given /\ ~strayed'
  BY <1>2 DEF CallWith, Passes, AllKnown
<1>3. ASSUME NEW t \in Threads, ProgramStep(t)
      PROVE  AllKnown'
  <2>1. CASE CallDelete(t) \/ CallReAlloc(t)
    BY <1>1, <1>2, <2>1 DEF CallDelete, CallReAlloc, AllKnown
  <2>4. CASE CallAlloc(t)
    BY <1>1, <2>4 DEF CallAlloc, Goto, ghosts, AllKnown
  <2>2. CASE EndClbk(t)
    <3>1. CASE \E how : Stop(how)
      BY <1>1, <3>1 DEF Stop, ghosts, AllKnown
    <3>2. CASE Answer(t) /\ UNCHANGED tables
      <4>1. loc[t].res # Null => ~Unknown(memoryItems'[loc[t].res])
        BY <2>2, <3>2 DEF EndClbk, At, HeapInv, CallInv, tables
      <4> QED
        BY <1>1, <3>2, <4>1 DEF Answer, Return, AllKnown
    <3> QED
      BY <2>2, <3>1, <3>2 DEF EndClbk, Declines, tables
  <2>3. ~NestedCall(t)
    BY DEF NestedCall, Declines
  <2> QED
    BY <1>3, <2>1, <2>2, <2>3, <2>4 DEF ProgramStep
<1>4. ASSUME NEW t \in Threads, LibraryStep(t)
      PROVE  AllKnown'
  BY <1>1, <1>4, LibraryGives DEF AllKnown, Gives
<1> QED
  BY <1>1, <1>3, <1>4 DEF Next, vars, SetMaxAllowedAllocInTheSameStack,
     ReplaceFailureClbk, Destroy, Stop, ghosts, AllKnown

-----------------------------------------------------------------------------
\* AllocAnalyze implements the safety part of AllocLedger: every block goes
\* through libc, the registration, the table and the final free in this order,
\* whatever block of its past the program passes again and from however many
\* threads.  (That a struck block is given back is checked by TLC.)
THEOREM LedgerImplemented ==
  ASSUME Declines, Early = {}, "wild" \notin Misuse
  PROVE  Spec => Ledger!LedgerSafety
<1>1. Init => TypeOK /\ LockDiscipline /\ HeapInv /\ AllKnown /\ Ledger!LedgerInit
  BY InitType, InitLock, InitHeap, InitLedger DEF Init, AllKnown
<1>2. TypeOK /\ LockDiscipline /\ HeapInv /\ AllKnown /\ [Next]_vars =>
        TypeOK' /\ LockDiscipline' /\ HeapInv' /\ AllKnown'
  BY NextType, NextLock, NextHeap, NextKnown DEF AllKnown
<1>3. TypeOK /\ LockDiscipline /\ HeapInv /\ AllKnown /\ [Next]_vars =>
        [Ledger!LedgerNext]_(Ledger!ledgerVars)
  BY NextLedger, NextKnown DEF AllKnown
<1> QED
  BY <1>1, <1>2, <1>3, PTL DEF Spec, Ledger!LedgerSafety

=============================================================================
