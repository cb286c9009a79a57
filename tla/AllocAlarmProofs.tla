--------------------------- MODULE AllocAlarmProofs ---------------------------
(* A program that gives every block back once, with the right routine, is      *)
(* accused of a leak at most.                                                  *)
EXTENDS AllocAnalyzeProofs

\* Beyond Declines: every block the client starts with is the pool's, and libc does
\* not run out of memory (a failing realloc retires the old block).
NoExcuse == Declines /\ Early = {} /\ ~CanFail

Leak == "PossibilityOfMemoryLeak"

-----------------------------------------------------------------------------
(* The invariant.  As long as the program is correct, somebody has the right   *)
(* to a block: the client, or one call that the client gave it to or that will *)
(* give it to the client; and the table has that block with its routine.       *)

Right(t, a) ==
  \/ pc[t] \in {"delete", "realloc"} /\ loc[t].ptr = a
  \/ pc[t] \in {"report", "callback"} /\ loc[t].res = a

\* The table has the block a from the routine ty, and no realloc retires it.
Registered(a, ty) ==
  /\ memoryItems[a].status = "Allocated" /\ memoryItems[a].type = ty
  /\ \A t \in Threads : pc[t] = "moved" => loc[t].ptr # a

RightInv ==
  \A a \in Addrs \ Pool :
    /\ held[a] # Null => Registered(a, held[a]) /\ \A t \in Threads : ~Right(t, a)
    /\ \A t \in Threads :
         Right(t, a) => /\ Registered(a, loc[t].type) /\ held[a] = Null
                        /\ \A u \in Threads : Right(u, a) => u = t

\* Calls of a correct program.
Correct ==
  \A t \in Threads :
    /\ pc[t] # "earlyRealloc"
    /\ pc[t] = "realloc" => loc[t].type = "Malloc"
    /\ pc[t] \in {"report", "callback"} => loc[t].failure = Leak

\* The tables never see a block of the pool.
PoolUnseen ==
  /\ \A a \in Pool : Unknown(memoryItems[a])
  /\ \A t \in Threads : pc[t] \in {"register", "moved"} => loc[t].res \notin Pool

AlarmInv == PoolUnseen /\ (~misused => RightInv /\ Correct)

\* A registered block is live, so no call is between libc and the table with it.
LEMMA RegisteredIsLive ==
  ASSUME HeapInv, NEW a \in Addrs, NEW ty, Registered(a, ty)
  PROVE  a \in heap /\ \A t \in Threads : ~Owes(t, a)
BY DEF HeapInv, BlocksAgree, Live, Registered

-----------------------------------------------------------------------------
(* The steps. *)

\* A step of one thread that changes neither the table nor the rights.
LEMMA SameRights ==
  ASSUME TypeOK, AlarmInv, NEW t \in Threads, NEW l, NEW v, Moves(t, l, v),
         UNCHANGED <<memoryItems, misused>>, \A a \in Addrs : held'[a] = held[a],
         l \notin {"moved", "earlyRealloc", "delete", "realloc"},
         pc[t] \notin {"delete", "realloc"},
         l = "register" => v.res \notin Pool,
         l \in {"report", "callback"} =>
           pc[t] \in {"report", "callback"} /\ v = loc[t],
         pc[t] \in {"report", "callback"} => l \in {"report", "callback"}
  PROVE  AlarmInv'
<1>1. /\ pc'[t] = l /\ loc'[t] = v
      /\ \A u \in Threads : u # t => pc'[u] = pc[u] /\ loc'[u] = loc[u]
  BY OthersStay
<1>2. PoolUnseen'
  BY <1>1 DEF AlarmInv, PoolUnseen, Unknown
<1>3. ASSUME ~misused
      PROVE  RightInv' /\ Correct'
  <2>1. \A a \in Addrs, u \in Threads :
          (Right(u, a)' <=> Right(u, a)) /\ (Right(u, a) => loc'[u] = loc[u])
    BY <1>1 DEF Right
  <2>2. \A a \in Addrs : \A ty : Registered(a, ty) => Registered(a, ty)'
    BY <1>1 DEF Registered
  <2>3. RightInv'
    BY <1>3, <2>1, <2>2 DEF AlarmInv, RightInv
  <2>4. Correct'
    BY <1>1, <1>3 DEF AlarmInv, Correct
  <2> QED
    BY <2>3, <2>4
<1> QED
  BY <1>2, <1>3 DEF AlarmInv

\* A step of the process that moves no thread.
LEMMA StillAlarm ==
  ASSUME AlarmInv, UNCHANGED <<memoryItems, pc, loc, held, misused>>
  PROVE  AlarmInv'
BY DEF AlarmInv, PoolUnseen, RightInv, Correct, Registered, Right, Unknown

LEMMA CallAllocAlarm ==
  ASSUME TypeOK, AlarmInv, NEW t \in Threads, CallAlloc(t)
  PROVE  AlarmInv'
<1> DEFINE v(a, ty, tr) == [NoLoc EXCEPT !.res = a, !.type = ty, !.trace = tr]
<1>1. PICK a \in FreshAddrs, tr \in FreshTraces, ty \in Types :
        Goto(t, "register", v(a, ty, tr))
  BY DEF CallAlloc
<1>2. v(a, ty, tr).res = a /\ a \notin Pool
  BY DEF NoLoc, FreshAddrs
<1> HIDE DEF v
<1>3. Moves(t, "register", v(a, ty, tr)) /\ held' = held /\ misused' = misused
  BY <1>1 DEF Goto, Moves, ghosts
<1>4. pc[t] = "client" /\ memoryItems' = memoryItems
  BY DEF CallAlloc, At, tables
<1> QED
  BY <1>2, <1>3, <1>4, SameRights

\* The client gives a block back, and the call has the right to it; unless it
\* misuses the block, and is correct no longer.
LEMMA CallWithAlarm ==
  ASSUME TypeOK, AlarmInv, NEW t \in Threads, pc[t] = "client",
         NEW a \in Addrs, NEW ty \in MemoryType, NEW l \in {"delete", "realloc"},
         l = "realloc" => ty = "Malloc", CallWith(t, a, ty, l)
  PROVE  AlarmInv'
<1> DEFINE v(tr) == [NoLoc EXCEPT !.ptr = a, !.type = ty, !.trace = tr]
<1>1. PICK tr \in FreshTraces :
        /\ pc' = [pc EXCEPT ![t] = l] /\ loc' = [loc EXCEPT ![t] = v(tr)]
        /\ memoryItems' = memoryItems
        /\ IF held[a] = ty
           THEN held' = [held EXCEPT ![a] = Null] /\ misused' = misused
           ELSE misused' = TRUE
  BY DEF CallWith, tables
<1>2. v(tr).ptr = a /\ v(tr).type = ty
  BY DEF NoLoc
<1> HIDE DEF v
<1>3. /\ pc'[t] = l /\ loc'[t] = v(tr)
      /\ \A u \in Threads : u # t => pc'[u] = pc[u] /\ loc'[u] = loc[u]
  BY <1>1, OthersStay DEF Moves
<1>4. PoolUnseen'
  BY <1>1, <1>3 DEF AlarmInv, PoolUnseen, Unknown
<1>5. ASSUME ~misused'
      PROVE  RightInv' /\ Correct'
  <2>1. /\ held[a] = ty /\ ty # Null /\ ~misused
        /\ \A b \in Addrs : held'[b] = IF b = a THEN Null ELSE held[b]
    BY <1>1, <1>5, ConstantsAssumption DEF TypeOK
  <2>2. \A b \in Addrs, u \in Threads :
          /\ u # t => (Right(u, b)' <=> Right(u, b))
          /\ Right(t, b)' <=> b = a
          /\ ~Right(t, b)
    BY <1>2, <1>3 DEF Right
  <2>3. \A b \in Addrs : \A x : Registered(b, x) => Registered(b, x)'
    BY <1>1, <1>3 DEF Registered
  <2>4. RightInv /\ Correct
    BY <2>1 DEF AlarmInv
  <2>5. ASSUME NEW b \in Addrs \ Pool, held'[b] # Null
        PROVE  Registered(b, held[b])' /\ \A u \in Threads : ~Right(u, b)'
    BY <2>1, <2>2, <2>3, <2>4, <2>5 DEF RightInv
  <2>6. ASSUME NEW b \in Addrs \ Pool, NEW u \in Threads, Right(u, b)'
        PROVE  /\ Registered(b, loc[u].type)' /\ held'[b] = Null
               /\ \A w \in Threads : Right(w, b)' => w = u
    <3>1. CASE u = t
      BY <1>2, <1>3, <2>1, <2>2, <2>3, <2>4, <2>6, <3>1 DEF RightInv
    <3>2. CASE u # t
      BY <1>3, <2>1, <2>2, <2>3, <2>4, <2>6, <3>2 DEF RightInv
    <3> QED
      BY <3>1, <3>2
  <2>7. RightInv'
    BY <2>5, <2>6 DEF RightInv
  <2>8. Correct'
    BY <1>2, <1>3, <2>4 DEF Correct
  <2> QED
    BY <2>7, <2>8
<1> QED
  BY <1>4, <1>5 DEF AlarmInv

LEMMA PoolStep ==
  ASSUME TypeOK, AlarmInv, NEW t \in Threads, NEW l, NEW v, Moves(t, l, v),
         l \in {"register", "moved"} => v.res \notin Pool,
         \A b \in Pool : memoryItems'[b] = memoryItems[b]
  PROVE  PoolUnseen'
BY OthersStay DEF AlarmInv, PoolUnseen, Unknown

\* A call gives up its right to its block, without giving the block to the client.
LEMMA DropRights ==
  ASSUME TypeOK, AlarmInv, ~misused, NEW t \in Threads, pc[t] \in {"delete", "realloc"},
         NEW l \in {"client", "free", "moved"}, NEW v, Moves(t, l, v),
         l = "moved" => v.ptr = loc[t].ptr,
         \A b \in Addrs \ Pool : held'[b] = held[b],
         \A b \in Addrs \ (Pool \union {loc[t].ptr}) : memoryItems'[b] = memoryItems[b]
  PROVE  RightInv' /\ Correct'
<1> DEFINE a == loc[t].ptr
<1>1. /\ pc'[t] = l /\ loc'[t] = v
      /\ \A u \in Threads : u # t => pc'[u] = pc[u] /\ loc'[u] = loc[u]
  BY OthersStay
<1>2. RightInv /\ Correct
  BY DEF AlarmInv
<1>3. \A b \in Addrs, u \in Threads :
        /\ u # t => (Right(u, b)' <=> Right(u, b))
        /\ ~Right(t, b)'
  BY <1>1 DEF Right
<1>4. \A b \in Addrs \ (Pool \union {a}) : \A ty :
        Registered(b, ty) => Registered(b, ty)'
  BY <1>1 DEF Registered
<1>5. a \in Addrs \ Pool => held[a] = Null /\ \A u \in Threads : u # t => ~Right(u, a)
  BY <1>2 DEF RightInv, Right
<1>6. RightInv'
  <2>1. ASSUME NEW b \in Addrs \ Pool, held'[b] # Null
        PROVE  Registered(b, held[b])' /\ \A u \in Threads : ~Right(u, b)'
    BY <1>2, <1>3, <1>4, <1>5, <2>1 DEF RightInv
  <2>2. ASSUME NEW b \in Addrs \ Pool, NEW u \in Threads, Right(u, b)'
        PROVE  /\ Registered(b, loc[u].type)' /\ held'[b] = Null
               /\ \A w \in Threads : Right(w, b)' => w = u
    BY <1>1, <1>2, <1>3, <1>4, <1>5, <2>2 DEF RightInv
  <2> QED
    BY <2>1, <2>2 DEF RightInv
<1>7. Correct'
  BY <1>1, <1>2 DEF Correct
<1> QED
  BY <1>6, <1>7

\* A call gives the client the block it had the right to.
LEMMA ReturnRight ==
  ASSUME TypeOK, AlarmInv, ~misused, NEW t \in Threads, NEW r,
         \A b \in Addrs : Right(t, b) <=> b = r,
         Return(t, r, loc[t].type), UNCHANGED memoryItems
  PROVE  RightInv' /\ Correct'
<1>1. /\ pc'[t] = "client"
      /\ \A u \in Threads : u # t => pc'[u] = pc[u] /\ loc'[u] = loc[u]
      /\ \A b \in Addrs : held'[b] = IF b = r THEN loc[t].type ELSE held[b]
  BY DEF Return, TypeOK
<1>2. RightInv /\ Correct
  BY DEF AlarmInv
<1>3. \A b \in Addrs, u \in Threads :
        /\ u # t => (Right(u, b)' <=> Right(u, b))
        /\ ~Right(t, b)'
  BY <1>1 DEF Right
<1>4. \A b \in Addrs : \A ty : Registered(b, ty) => Registered(b, ty)'
  BY <1>1 DEF Registered
<1>5. RightInv'
  <2>1. ASSUME NEW b \in Addrs \ Pool, held'[b] # Null
        PROVE  Registered(b, held[b])' /\ \A u \in Threads : ~Right(u, b)'
    <3>1. CASE b = r
      BY <1>1, <1>2, <1>3, <1>4, <3>1 DEF RightInv
    <3>2. CASE b # r
      BY <1>1, <1>2, <1>3, <1>4, <2>1, <3>2 DEF RightInv
    <3> QED
      BY <3>1, <3>2
  <2>2. ASSUME NEW b \in Addrs \ Pool, NEW u \in Threads, Right(u, b)'
        PROVE  /\ Registered(b, loc[u].type)' /\ held'[b] = Null
               /\ \A w \in Threads : Right(w, b)' => w = u
    <3>1. u # t /\ Right(u, b)
      BY <1>3, <2>2
    <3>2. b # r
      BY <1>2, <3>1 DEF RightInv
    <3> QED
      BY <1>1, <1>2, <1>3, <1>4, <3>1, <3>2 DEF RightInv
  <2> QED
    BY <2>1, <2>2 DEF RightInv
<1>6. Correct'
  BY <1>1, <1>2 DEF Correct
<1> QED
  BY <1>5, <1>6

\* What a correct call finds under the lock: its block, from its routine, or one of
\* the pool's.
LEMMA RightFinds ==
  ASSUME AlarmInv, ~misused, NEW t \in Threads, pc[t] \in {"delete", "realloc"},
         NEW a \in Addrs, a = loc[t].ptr
  PROVE  \/ a \in Pool /\ Unknown(memoryItems[a])
         \/ /\ a \notin Pool /\ memoryItems[a].status = "Allocated"
            /\ memoryItems[a].type = loc[t].type
BY DEF AlarmInv, PoolUnseen, RightInv, Right, Registered

LEMMA DeleteLockedAlarm ==
  ASSUME TypeOK, HeapInv, AlarmInv, NEW t \in Threads, DeleteLocked(t)
  PROVE  AlarmInv'
<1> DEFINE a    == loc[t].ptr
           item == memoryItems[a]
<1>1. pc[t] = "delete" /\ a \in Addrs /\ Null \notin Addrs
  BY ConstantsAssumption DEF DeleteLocked, At, HeapInv, CallInv
<1>2. CASE \E how : Stop(how)
  BY <1>2, StillAlarm DEF Stop, tables, ghosts
<1>3. ASSUME NEW l \in {"client", "free"}, NEW v, Moves(t, l, v),
             \A b \in Addrs : held'[b] = held[b], misused' = misused,
             \/ memoryItems' = memoryItems
             \/ /\ item.status = "Allocated"
                /\ \A b \in Addrs \ {a} : memoryItems'[b] = memoryItems[b]
      PROVE  AlarmInv'
  <2>1. \A b \in Pool : memoryItems'[b] = memoryItems[b]
    BY <1>3, ConstantsAssumption DEF AlarmInv, PoolUnseen, Unknown
  <2>2. PoolUnseen'
    BY <1>3, <2>1, PoolStep
  <2>3. ~misused => RightInv' /\ Correct'
    BY <1>1, <1>3, DropRights
  <2> QED
    BY <1>3, <2>2, <2>3 DEF AlarmInv
<1>4. CASE Return(t, Null, Null) /\ UNCHANGED memoryItems
  <2>1. Moves(t, "client", NoLoc)
    BY <1>4 DEF Return, Moves
  <2> QED
    BY <1>1, <1>3, <1>4, <2>1 DEF Return
<1>5. CASE /\ Goto(t, "free", [NoLoc EXCEPT !.ptr = a])
           /\ \/ UNCHANGED memoryItems
              \/ item.status = "Allocated" /\ memoryItems' = Struck(a, loc[t].trace)
  <2>1. Moves(t, "free", [NoLoc EXCEPT !.ptr = a]) /\ held' = held /\ misused' = misused
    BY <1>5 DEF Goto, Moves, ghosts
  <2>2. \/ memoryItems' = memoryItems
        \/ /\ item.status = "Allocated"
           /\ \A b \in Addrs \ {a} : memoryItems'[b] = memoryItems[b]
    BY <1>5 DEF Struck, TypeOK
  <2> QED
    BY <1>3, <2>1, <2>2
<1>6. ASSUME NEW f, Report(t, item, a, Null, f), UNCHANGED memoryItems,
             \/ ~Unknown(item) /\ item.status # "Allocated"
             \/ item.status = "Allocated" /\ item.type # loc[t].type
      PROVE  AlarmInv'
  <2>1. misused
    BY <1>1, <1>6, RightFinds DEF Unknown
  <2> DEFINE v == [ptr |-> a, res |-> Null, type |-> loc[t].type,
                   trace |-> loc[t].trace, item |-> item, failure |-> f]
  <2>2. Moves(t, "report", v) /\ misused' = misused
    BY <1>6 DEF Report, Goto, Moves, ghosts
  <2> HIDE DEF v
  <2>3. PoolUnseen'
    BY <1>6, <2>2, PoolStep
  <2> QED
    BY <2>1, <2>2, <2>3 DEF AlarmInv
<1> QED
  BY <1>2, <1>4, <1>5, <1>6 DEF DeleteLocked, tables

LEMMA ReAllocLockedAlarm ==
  ASSUME ~CanFail, TypeOK, HeapInv, AlarmInv, NEW t \in Threads, ReAllocLocked(t)
  PROVE  AlarmInv'
<1> DEFINE a    == loc[t].ptr
           item == memoryItems[a]
<1>1. pc[t] = "realloc" /\ a \in Addrs /\ Null \notin Addrs
  BY ConstantsAssumption DEF ReAllocLocked, At, HeapInv, CallInv
<1>2. CASE \E how : Stop(how)
  BY <1>2, StillAlarm DEF Stop, tables, ghosts
<1>3. ~misused => loc[t].type = "Malloc"
  BY <1>1 DEF AlarmInv, Correct
<1>4. ASSUME misused, misused' = misused, memoryItems' = memoryItems,
             NEW l \in {"report", "earlyRealloc"}, NEW v, Moves(t, l, v)
      PROVE  AlarmInv'
  <2>1. PoolUnseen'
    BY <1>4, PoolStep
  <2> QED
    BY <1>4, <2>1 DEF AlarmInv
<1>5. ASSUME NEW r \in Pool \union {Null}, Return(t, r, "Malloc"),
             UNCHANGED memoryItems
      PROVE  AlarmInv'
  <2>1. /\ Moves(t, "client", NoLoc) /\ misused' = misused
        /\ \A b \in Addrs \ Pool : held'[b] = held[b]
    BY <1>1, <1>5 DEF Return, Moves
  <2>2. PoolUnseen'
    BY <1>5, <2>1, PoolStep
  <2>3. ~misused => RightInv' /\ Correct'
    BY <1>1, <1>5, <2>1, DropRights
  <2> QED
    BY <2>1, <2>2, <2>3 DEF AlarmInv
<1>6. CASE /\ Unknown(item) /\ ~OfPool(a) /\ UNCHANGED memoryItems
           /\ Goto(t, "earlyRealloc", [NoLoc EXCEPT !.ptr = a])
  <2>1. misused
    BY <1>1, <1>6, RightFinds DEF Unknown, OfPool
  <2>2. Moves(t, "earlyRealloc", [NoLoc EXCEPT !.ptr = a]) /\ misused' = misused
    BY <1>6 DEF Goto, Moves, ghosts
  <2> QED
    BY <1>4, <1>6, <2>1, <2>2
<1>7. ASSUME NEW f, Report(t, item, a, Null, f), UNCHANGED memoryItems, ~Unknown(item),
             item.type # "Malloc" \/ item.status # "Allocated"
      PROVE  AlarmInv'
  <2>1. misused
    BY <1>1, <1>3, <1>7, RightFinds DEF Unknown
  <2>2. /\ Moves(t, "report", [ptr |-> a, res |-> Null, type |-> loc[t].type,
                               trace |-> loc[t].trace, item |-> item, failure |-> f])
        /\ misused' = misused
    BY <1>7 DEF Report, Goto, Moves, ghosts
  <2> QED
    BY <1>4, <1>7, <2>1, <2>2
<1>8. CASE Return(t, a, "Malloc") /\ UNCHANGED memoryItems
  <2>1. Moves(t, "client", NoLoc) /\ misused' = misused
    BY <1>8 DEF Return, Moves
  <2>2. PoolUnseen'
    BY <1>8, <2>1, PoolStep
  <2>3. ~misused => RightInv' /\ Correct'
    BY <1>1, <1>3, <1>8, ReturnRight DEF Right
  <2> QED
    BY <2>1, <2>2, <2>3 DEF AlarmInv
<1>9. ASSUME NEW r \in FreshAddrs, Goto(t, "moved", [loc[t] EXCEPT !.res = r]),
             UNCHANGED memoryItems
      PROVE  AlarmInv'
  <2> DEFINE v == [loc[t] EXCEPT !.res = r]
  <2>1. /\ Moves(t, "moved", v) /\ held' = held /\ misused' = misused
        /\ v.ptr = a /\ v.res = r /\ r \notin Pool
    BY <1>9 DEF Goto, Moves, ghosts, FreshAddrs, TypeOK, Locals
  <2> HIDE DEF v
  <2>2. PoolUnseen'
    BY <1>9, <2>1, PoolStep
  <2>3. ~misused => RightInv' /\ Correct'
    BY <1>1, <1>9, <2>1, DropRights
  <2> QED
    BY <2>1, <2>2, <2>3 DEF AlarmInv
<1> QED
  BY <1>2, <1>5, <1>6, <1>7, <1>8, <1>9 DEF ReAllocLocked, tables

\* AddNewAllocatedMemoryAndCleanOldEntryNoLock: nobody had a right to the block, and
\* the client or the call that reports a leak gets it.
LEMMA AddNewAlarm ==
  ASSUME TypeOK, HeapInv, AlarmInv, NEW t \in Threads, pc[t] \in {"register", "moved"},
         \A u \in Threads \ {t} : pc[u] # "moved",
         NEW table \in TableType,
         \A b \in Addrs \union {Null} :
           table[b] # memoryItems[b] =>
             pc[t] = "moved" /\ b = loc[t].ptr /\ b \notin Pool,
         NEW stk, AddNewNoLock(t, table, stk)
  PROVE  AlarmInv'
<1> DEFINE new  == loc[t].res
           item == [type |-> loc[t].type, status |-> "Allocated",
                    alloc |-> loc[t].trace, dealloc |-> Null]
           v    == [ptr |-> new, res |-> new, type |-> loc[t].type,
                    trace |-> loc[t].trace, item |-> item, failure |-> Leak]
<1>1. CASE \E how : Stop(how)
  BY <1>1, StillAlarm DEF Stop, tables, ghosts
<1>2. new \in Addrs \union {Null} /\ new \notin Pool
  BY DEF TypeOK, Locals, AlarmInv, PoolUnseen
<1>3. CASE /\ memoryItems' = Entered(table, new, item)
           /\ \/ Return(t, new, loc[t].type)
              \/ Report(t, item, new, new, Leak)
  <2>1. /\ item.type = loc[t].type /\ item.status = "Allocated"
        /\ v.res = new /\ v.type = loc[t].type /\ v.failure = Leak
    OBVIOUS
  <2> HIDE DEF item, v
  <2>2. /\ memoryItems'[new] = item
        /\ \A b \in Addrs \union {Null} : b # new => memoryItems'[b] = table[b]
    BY <1>2, <1>3 DEF Entered, TableType
  <2>3. PICK l, w :
          /\ Moves(t, l, w) /\ misused' = misused
          /\ \A b \in Addrs : b # new => held'[b] = held[b]
          /\ \/ /\ l = "client"
                /\ \A b \in Addrs : b = new => held'[b] = loc[t].type
             \/ l = "report" /\ w = v /\ held' = held
    <3>1. CASE Return(t, new, loc[t].type)
      BY <3>1 DEF Return, Moves
    <3>2. CASE Report(t, item, new, new, Leak)
      BY <3>2 DEF Report, Goto, Moves, ghosts, v
    <3> QED
      BY <1>3, <3>1, <3>2
  <2>4. /\ pc'[t] = l /\ loc'[t] = w
        /\ \A u \in Threads : u # t => pc'[u] = pc[u] /\ loc'[u] = loc[u]
    BY <2>3, OthersStay
  <2>5. PoolUnseen'
    <3>1. \A b \in Pool : memoryItems'[b] = memoryItems[b]
      BY <1>2, <2>2, ConstantsAssumption
    <3> QED
      BY <2>3, <3>1, PoolStep
  <2>6. ASSUME ~misused
        PROVE  RightInv' /\ Correct'
    <3>1. RightInv /\ Correct
      BY <2>6 DEF AlarmInv
    <3>2. \A u \in Threads : pc'[u] # "moved"
      BY <2>3, <2>4
    <3>3. \A b \in Addrs : \A ty : b # new /\ Registered(b, ty) => Registered(b, ty)'
      BY <2>2, <3>2 DEF Registered
    <3>0. PICK a, ty : a = new /\ ty = loc[t].type
      OBVIOUS
    <3>4. a \in Addrs => Registered(a, ty)'
      BY <2>1, <2>2, <3>0, <3>2 DEF Registered
    <3>5. new \in Addrs => held[new] = Null /\ \A u \in Threads : ~Right(u, new)
      <4>1. Owes(t, new)
        BY DEF Owes
      <4> QED
        BY <1>2, <3>1, <4>1, RegisteredIsLive DEF RightInv
    <3>6. \A b \in Addrs, u \in Threads :
            /\ u # t => (Right(u, b)' <=> Right(u, b))
            /\ Right(t, b)' <=> b = new /\ l = "report"
      BY <2>1, <2>3, <2>4 DEF Right
    <3>7. ASSUME NEW b \in Addrs \ Pool, held'[b] # Null
          PROVE  Registered(b, held[b])' /\ \A u \in Threads : ~Right(u, b)'
      <4>1. CASE b = new
        <5>1. l = "client" /\ held'[b] = ty
          BY <2>3, <3>0, <3>5, <3>7, <4>1
        <5> QED
          BY <3>0, <3>4, <3>5, <3>6, <4>1, <5>1
      <4>2. CASE b # new
        BY <2>3, <3>1, <3>3, <3>6, <3>7, <4>2 DEF RightInv
      <4> QED
        BY <4>1, <4>2
    <3>8. ASSUME NEW b \in Addrs \ Pool, NEW u \in Threads, Right(u, b)'
          PROVE  /\ Registered(b, loc[u].type)' /\ held'[b] = Null
                 /\ \A x \in Threads : Right(x, b)' => x = u
      <4>1. CASE b = new
        <5>1. u = t /\ l = "report"
          BY <3>5, <3>6, <3>8, <4>1
        <5>2. held'[b] = Null /\ loc'[u].type = ty
          BY <2>1, <2>3, <2>4, <3>0, <3>5, <4>1, <5>1
        <5> QED
          BY <3>0, <3>4, <3>5, <3>6, <4>1, <5>1, <5>2
      <4>2. CASE b # new
        BY <2>3, <2>4, <3>1, <3>3, <3>6, <3>8, <4>2 DEF RightInv
      <4> QED
        BY <4>1, <4>2
    <3>9. RightInv'
      BY <3>7, <3>8 DEF RightInv
    <3>10. Correct'
      BY <2>1, <2>3, <2>4, <3>1 DEF Correct
    <3> QED
      BY <3>9, <3>10
  <2> QED
    BY <2>3, <2>5, <2>6 DEF AlarmInv
<1> QED
  BY <1>1, <1>3 DEF AddNewNoLock, Leak

LEMMA RegisterAlarm ==
  ASSUME TypeOK, LockDiscipline, HeapInv, AlarmInv, NEW t \in Threads, Register(t)
  PROVE  AlarmInv'
<1>1. \A u \in Threads : pc[u] # "moved"
  BY ConstantsAssumption DEF Register, LockFree, LockDiscipline
<1>2. pc[t] = "register" /\ memoryItems \in TableType
  BY DEF Register, At, TypeOK, TableType
<1> QED
  BY <1>1, <1>2, AddNewAlarm DEF Register

LEMMA ReAllocMovedAlarm ==
  ASSUME TypeOK, LockDiscipline, HeapInv, AlarmInv, NEW t \in Threads, ReAllocMoved(t)
  PROVE  AlarmInv'
<1> DEFINE a == loc[t].ptr
<1>1. /\ pc[t] = "moved" /\ \A u \in Threads \ {t} : pc[u] # "moved"
      /\ a \in Addrs /\ ~Unknown(memoryItems[a])
  BY DEF ReAllocMoved, At, LockDiscipline, HeapInv, CallInv
<1>2. a \notin Pool
  BY <1>1 DEF AlarmInv, PoolUnseen
<1>3. /\ Struck(a, Null) \in TableType
      /\ \A b \in Addrs \union {Null} : b # a => Struck(a, Null)[b] = memoryItems[b]
  BY <1>1, StruckType DEF Struck, TypeOK
<1>4. CASE Stop("assertFailed")
  BY <1>4, StillAlarm DEF Stop, tables, ghosts
<1>5. ASSUME NEW e, AddNewNoLock(t, Struck(a, Null), Dropped(e))
      PROVE  AlarmInv'
  BY <1>1, <1>2, <1>3, <1>5, AddNewAlarm
<1> QED
  BY <1>4, <1>5 DEF ReAllocMoved

LEMMA FreeAlarm ==
  ASSUME TypeOK, AlarmInv, NEW t \in Threads, Free(t)
  PROVE  AlarmInv'
<1>1. CASE Stop("blockFreedTwice")
  BY <1>1, StillAlarm DEF Stop, tables, ghosts
<1>2. CASE Return(t, Null, Null) /\ UNCHANGED memoryItems
  <2>1. /\ Moves(t, "client", NoLoc) /\ misused' = misused
        /\ \A b \in Addrs : held'[b] = held[b]
    BY <1>2, ConstantsAssumption DEF Return, Moves
  <2> QED
    BY <1>2, <2>1, SameRights DEF Free, At
<1> QED
  BY <1>1, <1>2 DEF Free, tables

\* A correct call never comes to the realloc past the tables.
LEMMA EarlyReAllocAlarm ==
  ASSUME TypeOK, AlarmInv, NEW t \in Threads, EarlyReAlloc(t)
  PROVE  AlarmInv'
<1>1. CASE Stop("blockFreedTwice")
  BY <1>1, StillAlarm DEF Stop, tables, ghosts
<1>2. ASSUME NEW r, Return(t, r, "Malloc"), UNCHANGED memoryItems
      PROVE  AlarmInv'
  <2>1. misused
    BY DEF EarlyReAlloc, At, AlarmInv, Correct
  <2>2. Moves(t, "client", NoLoc) /\ misused' = misused
    BY <1>2 DEF Return, Moves
  <2>3. PoolUnseen'
    BY <1>2, <2>2, PoolStep
  <2> QED
    BY <2>1, <2>2, <2>3 DEF AlarmInv
<1> QED
  BY <1>1, <1>2 DEF EarlyReAlloc, LibcReAlloc, tables

LEMMA CallClbkAlarm ==
  ASSUME TypeOK, AlarmInv, NEW t \in Threads, CallClbk(t)
  PROVE  AlarmInv'
<1>1. /\ pc[t] = "report" /\ UNCHANGED <<memoryItems, loc, held, misused>>
      /\ pc' = pc \/ pc' = [pc EXCEPT ![t] = "callback"]
  BY DEF CallClbk, At, tables
<1>2. CASE pc' = pc
  BY <1>1, <1>2, StillAlarm
<1>3. CASE pc' = [pc EXCEPT ![t] = "callback"]
  <2>1. Moves(t, "callback", loc[t])
    BY <1>1, <1>3 DEF Moves, TypeOK
  <2> QED
    BY <1>1, <2>1, SameRights
<1> QED
  BY <1>1, <1>2, <1>3

LEMMA EndClbkAlarm ==
  ASSUME Declines, TypeOK, AlarmInv, NEW t \in Threads, EndClbk(t)
  PROVE  AlarmInv'
<1>1. pc[t] = "callback"
  BY DEF EndClbk, At
<1>2. CASE \E how : Stop(how)
  BY <1>2, StillAlarm DEF Stop, tables, ghosts
<1>3. CASE Answer(t) /\ UNCHANGED memoryItems
  <2>1. /\ Return(t, loc[t].res, loc[t].type) /\ misused' = misused
        /\ Moves(t, "client", NoLoc)
    BY <1>3 DEF Answer, Return, Moves
  <2>2. PoolUnseen'
    BY <1>3, <2>1, PoolStep
  <2>3. ~misused => RightInv' /\ Correct'
    BY <1>1, <1>3, <2>1, ReturnRight DEF Right
  <2> QED
    BY <2>1, <2>2, <2>3 DEF AlarmInv
<1> QED
  BY <1>2, <1>3 DEF EndClbk, Declines, tables

LEMMA InitAlarm ==
  ASSUME Early = {}, Init
  PROVE  AlarmInv
<1>1. \A t \in Threads : pc[t] = "client"
  BY DEF Init
<1>2. \A a \in Addrs \ Pool : held[a] = Null
  BY DEF Init
<1>3. PoolUnseen
  BY <1>1, ConstantsAssumption DEF Init, PoolUnseen, Unknown, NoItem
<1>4. RightInv /\ Correct
  BY <1>1, <1>2 DEF RightInv, Right, Correct
<1> QED
  BY <1>3, <1>4 DEF AlarmInv

LEMMA NextAlarm ==
  ASSUME NoExcuse, TypeOK, LockDiscipline, HeapInv, AlarmInv, [Next]_vars
  PROVE  AlarmInv'
<1>1. Declines /\ ~CanFail
  BY DEF NoExcuse
<1>2. CASE UNCHANGED <<memoryItems, pc, loc, held, misused>>
  BY <1>2, StillAlarm
<1>3. CASE UNCHANGED vars \/ SetMaxAllowedAllocInTheSameStack \/ ReplaceFailureClbk
           \/ Destroy
  BY <1>2, <1>3 DEF vars, SetMaxAllowedAllocInTheSameStack, ReplaceFailureClbk,
                    Destroy, Stop, tables, ghosts
<1>4. ASSUME NEW t \in Threads, LibraryStep(t)
      PROVE  AlarmInv'
  BY <1>1, <1>4, RegisterAlarm, DeleteLockedAlarm, FreeAlarm, ReAllocLockedAlarm,
     ReAllocMovedAlarm, EarlyReAllocAlarm, CallClbkAlarm DEF LibraryStep
<1>5. ASSUME NEW t \in Threads, CallDelete(t) \/ CallReAlloc(t)
      PROVE  AlarmInv'
  BY <1>5, CallWithAlarm, ConstantsAssumption
     DEF CallDelete, CallReAlloc, At, MemoryType
<1>6. ASSUME NEW t \in Threads, ProgramStep(t)
      PROVE  AlarmInv'
  <2>1. ~NestedCall(t)
    BY <1>1 DEF NestedCall, Declines
  <2> QED
    BY <1>1, <1>5, <1>6, <2>1, CallAllocAlarm, EndClbkAlarm DEF ProgramStep
<1> QED
  BY <1>3, <1>4, <1>6 DEF Next

-----------------------------------------------------------------------------
\* The step forgets no misuse, and a client that strays in it misuses a pointer.
FollowsMisuse == (misused => misused') /\ (strayed' => strayed \/ misused')

LEMMA CallFollows ==
  ASSUME NEW t \in Threads, NEW a, NEW ty, NEW l, CallWith(t, a, ty, l)
  PROVE  FollowsMisuse
BY DEF CallWith, FollowsMisuse

LEMMA MisuseStays ==
  ASSUME [Next]_vars
  PROVE  FollowsMisuse
<1>2. ASSUME NEW t \in Threads, LibraryStep(t)
      PROVE  UNCHANGED <<misused, strayed>>
  BY <1>2 DEF LibraryStep, Register, DeleteLocked, Free, ReAllocLocked,
     ReAllocMoved, EarlyReAlloc, CallClbk, AddNewNoLock, LibcReAlloc, Report,
     Return, Goto, Stop, ghosts
<1>3. ASSUME NEW t \in Threads, ProgramStep(t)
      PROVE  FollowsMisuse
  <2>1. CASE CallDelete(t) \/ CallReAlloc(t)
    BY <2>1, CallFollows DEF CallDelete, CallReAlloc
  <2>2. CASE CallAlloc(t) \/ NestedCall(t)
    <3>1. UNCHANGED <<misused, strayed>>
      BY <2>2 DEF CallAlloc, NestedCall, Goto, ghosts
    <3> QED
      BY <3>1 DEF FollowsMisuse
  <2>3. CASE EndClbk(t)
    <3>1. \/ \E how : Stop(how)
          \/ \E r, ty : Return(t, r, ty)
      BY <2>3 DEF EndClbk, Answer, LibcReAlloc
    <3> QED
      BY <3>1 DEF Stop, Return, ghosts, FollowsMisuse
  <2> QED
    BY <1>3, <2>1, <2>2, <2>3 DEF ProgramStep
<1> QED
  BY <1>2, <1>3 DEF Next, vars, SetMaxAllowedAllocInTheSameStack,
     ReplaceFailureClbk, Destroy, Stop, ghosts, FollowsMisuse

\* While the program is correct, the invariants hold.
CorrectInv == (strayed => misused) /\ (~misused => HeapInv /\ AlarmInv)

\* A program that gives every block back once, with the routine it is from, is never
\* accused of a double free, a mismatch or a bad realloc, however many threads it
\* has and however libc reuses addresses.
THEOREM CorrectIsNotAccused ==
  ASSUME NoExcuse
  PROVE  Spec => []NoFalseAlarm
<1>1. Init => TypeOK /\ LockDiscipline /\ CorrectInv
  BY InitType, InitLock, InitHeap, InitAlarm DEF NoExcuse, CorrectInv, Init
<1>2. TypeOK /\ LockDiscipline /\ CorrectInv /\ [Next]_vars =>
        TypeOK' /\ LockDiscipline' /\ CorrectInv'
  BY NextType, NextLock, NextHeap, NextAlarm, MisuseStays
     DEF NoExcuse, CorrectInv, FollowsMisuse
<1>3. CorrectInv => NoFalseAlarm
  BY DEF CorrectInv, AlarmInv, Correct, NoFalseAlarm, Leak
<1> QED
  BY <1>1, <1>2, <1>3, PTL DEF Spec

=============================================================================
