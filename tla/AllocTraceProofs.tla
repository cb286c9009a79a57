--------------------------- MODULE AllocTraceProofs ---------------------------
(* Every Backtrace of AllocAnalyze has exactly one owner, and none is freed    *)
(* twice; and, up to the first of four kinds of step, the counts that are kept *)
(* under Backtraces are exact.                                                 *)
EXTENDS AllocAnalyzeProofs, Integers, FiniteSetTheorems

\* No leak report is declined: there is none, it ends the process, or the callback
\* asks for that.  (The cleaner of a declined one frees a trace of the table's.)
LeaksEnd ==
  \/ Callbacks = {"default"}
  \/ LeakVerdicts \subseteq {"ExitApp"}
  \/ InitialLimit = 0 /\ Limits \subseteq {0}

Leak == "PossibilityOfMemoryLeak"

-----------------------------------------------------------------------------
(* Who owns what, as a function o from the places to traces, and what giving,  *)
(* freeing and handing on a trace does to it.                                  *)

Spots == ItemPlaces \union ({"call", "parked"} \X Threads)

Own == [p \in Spots |-> IF proc = "finished" /\ p \in ItemPlaces
                        THEN Null ELSE Owned(p)]

\* Every trace that is not freed has one owner in o, and no other has one.
Exact(o, c) ==
  /\ \A p \in Spots : o[p] # Null => o[p] \in Traces /\ c[o[p]] # Null
  /\ \A p, q \in Spots : o[p] # Null /\ o[p] = o[q] => p = q
  /\ \A tr \in Traces : c[tr] # Null => \E p \in Spots : o[p] = tr

Given(o, p, tr) == [o EXCEPT ![p] = tr]
Emptied(o, R)   == [p \in Spots |-> IF p \in R THEN Null ELSE o[p]]
Moved(o, p, q)  == [x \in Spots |-> IF x = q THEN o[p]
                                    ELSE IF x = p THEN Null ELSE o[x]]

\* InitBacktraceDataForCurrentStack gives a trace to a place that has none.
LEMMA GivenExact ==
  ASSUME NEW o \in [Spots -> Traces \union {Null}], Exact(o, content),
         NEW p \in Spots, o[p] = Null, NEW tr \in FreshTraces, NEW s \in Stacks
  PROVE  Exact(Given(o, p, tr), Fill(tr, s))
<1> DEFINE n == Given(o, p, tr)
           d == Fill(tr, s)
<1>1. /\ s # Null /\ Null \notin Traces
      /\ tr = Null \/ (tr \in Traces /\ content[tr] = Null)
  BY ConstantsAssumption DEF FreshTraces
<1>2. \A q \in Spots : n[q] = IF q = p THEN tr ELSE o[q]
  BY DEF Given
<1>3. \A x \in Traces : d[x] = IF x = tr THEN s ELSE content[x]
  BY DEF Fill
<1>4. \A q \in Spots : tr # Null => o[q] # tr
  BY <1>1 DEF Exact
<1> HIDE DEF n, d
<1>5. \A q \in Spots : n[q] # Null => n[q] \in Traces /\ d[n[q]] # Null
  BY <1>1, <1>2, <1>3 DEF Exact
<1>6. \A q, r \in Spots : n[q] # Null /\ n[q] = n[r] => q = r
  BY <1>2, <1>4 DEF Exact
<1>7. ASSUME NEW x \in Traces, d[x] # Null
      PROVE  \E q \in Spots : n[q] = x
  <2>1. CASE x = tr
    BY <1>2, <2>1
  <2>2. CASE x # tr
    <3>1. PICK q \in Spots : o[q] = x
      BY <1>3, <1>7, <2>2 DEF Exact
    <3> QED
      BY <1>1, <1>2, <3>1
  <2> QED
    BY <2>1, <2>2
<1> QED
  BY <1>5, <1>6, <1>7 DEF Exact, n, d

\* FreeBacktraceData of what the places of R own: none of it was freed before, and
\* nobody else owns it.
LEMMA EmptiedExact ==
  ASSUME NEW o, NEW c, Exact(o, c), NEW R, R \subseteq Spots,
         NEW S, \A tr : tr \in S \ {Null} <=> \E p \in R : o[p] = tr /\ tr # Null
  PROVE  Exact(Emptied(o, R), Release(c, S)) /\ ~Dead(c, S)
<1> DEFINE n == Emptied(o, R)
           d == Release(c, S)
<1>1. \A p \in Spots : n[p] = IF p \in R THEN Null ELSE o[p]
  BY DEF Emptied
<1>2. \A x \in Traces : d[x] = IF x \in S THEN Null ELSE c[x]
  BY DEF Release
<1>3. Null \notin Traces
  BY ConstantsAssumption
<1>4. ~Dead(c, S)
  BY DEF Dead, Exact
<1>5. \A p \in Spots : o[p] # Null /\ o[p] \in S => p \in R
  BY DEF Exact
<1> HIDE DEF n, d
<1>6. \A p \in Spots : n[p] # Null => n[p] \in Traces /\ d[n[p]] # Null
  BY <1>1, <1>2, <1>5 DEF Exact
<1>7. \A p, q \in Spots : n[p] # Null /\ n[p] = n[q] => p = q
  BY <1>1 DEF Exact
<1>8. ASSUME NEW x \in Traces, d[x] # Null
      PROVE  \E p \in Spots : n[p] = x
  <2>1. x \notin S /\ c[x] # Null
    BY <1>2, <1>8
  <2>2. PICK p \in Spots : o[p] = x
    BY <2>1 DEF Exact
  <2>3. p \notin R
    BY <1>3, <2>1, <2>2
  <2> QED
    BY <1>1, <2>2, <2>3
<1> QED
  BY <1>4, <1>6, <1>7, <1>8 DEF Exact, n, d

\* A trace is handed from p to q, which has none.
LEMMA MovedExact ==
  ASSUME NEW o, NEW c, Exact(o, c), NEW p \in Spots, NEW q \in Spots,
         p # q, o[q] = Null
  PROVE  Exact(Moved(o, p, q), c)
<1> DEFINE n == Moved(o, p, q)
<1>1. \A x \in Spots : n[x] = IF x = q THEN o[p] ELSE IF x = p THEN Null ELSE o[x]
  BY DEF Moved
<1>2. Null \notin Traces
  BY ConstantsAssumption
<1> HIDE DEF n
<1>3. \A x \in Spots : n[x] # Null => n[x] \in Traces /\ c[n[x]] # Null
  BY <1>1 DEF Exact
<1>4. \A x, y \in Spots : n[x] # Null /\ n[x] = n[y] => x = y
  BY <1>1 DEF Exact
<1>5. ASSUME NEW tr \in Traces, c[tr] # Null
      PROVE  \E x \in Spots : n[x] = tr
  <2>1. PICK x \in Spots : o[x] = tr
    BY <1>5 DEF Exact
  <2>2. x # q
    BY <1>2, <2>1
  <2> QED
    BY <1>1, <2>1, <2>2
<1> QED
  BY <1>3, <1>4, <1>5 DEF Exact, n

\* Exact depends on what the places own only.
LEMMA SameExact ==
  ASSUME NEW o, NEW n, NEW c, Exact(o, c),
         \A a \in Addrs \union {Null} : /\ n[<<"alloc", a>>] = o[<<"alloc", a>>]
                                        /\ n[<<"dealloc", a>>] = o[<<"dealloc", a>>],
         \A t \in Threads : /\ n[<<"call", t>>] = o[<<"call", t>>]
                            /\ n[<<"parked", t>>] = o[<<"parked", t>>]
  PROVE  Exact(n, c)
<1>1. ASSUME NEW p \in Spots
      PROVE  n[p] = o[p]
  <2>1. CASE p \in ItemPlaces
    <3>1. PICK a \in Addrs \union {Null} : p = <<"alloc", a>> \/ p = <<"dealloc", a>>
      BY <2>1 DEF ItemPlaces
    <3> QED
      BY <3>1
  <2>2. CASE p \in {"call", "parked"} \X Threads
    <3>1. PICK t \in Threads : p = <<"call", t>> \/ p = <<"parked", t>>
      BY <2>2
    <3> QED
      BY <3>1
  <2> QED
    BY <2>1, <2>2 DEF Spots
<1> QED
  BY <1>1 DEF Exact

-----------------------------------------------------------------------------
(* The invariant. *)

\* What the call with the locals v owns.
CallOwns(v) == IF v.failure = Leak THEN Null ELSE v.trace

\* A call has no failure before its report and no trace before its start and after
\* it gave the trace on; the entry a realloc is about to retire is one of a live
\* block.
CallTraces ==
  \A t \in Threads :
    /\ pc[t] \notin {"report", "callback"} => loc[t].failure = Null
    /\ pc[t] \in {"client", "free", "earlyRealloc"} => loc[t].trace = Null
    /\ pc[t] = "moved" => memoryItems[loc[t].ptr].status = "Allocated"

\* The entry of a live block has no trace of a deallocation.
LiveUntraced ==
  \A a \in Addrs \union {Null} :
    memoryItems[a].status = "Allocated" => memoryItems[a].dealloc = Null

\* No leak report comes to an end.
NoneDeclined ==
  \/ /\ Callbacks = {"default"} /\ clbkFnc = "default"
     /\ \A t \in Threads : pc[t] # "callback"
  \/ LeakVerdicts \subseteq {"ExitApp"}
  \/ /\ Limits \subseteq {0} /\ maxSame = 0
     /\ \A t \in Threads : loc[t].failure # Leak

TraceInv ==
  /\ Exact(Own, content) /\ NoTraceFreedTwice
  /\ CallTraces /\ LiveUntraced /\ NoneDeclined

LEMMA SpotsAre ==
  /\ \A a \in Addrs \union {Null} :
       /\ <<"alloc", a>> \in Spots /\ <<"dealloc", a>> \in Spots
       /\ <<"alloc", a>> \in ItemPlaces /\ <<"dealloc", a>> \in ItemPlaces
  /\ \A t \in Threads :
       /\ <<"call", t>> \in Spots /\ <<"parked", t>> \in Spots
       /\ <<"call", t>> \notin ItemPlaces /\ <<"parked", t>> \notin ItemPlaces
  /\ ItemPlaces \subseteq Spots
BY DEF Spots, ItemPlaces

\* What every place owns, while the process runs.
LEMMA OwnIs ==
  ASSUME proc # "finished"
  PROVE  /\ \A a \in Addrs \union {Null} :
              /\ Own[<<"alloc", a>>] = memoryItems[a].alloc
              /\ Own[<<"dealloc", a>>] = memoryItems[a].dealloc
         /\ \A t \in Threads : /\ Own[<<"call", t>>] = CallOwns(loc[t])
                               /\ Own[<<"parked", t>>] = handlerMemory[t]
BY SpotsAre DEF Own, Owned, Held, CallOwns, Leak

LEMMA OwnIsNext ==
  ASSUME proc' # "finished"
  PROVE  /\ \A a \in Addrs \union {Null} :
              /\ Own'[<<"alloc", a>>] = memoryItems'[a].alloc
              /\ Own'[<<"dealloc", a>>] = memoryItems'[a].dealloc
         /\ \A t \in Threads : /\ Own'[<<"call", t>>] = CallOwns(loc'[t])
                               /\ Own'[<<"parked", t>>] = handlerMemory'[t]
BY SpotsAre DEF Own, Owned, Held, CallOwns, Leak

LEMMA OwnType ==
  ASSUME TypeOK
  PROVE  Own \in [Spots -> Traces \union {Null}]
<1>1. ASSUME NEW p \in Spots
      PROVE  Owned(p) \in Traces \union {Null}
  <2>1. CASE p \in ItemPlaces
    <3>1. memoryItems[p[2]] \in SMemoryItem
      BY <2>1 DEF ItemPlaces, TypeOK
    <3>2. p[1] # "call" /\ p[1] # "parked"
      BY <2>1 DEF ItemPlaces
    <3> QED
      BY <3>1, <3>2 DEF Owned, Held, SMemoryItem
  <2>2. CASE p \in {"call", "parked"} \X Threads
    <3>1. loc[p[2]] \in Locals /\ handlerMemory[p[2]] \in Traces \union {Null}
      BY <2>2 DEF TypeOK
    <3>2. loc[p[2]].trace \in Traces \union {Null}
      BY <3>1 DEF Locals
    <3> QED
      BY <2>2, <3>1, <3>2 DEF Owned
  <2> QED
    BY <2>1, <2>2 DEF Spots
<1> QED
  BY <1>1 DEF Own

-----------------------------------------------------------------------------
(* What the steps do with traces. *)

\* A step that keeps every trace where it is, stopping included.
LEMMA QuietExact ==
  ASSUME TraceInv, proc # "finished", proc' # "finished",
         UNCHANGED <<content, memoryItems, handlerMemory>>,
         \A u \in Threads : CallOwns(loc'[u]) = CallOwns(loc[u])
  PROVE  Exact(Own', content')
<1>1. Exact(Own', content)
  BY OwnIs, OwnIsNext, SameExact DEF TraceInv
<1> QED
  BY <1>1

\* A call begins: the trace of the caller is taken.
LEMMA BeginExact ==
  ASSUME TypeOK, TraceInv, proc # "finished", proc' = proc,
         NEW t \in Threads, pc[t] = "client",
         NEW tr \in FreshTraces, NEW s \in Stacks, content' = Fill(tr, s),
         NEW l, NEW v, Moves(t, l, v), v.trace = tr, v.failure = Null,
         UNCHANGED <<memoryItems, handlerMemory>>
  PROVE  Exact(Own', content')
<1> DEFINE p == <<"call", t>>
           n == Given(Own, p, tr)
<1>1. CallOwns(v) = tr /\ Own[p] = Null /\ p \in Spots
  BY OwnIs, SpotsAre, ConstantsAssumption
     DEF CallOwns, Leak, FailureType, TraceInv, CallTraces
<1>2. Exact(n, content')
  BY <1>1, OwnType, GivenExact DEF TraceInv
<1>3. \A q \in Spots : n[q] = IF q = p THEN tr ELSE Own[q]
  BY OwnType DEF Given
<1>4. \A u \in Threads : CallOwns(loc'[u]) = IF u = t THEN tr ELSE CallOwns(loc[u])
  BY <1>1, OthersStay
<1> HIDE DEF n
<1>5. /\ \A a \in Addrs \union {Null} : /\ Own'[<<"alloc", a>>] = n[<<"alloc", a>>]
                                        /\ Own'[<<"dealloc", a>>] = n[<<"dealloc", a>>]
      /\ \A u \in Threads : /\ Own'[<<"call", u>>] = n[<<"call", u>>]
                            /\ Own'[<<"parked", u>>] = n[<<"parked", u>>]
  BY <1>3, <1>4, OwnIs, OwnIsNext, SpotsAre
<1> QED
  BY <1>2, <1>5, SameExact

\* A call frees its own trace: a realloc in place, or the cleaner of a report.
LEMMA OwnTraceLives ==
  ASSUME TraceInv, proc # "finished", NEW t \in Threads, loc[t].failure # Leak
  PROVE  /\ Exact(Emptied(Own, {<<"call", t>>}), Release(content, {loc[t].trace}))
         /\ ~Dead(content, {loc[t].trace})
<1>1. /\ <<"call", t>> \in Spots /\ Own[<<"call", t>>] = loc[t].trace
  BY OwnIs, SpotsAre DEF CallOwns
<1> QED
  BY <1>1, EmptiedExact DEF TraceInv

LEMMA DropExact ==
  ASSUME TypeOK, TraceInv, proc # "finished", proc' = proc,
         NEW t \in Threads, loc[t].failure # Leak,
         content' = Release(content, {loc[t].trace}),
         NEW l, NEW v, Moves(t, l, v), v.trace = Null,
         UNCHANGED <<memoryItems, handlerMemory>>
  PROVE  Exact(Own', content')
<1> DEFINE p == <<"call", t>>
           n == Emptied(Own, {p})
<1>1. Exact(n, content')
  BY OwnTraceLives
<1>2. \A q \in Spots : n[q] = IF q = p THEN Null ELSE Own[q]
  BY DEF Emptied
<1>3. \A u \in Threads : CallOwns(loc'[u]) = IF u = t THEN Null ELSE CallOwns(loc[u])
  BY OthersStay DEF CallOwns
<1> HIDE DEF n
<1>4. /\ \A a \in Addrs \union {Null} : /\ Own'[<<"alloc", a>>] = n[<<"alloc", a>>]
                                        /\ Own'[<<"dealloc", a>>] = n[<<"dealloc", a>>]
      /\ \A u \in Threads : /\ Own'[<<"call", u>>] = n[<<"call", u>>]
                            /\ Own'[<<"parked", u>>] = n[<<"parked", u>>]
  BY <1>2, <1>3, OwnIs, OwnIsNext, SpotsAre
<1> QED
  BY <1>1, <1>4, SameExact

\* CMemoryItem::Init frees the trace parked before and parks the call's.
LEMMA ParkExact ==
  ASSUME TypeOK, TraceInv, proc # "finished", proc' = proc,
         NEW t \in Threads, loc[t].failure = Null, Park(t),
         NEW l, NEW v, Moves(t, l, v), v.trace = Null, UNCHANGED memoryItems
  PROVE  Exact(Own', content')
<1> DEFINE p == <<"call", t>>
           q == <<"parked", t>>
           m == Emptied(Own, {q})
           n == Moved(m, p, q)
<1>1. /\ Own[p] = loc[t].trace /\ Own[q] = handlerMemory[t]
      /\ p \in Spots /\ q \in Spots /\ p # q
  BY OwnIs, SpotsAre, ConstantsAssumption DEF CallOwns, Leak, FailureType
<1>2. Exact(m, Release(content, {handlerMemory[t]}))
  BY <1>1, EmptiedExact DEF TraceInv
<1>3. \A x \in Spots : m[x] = IF x = q THEN Null ELSE Own[x]
  BY DEF Emptied
<1> HIDE DEF m
<1>4. Exact(n, Release(content, {handlerMemory[t]}))
  BY <1>1, <1>2, <1>3, MovedExact
<1>5. \A x \in Spots : n[x] = IF x = q THEN loc[t].trace
                              ELSE IF x = p THEN Null ELSE Own[x]
  BY <1>1, <1>3 DEF Moved
<1> HIDE DEF n
<1>6. \A u \in Threads : CallOwns(loc'[u]) = IF u = t THEN Null ELSE CallOwns(loc[u])
  BY OthersStay DEF CallOwns
<1>7. \A u \in Threads :
        handlerMemory'[u] = IF u = t THEN loc[t].trace ELSE handlerMemory[u]
  BY DEF Park, TypeOK
<1>8. /\ \A a \in Addrs \union {Null} : /\ Own'[<<"alloc", a>>] = n[<<"alloc", a>>]
                                        /\ Own'[<<"dealloc", a>>] = n[<<"dealloc", a>>]
      /\ \A u \in Threads : /\ Own'[<<"call", u>>] = n[<<"call", u>>]
                            /\ Own'[<<"parked", u>>] = n[<<"parked", u>>]
  BY <1>5, <1>6, <1>7, OwnIs, OwnIsNext, SpotsAre
<1> QED
  BY <1>4, <1>8, SameExact DEF Park

\* TestOperatorDelete gives its trace to the entry it strikes, which had none.
LEMMA StrikeExact ==
  ASSUME TypeOK, TraceInv, proc # "finished", proc' = proc,
         NEW t \in Threads, loc[t].failure = Null,
         NEW a \in Addrs \union {Null}, memoryItems[a].status = "Allocated",
         memoryItems' = Struck(a, loc[t].trace),
         NEW l, NEW v, Moves(t, l, v), v.trace = Null,
         UNCHANGED <<content, handlerMemory>>
  PROVE  Exact(Own', content')
<1> DEFINE p == <<"call", t>>
           q == <<"dealloc", a>>
           n == Moved(Own, p, q)
<1>1. /\ Own[p] = loc[t].trace /\ Own[q] = Null
      /\ p \in Spots /\ q \in Spots /\ p # q
  BY OwnIs, SpotsAre, ConstantsAssumption
     DEF CallOwns, Leak, FailureType, TraceInv, LiveUntraced
<1>2. Exact(n, content')
  BY <1>1, MovedExact DEF TraceInv
<1>3. \A x \in Spots : n[x] = IF x = q THEN loc[t].trace
                              ELSE IF x = p THEN Null ELSE Own[x]
  BY <1>1 DEF Moved
<1> HIDE DEF n
<1>4. \A u \in Threads : CallOwns(loc'[u]) = IF u = t THEN Null ELSE CallOwns(loc[u])
  BY OthersStay DEF CallOwns
<1>5. \A b \in Addrs \union {Null} :
        /\ memoryItems'[b].alloc = memoryItems[b].alloc
        /\ memoryItems'[b].dealloc = IF b = a THEN loc[t].trace
                                     ELSE memoryItems[b].dealloc
  BY DEF Struck, TypeOK, SMemoryItem
<1>6. /\ \A b \in Addrs \union {Null} : /\ Own'[<<"alloc", b>>] = n[<<"alloc", b>>]
                                        /\ Own'[<<"dealloc", b>>] = n[<<"dealloc", b>>]
      /\ \A u \in Threads : /\ Own'[<<"call", u>>] = n[<<"call", u>>]
                            /\ Own'[<<"parked", u>>] = n[<<"parked", u>>]
  BY <1>3, <1>4, <1>5, OwnIs, OwnIsNext, SpotsAre
<1> QED
  BY <1>2, <1>6, SameExact

\* A table whose items hold the traces that m_memoryItems' hold.
SameTraces(table) ==
  \A a \in Addrs \union {Null} : /\ table[a].alloc = memoryItems[a].alloc
                                 /\ table[a].dealloc = memoryItems[a].dealloc

\* The traces of the old item of an address are not freed when it is registered.
LEMMA OldTracesLive ==
  ASSUME TraceInv, proc # "finished", NEW table, SameTraces(table),
         NEW a \in Addrs \union {Null}
  PROVE  /\ Exact(Emptied(Own, {<<"alloc", a>>, <<"dealloc", a>>}),
                  Release(content, TracesOf(table[a])))
         /\ ~Dead(content, TracesOf(table[a]))
<1> DEFINE R == {<<"alloc", a>>, <<"dealloc", a>>}
<1>1. /\ R \subseteq Spots /\ Own[<<"alloc", a>>] = table[a].alloc
      /\ Own[<<"dealloc", a>>] = table[a].dealloc
  BY OwnIs, SpotsAre DEF SameTraces
<1>2. \A tr : tr \in TracesOf(table[a]) \ {Null} <=>
                \E p \in R : Own[p] = tr /\ tr # Null
  BY <1>1 DEF TracesOf
<1> HIDE DEF R
<1>3. /\ Exact(Emptied(Own, R), Release(content, TracesOf(table[a])))
      /\ ~Dead(content, TracesOf(table[a]))
  BY <1>1, <1>2, EmptiedExact DEF TraceInv
<1> QED
  BY <1>3 DEF R

\* Registration frees them and gives the call's trace to the new item.
LEMMA EnterExact ==
  ASSUME TypeOK, TraceInv, proc # "finished", proc' = proc,
         NEW t \in Threads, loc[t].failure = Null,
         NEW table \in TableType, SameTraces(table),
         NEW a \in Addrs \union {Null}, NEW item, item.alloc = loc[t].trace,
         item.dealloc = Null, memoryItems' = Entered(table, a, item),
         content' = Release(content, TracesOf(table[a])),
         NEW l, NEW v, Moves(t, l, v), CallOwns(v) = Null, UNCHANGED handlerMemory
  PROVE  Exact(Own', content')
<1> DEFINE p == <<"call", t>>
           q == <<"alloc", a>>
           r == <<"dealloc", a>>
           m == Emptied(Own, {q, r})
           n == Moved(m, p, q)
<1>1. /\ Own[p] = loc[t].trace
      /\ p \in Spots /\ q \in Spots /\ r \in Spots /\ p # q /\ p # r
  BY OwnIs, SpotsAre, ConstantsAssumption DEF CallOwns, Leak, FailureType
<1>2. Exact(m, content')
  BY OldTracesLive
<1>3. \A x \in Spots : m[x] = IF x = q \/ x = r THEN Null ELSE Own[x]
  BY DEF Emptied
<1> HIDE DEF m
<1>4. Exact(n, content')
  BY <1>1, <1>2, <1>3, MovedExact
<1>5. \A x \in Spots : n[x] = IF x = q THEN loc[t].trace
                              ELSE IF x = p \/ x = r THEN Null ELSE Own[x]
  BY <1>1, <1>3 DEF Moved
<1> HIDE DEF n
<1>6. \A u \in Threads : CallOwns(loc'[u]) = IF u = t THEN Null ELSE CallOwns(loc[u])
  BY OthersStay
<1>7. \A b \in Addrs \union {Null} :
        /\ memoryItems'[b].alloc = IF b = a THEN loc[t].trace ELSE memoryItems[b].alloc
        /\ memoryItems'[b].dealloc = IF b = a THEN Null ELSE memoryItems[b].dealloc
  BY DEF Entered, TableType, SameTraces
<1>8. /\ \A b \in Addrs \union {Null} : /\ Own'[<<"alloc", b>>] = n[<<"alloc", b>>]
                                        /\ Own'[<<"dealloc", b>>] = n[<<"dealloc", b>>]
      /\ \A u \in Threads : /\ Own'[<<"call", u>>] = n[<<"call", u>>]
                            /\ Own'[<<"parked", u>>] = n[<<"parked", u>>]
  BY <1>5, <1>6, <1>7, OwnIs, OwnIsNext, SpotsAre
<1> QED
  BY <1>4, <1>8, SameExact

-----------------------------------------------------------------------------
(* One lemma per action. *)

\* A step of one thread t that goes to l with v, under what it owes the rest of the
\* invariant.
LEMMA StepTrace ==
  ASSUME TypeOK, TraceInv, proc' # "traceFreedTwice", UNCHANGED config,
         NEW t \in Threads, NEW l, NEW v, Moves(t, l, v), l # "callback",
         l # "report" => v.failure = Null,
         l \in {"client", "free", "earlyRealloc"} => v.trace = Null,
         l = "moved" => memoryItems'[v.ptr].status = "Allocated",
         v.failure = Leak => maxSame > 0,
         \/ memoryItems' = memoryItems
         \/ LiveUntraced' /\ \A u \in Threads \ {t} : pc[u] # "moved",
         Exact(Own', content')
  PROVE  TraceInv'
<1>1. /\ pc'[t] = l /\ loc'[t] = v
      /\ \A u \in Threads : u # t => pc'[u] = pc[u] /\ loc'[u] = loc[u]
  BY OthersStay
<1>2. LiveUntraced'
  BY DEF TraceInv, LiveUntraced
<1>3. CallTraces'
  BY <1>1 DEF TraceInv, CallTraces
<1>4. NoneDeclined'
  BY <1>1 DEF TraceInv, NoneDeclined, config
<1> QED
  BY <1>2, <1>3, <1>4 DEF TraceInv, NoTraceFreedTwice

\* The process stops, other than over a trace freed twice.
LEMMA StopTrace ==
  ASSUME TraceInv, proc # "finished", NEW how, how \notin {"finished", "traceFreedTwice"},
         Stop(how)
  PROVE  TraceInv'
<1>1. /\ UNCHANGED <<content, memoryItems, handlerMemory, config, pc, loc>>
      /\ proc' \notin {"finished", "traceFreedTwice"}
  BY DEF Stop, tables
<1>2. Exact(Own', content')
  BY <1>1, QuietExact
<1> QED
  BY <1>1, <1>2 DEF TraceInv, NoTraceFreedTwice, CallTraces, LiveUntraced,
                    NoneDeclined, config

\* Report keeps the trace with the call, unless it is one of a leak.
LEMMA ReportTrace ==
  ASSUME TypeOK, TraceInv, proc = "running", NEW t \in Threads,
         loc[t].failure = Null, NEW i, NEW p, NEW r, NEW f \in FailureType \ {Leak},
         Report(t, i, p, r, f),
         UNCHANGED <<content, memoryItems, handlerMemory, config, proc>>
  PROVE  TraceInv'
<1> DEFINE v == [ptr |-> p, res |-> r, type |-> loc[t].type,
                 trace |-> loc[t].trace, item |-> i, failure |-> f]
<1>1. Moves(t, "report", v) /\ v.failure # Leak /\ v.trace = loc[t].trace
  BY DEF Report, Goto, Moves
<1> HIDE DEF v
<1>2. \A u \in Threads : CallOwns(loc'[u]) = CallOwns(loc[u])
  BY <1>1, OthersStay, ConstantsAssumption DEF CallOwns, Leak, FailureType
<1>3. Exact(Own', content')
  BY <1>2, QuietExact
<1> QED
  BY <1>1, <1>3, StepTrace

\* A call that has no trace returns.
LEMMA ReturnTrace ==
  ASSUME TypeOK, TraceInv, proc = "running", NEW t \in Threads,
         CallOwns(loc[t]) = Null, NEW r, NEW ty, Return(t, r, ty),
         UNCHANGED <<content, memoryItems, handlerMemory, config, proc>>
  PROVE  TraceInv'
<1>1. /\ Moves(t, "client", NoLoc)
      /\ NoLoc.trace = Null /\ NoLoc.failure = Null
  BY DEF Return, Moves, NoLoc
<1>2. \A u \in Threads : CallOwns(loc'[u]) = CallOwns(loc[u])
  BY <1>1, OthersStay DEF CallOwns
<1>3. Exact(Own', content')
  BY <1>2, QuietExact
<1> QED
  BY <1>1, <1>3, StepTrace, ConstantsAssumption DEF Leak, FailureType

LEMMA CallAllocTrace ==
  ASSUME TypeOK, TraceInv, NEW t \in Threads, CallAlloc(t)
  PROVE  TraceInv'
<1> DEFINE v(a, ty, tr) == [NoLoc EXCEPT !.res = a, !.type = ty, !.trace = tr]
<1>1. PICK a \in FreshAddrs, tr \in FreshTraces, ty \in Types, s \in Stacks :
        content' = Fill(tr, s) /\ Goto(t, "register", v(a, ty, tr))
  BY DEF CallAlloc
<1>2. v(a, ty, tr).trace = tr /\ v(a, ty, tr).failure = Null
  BY DEF NoLoc
<1> HIDE DEF v
<1>3. Moves(t, "register", v(a, ty, tr))
  BY <1>1 DEF Goto, Moves
<1>4. /\ proc = "running" /\ pc[t] = "client"
      /\ UNCHANGED <<memoryItems, handlerMemory, config, proc>>
  BY DEF CallAlloc, At, tables
<1>5. Exact(Own', content')
  BY <1>1, <1>2, <1>3, <1>4, BeginExact
<1> QED
  BY <1>2, <1>3, <1>4, <1>5, StepTrace, ConstantsAssumption DEF Leak, FailureType

LEMMA CallWithTrace ==
  ASSUME TypeOK, TraceInv, proc = "running", NEW t \in Threads, pc[t] = "client",
         NEW a, NEW ty, NEW l \in {"delete", "realloc"}, CallWith(t, a, ty, l)
  PROVE  TraceInv'
<1> DEFINE v(tr) == [NoLoc EXCEPT !.ptr = a, !.type = ty, !.trace = tr]
<1>1. PICK tr \in FreshTraces, s \in Stacks :
        /\ content' = Fill(tr, s)
        /\ pc' = [pc EXCEPT ![t] = l] /\ loc' = [loc EXCEPT ![t] = v(tr)]
        /\ UNCHANGED <<memoryItems, handlerMemory, config, proc>>
  BY DEF CallWith, tables
<1>2. v(tr).trace = tr /\ v(tr).failure = Null
  BY DEF NoLoc
<1> HIDE DEF v
<1>3. Moves(t, l, v(tr))
  BY <1>1 DEF Moves
<1>4. Exact(Own', content')
  BY <1>1, <1>2, <1>3, BeginExact
<1> QED
  BY <1>1, <1>2, <1>3, <1>4, StepTrace, ConstantsAssumption DEF Leak, FailureType

\* AddNewAllocatedMemoryAndCleanOldEntryNoLock never frees a trace twice, and gives
\* every trace it takes on.
LEMMA AddNewTrace ==
  ASSUME TypeOK, LockDiscipline, TraceInv, proc = "running", NEW t \in Threads,
         loc[t].failure = Null, \A u \in Threads \ {t} : pc[u] # "moved",
         NEW table \in TableType, SameTraces(table),
         \A b \in Addrs \union {Null} :
           table[b].status = "Allocated" => memoryItems[b].status = "Allocated",
         NEW stk, AddNewNoLock(t, table, stk)
  PROVE  TraceInv'
<1> DEFINE new  == loc[t].res
           old  == TracesOf(table[new])
           item == [type |-> loc[t].type, status |-> "Allocated",
                    alloc |-> loc[t].trace, dealloc |-> Null]
           v    == [ptr |-> new, res |-> new, type |-> loc[t].type,
                    trace |-> loc[t].trace, item |-> item, failure |-> Leak]
<1>1. new \in Addrs \union {Null}
  BY DEF TypeOK, Locals
<1>2. ~Dead(content, old)
  BY <1>1, OldTracesLive
<1>3. CASE Stop("segv")
  BY <1>3, StopTrace
<1>4. CASE /\ content' = Release(content, old)
           /\ memoryItems' = Entered(table, new, item)
           /\ UNCHANGED <<handlerMemory, config, proc>>
           /\ \/ Return(t, new, loc[t].type)
              \/ maxSame > 0 /\ Report(t, item, new, new, Leak)
  <2>1. item.alloc = loc[t].trace /\ item.dealloc = Null /\ v.failure = Leak
    OBVIOUS
  <2>2. LiveUntraced'
    <3>1. ASSUME NEW b \in Addrs \union {Null}, memoryItems'[b].status = "Allocated"
          PROVE  memoryItems'[b].dealloc = Null
      <4>1. CASE b = new
        BY <1>1, <1>4, <4>1 DEF Entered, TableType
      <4>2. CASE b # new
        BY <1>4, <3>1, <4>2 DEF Entered, TableType, SameTraces, TraceInv, LiveUntraced
      <4> QED
        BY <4>1, <4>2
    <3> QED
      BY <3>1 DEF LiveUntraced
  <2> HIDE DEF item, v
  <2>3. ASSUME NEW l, NEW w, Moves(t, l, w), CallOwns(w) = Null
        PROVE  Exact(Own', content')
    BY <1>1, <1>4, <2>1, <2>3, EnterExact
  <2>4. CASE Return(t, new, loc[t].type)
    <3>1. Moves(t, "client", NoLoc) /\ NoLoc.trace = Null /\ NoLoc.failure = Null
      BY <2>4 DEF Return, Moves, NoLoc
    <3>2. Exact(Own', content')
      BY <2>3, <3>1 DEF CallOwns
    <3> QED
      BY <1>4, <2>2, <3>1, <3>2, StepTrace, ConstantsAssumption DEF Leak, FailureType
  <2>5. CASE maxSame > 0 /\ Report(t, item, new, new, Leak)
    <3>1. Moves(t, "report", v)
      BY <2>5 DEF Report, Goto, Moves, v
    <3>2. Exact(Own', content')
      BY <2>1, <2>3, <3>1 DEF CallOwns
    <3> QED
      BY <1>4, <2>2, <2>5, <3>1, <3>2, StepTrace
  <2> QED
    BY <1>4, <2>4, <2>5
<1> QED
  BY <1>2, <1>3, <1>4 DEF AddNewNoLock, Leak

LEMMA RegisterTrace ==
  ASSUME TypeOK, LockDiscipline, TraceInv, NEW t \in Threads, Register(t)
  PROVE  TraceInv'
<1>1. /\ proc = "running" /\ loc[t].failure = Null
      /\ memoryItems \in TableType /\ SameTraces(memoryItems)
  BY DEF Register, At, TraceInv, CallTraces, TypeOK, TableType, SameTraces
<1>2. \A u \in Threads : pc[u] # "moved"
  BY ConstantsAssumption DEF Register, LockFree, LockDiscipline
<1> QED
  BY <1>1, <1>2, AddNewTrace DEF Register

LEMMA ReAllocMovedTrace ==
  ASSUME TypeOK, LockDiscipline, TraceInv, NEW t \in Threads, ReAllocMoved(t)
  PROVE  TraceInv'
<1> DEFINE a == loc[t].ptr
<1>1. /\ proc = "running" /\ loc[t].failure = Null /\ a \in Addrs \union {Null}
      /\ memoryItems[a].status = "Allocated" /\ memoryItems[a].dealloc = Null
  BY DEF ReAllocMoved, At, TraceInv, CallTraces, LiveUntraced, TypeOK, Locals
<1>2. \A u \in Threads \ {t} : pc[u] # "moved"
  BY DEF ReAllocMoved, LockDiscipline
<1>3. Struck(a, Null) \in TableType
  BY <1>1, StruckType
<1>4. \A b \in Addrs \union {Null} :
        /\ Struck(a, Null)[b].alloc = memoryItems[b].alloc
        /\ Struck(a, Null)[b].dealloc = memoryItems[b].dealloc
        /\ Struck(a, Null)[b].status = "Allocated" =>
             memoryItems[b].status = "Allocated"
  BY <1>1 DEF Struck, TypeOK, SMemoryItem
<1>5. CASE Stop("assertFailed")
  BY <1>1, <1>5, StopTrace
<1>6. ASSUME NEW e, AddNewNoLock(t, Struck(a, Null), Dropped(e))
      PROVE  TraceInv'
  <2>1. SameTraces(Struck(a, Null))
    BY <1>4 DEF SameTraces
  <2> QED
    BY <1>1, <1>2, <1>3, <1>4, <1>6, <2>1, AddNewTrace
<1> QED
  BY <1>5, <1>6 DEF ReAllocMoved

\* CMemoryItem::Init parks the trace of a call for a block the tables never saw.
LEMMA ParkTrace ==
  ASSUME TypeOK, TraceInv, proc = "running", NEW t \in Threads,
         loc[t].failure = Null, Park(t), NEW l \in {"free", "earlyRealloc"},
         NEW a, Goto(t, l, [NoLoc EXCEPT !.ptr = a]),
         UNCHANGED <<memoryItems, config, proc>>
  PROVE  TraceInv'
<1> DEFINE v == [NoLoc EXCEPT !.ptr = a]
<1>1. Moves(t, l, v) /\ v.trace = Null /\ v.failure = Null
  BY DEF Goto, Moves, NoLoc
<1> HIDE DEF v
<1>2. Exact(Own', content')
  BY <1>1, ParkExact
<1> QED
  BY <1>1, <1>2, StepTrace, ConstantsAssumption DEF Leak, FailureType

LEMMA DeleteLockedTrace ==
  ASSUME Pool = {}, TypeOK, LockDiscipline, TraceInv, NEW t \in Threads, DeleteLocked(t)
  PROVE  TraceInv'
<1> DEFINE a    == loc[t].ptr
           item == memoryItems[a]
<1>1. /\ proc = "running" /\ loc[t].failure = Null /\ a \in Addrs \union {Null}
      /\ {"DoubleFree", "FreeMissmatch"} \subseteq FailureType \ {Leak}
  BY DEF DeleteLocked, At, TraceInv, CallTraces, TypeOK, Locals, FailureType, Leak
<1>2. \A u \in Threads : pc[u] # "moved"
  BY ConstantsAssumption DEF DeleteLocked, LockFree, LockDiscipline
<1>3. CASE Park(t) /\ Goto(t, "free", [NoLoc EXCEPT !.ptr = a])
           /\ UNCHANGED <<libc, tables, mutexForMap, config, proc>>
  BY <1>1, <1>3, ParkTrace DEF tables
<1>4. CASE /\ Report(t, item, a, Null, "DoubleFree")
           /\ UNCHANGED <<libc, content, tables, mutexForMap, handlerMemory,
                          config, proc>>
  BY <1>1, <1>4, ReportTrace DEF tables
<1>5. CASE Stop("assertFailed")
  BY <1>1, <1>5, StopTrace
<1>6. CASE /\ Report(t, item, a, Null, "FreeMissmatch") /\ UNCHANGED memoryItems
           /\ UNCHANGED <<libc, content, mutexForMap, handlerMemory, config, proc>>
  BY <1>1, <1>6, ReportTrace
<1>7. CASE /\ item.status = "Allocated" /\ memoryItems' = Struck(a, loc[t].trace)
           /\ Goto(t, "free", [NoLoc EXCEPT !.ptr = a])
           /\ UNCHANGED <<libc, content, mutexForMap, handlerMemory, config, proc>>
  <2> DEFINE v == [NoLoc EXCEPT !.ptr = a]
  <2>1. Moves(t, "free", v) /\ v.trace = Null /\ v.failure = Null
    BY <1>7 DEF Goto, Moves, NoLoc
  <2> HIDE DEF v
  <2>2. Exact(Own', content')
    BY <1>1, <1>7, <2>1, StrikeExact
  <2>3. LiveUntraced'
    BY <1>1, <1>7 DEF Struck, TypeOK, SMemoryItem, TraceInv, LiveUntraced
  <2> QED
    BY <1>1, <1>2, <1>7, <2>1, <2>2, <2>3, StepTrace, ConstantsAssumption
       DEF Leak, FailureType
<1> QED
  BY <1>3, <1>4, <1>5, <1>6, <1>7 DEF DeleteLocked, OfPool

LEMMA ReAllocLockedTrace ==
  ASSUME Pool = {}, TypeOK, LockDiscipline, TraceInv, NEW t \in Threads,
         ReAllocLocked(t)
  PROVE  TraceInv'
<1> DEFINE a    == loc[t].ptr
           item == memoryItems[a]
<1>1. /\ proc = "running" /\ loc[t].failure = Null /\ Null # Leak
      /\ {"BadReallocCreatedByWrongAlloc", "BadReallocDeletedMem"}
           \subseteq FailureType \ {Leak}
  BY ConstantsAssumption
     DEF ReAllocLocked, At, TraceInv, CallTraces, FailureType, Leak
<1>2. CASE /\ Park(t) /\ Goto(t, "earlyRealloc", [NoLoc EXCEPT !.ptr = a])
           /\ UNCHANGED <<libc, tables, mutexForMap, config, proc>>
  BY <1>1, <1>2, ParkTrace DEF tables
<1>3. ASSUME NEW f \in {"BadReallocCreatedByWrongAlloc", "BadReallocDeletedMem"},
             Report(t, item, a, Null, f),
             UNCHANGED <<libc, content, tables, mutexForMap, handlerMemory, config,
                         proc>>
      PROVE  TraceInv'
  BY <1>1, <1>3, ReportTrace DEF tables
<1>4. CASE Stop("blockFreedTwice")
  BY <1>1, <1>4, StopTrace
<1>5. CASE /\ content' = Release(content, UnusedTraces(t)) /\ Return(t, a, "Malloc")
           /\ UNCHANGED <<libc, tables, mutexForMap, handlerMemory, config, proc>>
  <2>1. Moves(t, "client", NoLoc) /\ NoLoc.trace = Null /\ NoLoc.failure = Null
    BY <1>5 DEF Return, Moves, NoLoc
  <2>2. Exact(Own', content')
    BY <1>1, <1>5, <2>1, DropExact DEF UnusedTraces, tables
  <2> QED
    BY <1>1, <1>5, <2>1, <2>2, StepTrace DEF tables
<1>6. ASSUME NEW v, v.ptr = a, v.trace = loc[t].trace, v.failure = loc[t].failure,
             item.status = "Allocated", Moves(t, "moved", v),
             UNCHANGED <<content, tables, handlerMemory, config, proc>>
      PROVE  TraceInv'
  <2>1. \A u \in Threads : CallOwns(loc'[u]) = CallOwns(loc[u])
    BY <1>6, OthersStay DEF CallOwns
  <2>2. Exact(Own', content')
    BY <1>1, <1>6, <2>1, QuietExact DEF tables
  <2> QED
    BY <1>1, <1>6, <2>2, StepTrace DEF tables
<1>7. ASSUME NEW r, item.status = "Allocated",
             Goto(t, "moved", [loc[t] EXCEPT !.res = r]),
             UNCHANGED <<content, tables, handlerMemory, config, proc>>
      PROVE  TraceInv'
  <2> DEFINE v == [loc[t] EXCEPT !.res = r]
  <2>1. /\ v.ptr = a /\ v.trace = loc[t].trace /\ v.failure = loc[t].failure
        /\ Moves(t, "moved", v)
    BY <1>7 DEF Goto, Moves, TypeOK, Locals
  <2> HIDE DEF v
  <2> QED
    BY <1>6, <1>7, <2>1
<1>8. CASE /\ item.status = "Allocated" /\ pc' = [pc EXCEPT ![t] = "moved"] /\ loc' = loc
           /\ UNCHANGED <<libc, content, tables, handlerMemory, config, proc,
                          given, misused, strayed, shownDead>>
  <2>1. Moves(t, "moved", loc[t])
    BY <1>8 DEF Moves, TypeOK
  <2> QED
    BY <1>6, <1>8, <2>1
<1> QED
  BY <1>2, <1>3, <1>4, <1>5, <1>7, <1>8 DEF ReAllocLocked, OfPool

LEMMA FreeTrace ==
  ASSUME TypeOK, TraceInv, NEW t \in Threads, Free(t) \/ EarlyReAlloc(t)
  PROVE  TraceInv'
<1>1. proc = "running" /\ CallOwns(loc[t]) = Null
  BY DEF Free, EarlyReAlloc, At, TraceInv, CallTraces, CallOwns
<1>2. CASE Stop("blockFreedTwice")
  BY <1>1, <1>2, StopTrace
<1>3. CASE \E r, ty : /\ Return(t, r, ty)
                      /\ UNCHANGED <<content, memoryItems, handlerMemory, config,
                                     proc>>
  BY <1>1, <1>3, ReturnTrace
<1> QED
  BY <1>2, <1>3 DEF Free, EarlyReAlloc, LibcReAlloc, tables

LEMMA CallClbkTrace ==
  ASSUME TypeOK, TraceInv, NEW t \in Threads, CallClbk(t)
  PROVE  TraceInv'
<1>1. /\ proc = "running" /\ pc[t] = "report"
      /\ UNCHANGED <<content, memoryItems, handlerMemory, config, loc>>
      /\ \/ clbkFnc = "default" /\ proc' = "exited" /\ pc' = pc
         \/ clbkFnc # "default" /\ proc' = proc /\ pc' = [pc EXCEPT ![t] = "callback"]
  BY DEF CallClbk, At, tables
<1>2. Exact(Own', content')
  BY <1>1, QuietExact
<1>3. \A u \in Threads : pc'[u] = pc[u] \/ (u = t /\ pc'[u] = "callback")
  BY <1>1 DEF TypeOK
<1>4. CallTraces' /\ LiveUntraced'
  BY <1>1, <1>3 DEF TraceInv, CallTraces, LiveUntraced
<1>5. NoneDeclined'
  BY <1>1 DEF TraceInv, NoneDeclined, config
<1> QED
  BY <1>1, <1>2, <1>4, <1>5 DEF TraceInv, NoTraceFreedTwice

\* The cleaner frees the trace of the report; for a leak the process is gone by then.
LEMMA EndClbkTrace ==
  ASSUME TypeOK, TraceInv, NEW t \in Threads, EndClbk(t)
  PROVE  TraceInv'
<1>1. proc = "running" /\ pc[t] = "callback"
  BY DEF EndClbk, At
<1>2. CASE Stop("exited") \/ Stop("blockFreedTwice")
  BY <1>1, <1>2, StopTrace
<1>3. ASSUME ~(loc[t].failure = Leak /\ LeakVerdicts \subseteq {"ExitApp"})
      PROVE  loc[t].failure # Leak
  BY <1>1, <1>3 DEF TraceInv, NoneDeclined
<1>4. CASE /\ ~(loc[t].failure = Leak /\ LeakVerdicts \subseteq {"ExitApp"})
           /\ \E r, ty : Return(t, r, ty)
           /\ content' = Release(content, {loc[t].trace})
           /\ UNCHANGED <<memoryItems, handlerMemory, config, proc>>
  <2>1. Moves(t, "client", NoLoc) /\ NoLoc.trace = Null /\ NoLoc.failure = Null
    BY <1>4 DEF Return, Moves, NoLoc
  <2>2. Exact(Own', content')
    BY <1>1, <1>3, <1>4, <2>1, DropExact
  <2> QED
    BY <1>1, <1>4, <2>1, <2>2, StepTrace, ConstantsAssumption DEF Leak, FailureType
<1>5. CASE ~(loc[t].failure = Leak /\ LeakVerdicts \subseteq {"ExitApp"})
           /\ Stop("traceFreedTwice")
           /\ Dead(content, {loc[t].trace})
  BY <1>1, <1>3, <1>5, OwnTraceLives
<1> QED
  BY <1>2, <1>4, <1>5 DEF EndClbk, Answer, LibcReAlloc, Leak, tables

LEMMA NestedCallTrace ==
  ASSUME TypeOK, TraceInv, NEW t \in Threads, NestedCall(t)
  PROVE  TraceInv'
<1>1. /\ UNCHANGED <<content, memoryItems, handlerMemory, config, pc, loc>>
      /\ proc = "running" /\ proc' \in {"running", "blockFreedTwice"}
  BY DEF NestedCall, At, tables
<1>2. Exact(Own', content')
  BY <1>1, QuietExact
<1> QED
  BY <1>1, <1>2 DEF TraceInv, NoTraceFreedTwice, CallTraces, LiveUntraced,
                    NoneDeclined, config

LEMMA SettingsTrace ==
  ASSUME TraceInv, SetMaxAllowedAllocInTheSameStack \/ ReplaceFailureClbk
  PROVE  TraceInv'
<1>1. /\ UNCHANGED <<content, memoryItems, handlerMemory, pc, loc, proc>>
      /\ proc = "running"
      /\ maxSame' = maxSame \/ maxSame' \in Limits
      /\ clbkFnc' = clbkFnc \/ clbkFnc' \in Callbacks
  BY DEF SetMaxAllowedAllocInTheSameStack, ReplaceFailureClbk, tables
<1>2. Exact(Own', content')
  BY <1>1, QuietExact
<1>3. NoneDeclined'
  BY <1>1 DEF TraceInv, NoneDeclined
<1> QED
  BY <1>1, <1>2, <1>3 DEF TraceInv, NoTraceFreedTwice, CallTraces, LiveUntraced

\* The destructor meets no trace twice, and leaves what is parked.
LEMMA DestroyTrace ==
  ASSUME TypeOK, TraceInv, Destroy
  PROVE  TraceInv'
<1> DEFINE all == {Held(p) : p \in ItemPlaces}
           n   == Emptied(Own, ItemPlaces)
<1>1. proc = "running" /\ \A p \in ItemPlaces : Own[p] = Held(p) /\ p \in Spots
  BY SpotsAre DEF Destroy, Own, Owned, ItemPlaces
<1>2. Exact(n, Release(content, all)) /\ ~Dead(content, all)
  BY <1>1, SpotsAre, EmptiedExact DEF TraceInv
<1>3. ~ \E p, q \in ItemPlaces : p # q /\ Held(p) # Null /\ Held(p) = Held(q)
  BY <1>1 DEF TraceInv, Exact
<1>4. /\ content' = Release(content, all) /\ proc' = "finished"
      /\ UNCHANGED <<memoryItems, handlerMemory, config, pc, loc>>
  BY <1>2, <1>3 DEF Destroy, tables
<1>5. \A p \in Spots : n[p] = IF p \in ItemPlaces THEN Null ELSE Own[p]
  BY DEF Emptied
<1>6. \A t \in Threads : /\ Own'[<<"call", t>>] = Own[<<"call", t>>]
                         /\ Own'[<<"parked", t>>] = Own[<<"parked", t>>]
  BY <1>4, SpotsAre DEF Own, Owned
<1>7. \A a \in Addrs \union {Null} : /\ Own'[<<"alloc", a>>] = Null
                                     /\ Own'[<<"dealloc", a>>] = Null
  BY <1>4, SpotsAre DEF Own
<1> HIDE DEF n
<1>8. Exact(Own', content')
  <2>1. /\ \A a \in Addrs \union {Null} : /\ Own'[<<"alloc", a>>] = n[<<"alloc", a>>]
                                          /\ Own'[<<"dealloc", a>>] = n[<<"dealloc", a>>]
        /\ \A u \in Threads : /\ Own'[<<"call", u>>] = n[<<"call", u>>]
                              /\ Own'[<<"parked", u>>] = n[<<"parked", u>>]
    BY <1>5, <1>6, <1>7, SpotsAre
  <2> QED
    BY <1>2, <1>4, <2>1, SameExact
<1> QED
  BY <1>4, <1>8 DEF TraceInv, NoTraceFreedTwice, CallTraces, LiveUntraced,
                    NoneDeclined, config

LEMMA InitTrace ==
  ASSUME LeaksEnd, Init
  PROVE  TraceInv
<1>1. /\ \A p \in Spots : Own[p] = Null
      /\ \A tr \in Traces : content[tr] = Null
  BY DEF Init, Own, Owned, Held, Spots, ItemPlaces, NoItem, NoLoc
<1>2. Exact(Own, content)
  BY <1>1 DEF Exact
<1>3. CallTraces /\ LiveUntraced
  BY DEF Init, CallTraces, LiveUntraced, NoItem, NoLoc
<1>4. NoneDeclined
  BY ConstantsAssumption DEF Init, LeaksEnd, NoneDeclined, NoLoc, Leak, FailureType
<1> QED
  BY <1>2, <1>3, <1>4 DEF TraceInv, NoTraceFreedTwice, Init

LEMMA NextTrace ==
  ASSUME Pool = {}, TypeOK, LockDiscipline, TraceInv, [Next]_vars
  PROVE  TraceInv'
<1>1. CASE UNCHANGED vars
  <2>1. Own' = Own /\ content' = content
    BY <1>1 DEF vars, Own, Owned, Held
  <2>2. NoTraceFreedTwice' /\ CallTraces' /\ LiveUntraced' /\ NoneDeclined'
    BY <1>1 DEF vars, TraceInv, NoTraceFreedTwice, CallTraces, LiveUntraced,
                NoneDeclined
  <2> QED
    BY <2>1, <2>2 DEF TraceInv
<1>2. ASSUME NEW t \in Threads, LibraryStep(t)
      PROVE  TraceInv'
  BY <1>2, RegisterTrace, DeleteLockedTrace, FreeTrace, ReAllocLockedTrace,
     ReAllocMovedTrace, CallClbkTrace DEF LibraryStep
<1>3. ASSUME NEW t \in Threads, CallDelete(t) \/ CallReAlloc(t)
      PROVE  TraceInv'
  BY <1>3, CallWithTrace DEF CallDelete, CallReAlloc, At
<1>4. ASSUME NEW t \in Threads, ProgramStep(t)
      PROVE  TraceInv'
  BY <1>3, <1>4, CallAllocTrace, EndClbkTrace, NestedCallTrace DEF ProgramStep
<1> QED
  BY <1>1, <1>2, <1>4, SettingsTrace, DestroyTrace DEF Next

-----------------------------------------------------------------------------
(* The theorems. *)

LEMMA TraceInvariant ==
  ASSUME Pool = {}, LeaksEnd
  PROVE  Spec => []TraceInv
<1>1. Init => TypeOK /\ LockDiscipline /\ TraceInv
  BY InitType, InitLock, InitTrace
<1>2. TypeOK /\ LockDiscipline /\ TraceInv /\ [Next]_vars =>
        TypeOK' /\ LockDiscipline' /\ TraceInv'
  BY NextType, NextLock, NextTrace
<1> QED
  BY <1>1, <1>2, PTL DEF Spec

\* Every Backtrace that is not freed is owned by one item, call or thread's parking
\* place, and whatever these hold is not freed: nothing is lost and nothing is freed
\* under its owner, whatever pointers the program passes, whatever the callback
\* answers and whatever it allocates itself.
THEOREM TracesHaveOneOwner ==
  ASSUME Pool = {}, LeaksEnd
  PROVE  Spec => []TracesOwnedOnce
<1>1. TraceInv => TracesOwnedOnce
  <2> SUFFICES ASSUME TraceInv PROVE TracesOwnedOnce
    OBVIOUS
  <2>0. \A p \in {"call", "parked"} \X Threads : p \notin ItemPlaces
    BY DEF ItemPlaces
  <2>1. Places \subseteq Spots /\ \A p \in Places : Own[p] = Owned(p)
    BY <2>0 DEF Places, Spots, Own
  <2>2. \A p \in Spots : Own[p] # Null => p \in Places
    BY SpotsAre DEF Places, Spots, Own
  <2>3. \A p, q \in Places : p # q /\ Owned(p) # Null => Owned(p) # Owned(q)
    BY <2>1 DEF TraceInv, Exact
  <2>4. \A p \in Places : Owned(p) # Null =>
          Owned(p) \in Traces /\ content[Owned(p)] # Null
    BY <2>1 DEF TraceInv, Exact
  <2>5. ASSUME NEW tr \in Traces, content[tr] # Null
        PROVE  tr # Null /\ \E p \in Places : Owned(p) = tr
    <3>1. PICK p \in Spots : Own[p] = tr
      BY <2>5 DEF TraceInv, Exact
    <3> QED
      BY <2>1, <2>2, <3>1, ConstantsAssumption
  <2>6. {Owned(p) : p \in Places} \ {Null} = {tr \in Traces : content[tr] # Null}
    BY <2>4, <2>5
  <2> QED
    BY <2>3, <2>6 DEF TracesOwnedOnce
<1> QED
  BY <1>1, TraceInvariant, PTL

\* Under the same conditions FreeBacktraceData is never given a Backtrace a second
\* time: not by a registration, not by the cleaner of a report, not by the destructor.
THEOREM TracesFreedOnce ==
  ASSUME Pool = {}, LeaksEnd
  PROVE  Spec => []NoTraceFreedTwice
<1>1. TraceInv => NoTraceFreedTwice
  BY DEF TraceInv
<1> QED
  BY <1>1, TraceInvariant, PTL

-----------------------------------------------------------------------------
(* Reports.  They are made outside the lock, from a copy of the item.          *)

\* The destructor runs when no call is under way, and is the last step.
Quiet == proc = "finished" => \A t \in Threads : pc[t] = "client"

LEMMA NextQuiet ==
  ASSUME Quiet, [Next]_vars
  PROVE  Quiet'
<1>1. ASSUME NEW how, how # "finished", Stop(how)
      PROVE  Quiet'
  BY <1>1 DEF Stop, Quiet
<1>2. CASE proc # "finished" /\ proc' # "finished"
  BY <1>2 DEF Quiet
<1>3. CASE UNCHANGED vars
  BY <1>3 DEF vars, Quiet
<1>4. CASE Destroy
  BY <1>1, <1>4 DEF Destroy, Quiet
<1>5. ASSUME NEW t \in Threads, LibraryStep(t)
      PROVE  proc # "finished" /\ proc' # "finished"
  BY <1>5 DEF LibraryStep, Register, DeleteLocked, Free, ReAllocLocked, ReAllocMoved,
              EarlyReAlloc, CallClbk, AddNewNoLock, Stop, At
<1>6. ASSUME NEW t \in Threads, ProgramStep(t)
      PROVE  proc # "finished" /\ proc' # "finished"
  BY <1>6 DEF ProgramStep, CallAlloc, CallDelete, CallReAlloc, CallWith, EndClbk,
              NestedCall, Stop, At
<1>7. CASE SetMaxAllowedAllocInTheSameStack \/ ReplaceFailureClbk
  BY <1>7 DEF SetMaxAllowedAllocInTheSameStack, ReplaceFailureClbk, Quiet
<1> QED
  BY <1>2, <1>3, <1>4, <1>5, <1>6, <1>7 DEF Next

\* The traces of an item are not freed before the destructor.
LEMMA HeldLives ==
  ASSUME TypeOK, TraceInv, proc # "finished", NEW a \in Addrs \union {Null},
         NEW tr \in TracesOf(memoryItems[a]), tr # Null
  PROVE  tr \in Traces /\ content[tr] # Null /\ content[tr] \in Stacks
<1>1. Own[<<"alloc", a>>] = tr \/ Own[<<"dealloc", a>>] = tr
  BY OwnIs DEF TracesOf
<1>2. tr \in Traces /\ content[tr] # Null
  BY <1>1, SpotsAre DEF TraceInv, Exact
<1> QED
  BY <1>2 DEF TypeOK

\* Nor by the step that comes next, unless it is the destructor's.
LEMMA HeldLivesNext ==
  ASSUME TraceInv', proc' # "finished", NEW a \in Addrs \union {Null},
         NEW tr \in TracesOf(memoryItems'[a]), tr # Null
  PROVE  tr \in Traces /\ content'[tr] # Null
<1>1. Own'[<<"alloc", a>>] = tr \/ Own'[<<"dealloc", a>>] = tr
  BY OwnIsNext DEF TracesOf
<1>2. \A p \in Spots : Own'[p] # Null => Own'[p] \in Traces /\ content'[Own'[p]] # Null
  BY DEF TraceInv, Exact
<1> QED
  BY <1>1, <1>2, SpotsAre

\* Nor is the trace a call owns.
LEMMA CallTraceLives ==
  ASSUME TypeOK, TraceInv, proc # "finished", NEW t \in Threads,
         NEW tr, tr = CallOwns(loc[t]), tr # Null
  PROVE  tr \in Traces /\ content[tr] # Null /\ content[tr] \in Stacks
<1>1. Own[<<"call", t>>] = tr
  BY OwnIs
<1>2. \A p \in Spots : Own[p] # Null => Own[p] \in Traces /\ content[Own[p]] # Null
  BY DEF TraceInv, Exact
<1>3. <<"call", t>> \in Spots
  BY SpotsAre
<1>4. tr \in Traces /\ content[tr] # Null
  BY <1>1, <1>2, <1>3
<1> QED
  BY <1>4 DEF TypeOK

\* What a report shows is the entry's, as long as its copy is up to date, or the
\* call's own.
LEMMA UpToDateLives ==
  ASSUME TypeOK, TraceInv, proc # "finished", NEW t \in Threads, UpToDate(t)
  PROVE  ~Dead(content, ShownTraces(loc[t]))
<1> DEFINE v == loc[t]
<1>1. /\ v.ptr \in Addrs \union {Null} /\ v.item = memoryItems[v.ptr]
      /\ v.trace \in Traces \union {Null}
  BY DEF UpToDate, TypeOK, Locals
<1>2. ASSUME NEW tr \in ShownTraces(v)
      PROVE  tr \in TracesOf(memoryItems[v.ptr]) \/ tr = CallOwns(v)
  BY <1>1 DEF ShownTraces, TracesOf, CallOwns, Leak
<1>3. ASSUME NEW tr \in ShownTraces(v), tr # Null
      PROVE  content[tr] # Null
  <2>1. CASE tr \in TracesOf(memoryItems[v.ptr])
    BY <1>1, <1>3, <2>1, HeldLives
  <2>2. CASE tr = CallOwns(v)
    BY <1>3, <2>2, CallTraceLives
  <2> QED
    BY <1>2, <2>1, <2>2
<1> QED
  BY <1>3 DEF Dead

\* A report reads a freed Backtrace only if the address was registered again since
\* its item was copied: no other call, cleaner or callback frees what it shows.
THEOREM ReportsAreOfOwnTraces ==
  ASSUME Pool = {}, LeaksEnd
  PROVE  Spec => []ReportsReadOwnTraces
<1>1. Init => Quiet
  BY DEF Init, Quiet
<1>2. TypeOK /\ TraceInv /\ Quiet => ReportsReadOwnTraces
  BY UpToDateLives DEF ReportsReadOwnTraces, Quiet
<1>3. Init => TypeOK
  BY InitType
<1>4. TypeOK /\ [Next]_vars => TypeOK'
  BY NextType
<1>5. Quiet /\ [Next]_vars => Quiet'
  BY NextQuiet
<1> QED
  BY <1>1, <1>2, <1>3, <1>4, <1>5, TraceInvariant, PTL DEF Spec

\* A program of one thread: nothing comes between the copy and the report.
ReportFresh ==
  ~shownDead /\ \A t \in Threads : pc[t] = "report" => UpToDate(t)

\* A step that reads no trace and leaves no report, or only one just made.
LEMMA FreshStep ==
  ASSUME TypeOK, ReportFresh, UNCHANGED shownDead, NEW m, Threads = {m},
         \/ pc'[m] # "report"
         \/ UNCHANGED <<memoryItems, pc, loc>>
         \/ \E i, p, r, f : Report(m, i, p, r, f) /\ memoryItems'[p] = i
  PROVE  ReportFresh'
<1>1. ASSUME NEW i, NEW p, NEW r, NEW f, Report(m, i, p, r, f), memoryItems'[p] = i
      PROVE  UpToDate(m)'
  BY <1>1 DEF Report, Goto, TypeOK, UpToDate
<1>2. ASSUME UNCHANGED <<memoryItems, pc, loc>>, pc'[m] = "report"
      PROVE  UpToDate(m)'
  BY <1>2 DEF ReportFresh, UpToDate
<1> QED
  BY <1>1, <1>2 DEF ReportFresh

LEMMA AddNewFresh ==
  ASSUME TypeOK, ReportFresh, NEW m, Threads = {m}, NEW table \in TableType, NEW stk,
         AddNewNoLock(m, table, stk)
  PROVE  ReportFresh'
<1> DEFINE new  == loc[m].res
           item == [type |-> loc[m].type, status |-> "Allocated",
                    alloc |-> loc[m].trace, dealloc |-> Null]
<1>1. new \in Addrs \union {Null}
  BY DEF TypeOK, Locals
<1>2. CASE Stop("traceFreedTwice") \/ Stop("segv")
  BY <1>2, FreshStep DEF Stop, tables, ghosts
<1>3. CASE Return(m, new, loc[m].type)
  BY <1>3, FreshStep DEF Return, TypeOK
<1>4. CASE memoryItems' = Entered(table, new, item) /\ Report(m, item, new, new, Leak)
  <2>1. memoryItems'[new] = item
    BY <1>1, <1>4 DEF Entered, TableType
  <2>2. shownDead' = shownDead
    BY <1>4 DEF Report, Goto, ghosts
  <2> HIDE DEF new, item
  <2> QED
    BY <1>4, <2>1, <2>2, FreshStep
<1> QED
  BY <1>2, <1>3, <1>4 DEF AddNewNoLock, Leak

LEMMA NextFresh ==
  ASSUME Pool = {}, TypeOK, TraceInv, Quiet, ReportFresh, NEW m, Threads = {m}, [Next]_vars
  PROVE  ReportFresh'
<1>0. m \in Threads
  OBVIOUS
<1>1. CASE UNCHANGED vars \/ SetMaxAllowedAllocInTheSameStack \/ ReplaceFailureClbk
  BY <1>1, FreshStep DEF vars, SetMaxAllowedAllocInTheSameStack, ReplaceFailureClbk,
                         tables, ghosts
<1>2. CASE Destroy
  BY <1>0, <1>2, FreshStep DEF Destroy, Stop, tables, ghosts
<1>3. CASE Register(m)
  BY <1>3, AddNewFresh DEF Register, TypeOK, TableType
<1>4. CASE ReAllocMoved(m)
  <2> DEFINE a == loc[m].ptr
  <2>1. CASE Stop("assertFailed")
    BY <2>1, FreshStep DEF Stop, tables, ghosts
  <2>2. ASSUME NEW e, AddNewNoLock(m, Struck(a, Null), Dropped(e))
        PROVE  ReportFresh'
    <3>1. Struck(a, Null) \in TableType
      BY <1>0, StruckType DEF TypeOK, Locals
    <3> QED
      BY <2>2, <3>1, AddNewFresh
  <2> QED
    BY <1>4, <2>1, <2>2 DEF ReAllocMoved
<1>5. ASSUME NEW f, Report(m, memoryItems[loc[m].ptr], loc[m].ptr, Null, f),
             UNCHANGED memoryItems
      PROVE  ReportFresh'
  <2>1. shownDead' = shownDead
    BY <1>5 DEF Report, Goto, ghosts
  <2> QED
    BY <1>5, <2>1, FreshStep
<1>6. ASSUME NEW how, Stop(how)
      PROVE  ReportFresh'
  BY <1>6, FreshStep DEF Stop, tables, ghosts
<1>7. ASSUME NEW l, l # "report", pc' = [pc EXCEPT ![m] = l], UNCHANGED shownDead
      PROVE  ReportFresh'
  BY <1>7, FreshStep DEF TypeOK
<1>8. CASE DeleteLocked(m)
  <2>1. \/ \E how : Stop(how)
        \/ \E f : Report(m, memoryItems[loc[m].ptr], loc[m].ptr, Null, f)
                  /\ UNCHANGED memoryItems
        \/ /\ pc' = [pc EXCEPT ![m] = "client"] \/ pc' = [pc EXCEPT ![m] = "free"]
           /\ UNCHANGED shownDead
    BY <1>8 DEF DeleteLocked, Return, Goto, tables, ghosts
  <2> QED
    BY <1>5, <1>6, <1>7, <2>1
<1>9. CASE ReAllocLocked(m)
  <2>1. \/ \E how : Stop(how)
        \/ \E f : Report(m, memoryItems[loc[m].ptr], loc[m].ptr, Null, f)
                  /\ UNCHANGED memoryItems
        \/ /\ \/ pc' = [pc EXCEPT ![m] = "client"]
              \/ pc' = [pc EXCEPT ![m] = "earlyRealloc"]
              \/ pc' = [pc EXCEPT ![m] = "moved"]
           /\ UNCHANGED shownDead
    BY <1>9 DEF ReAllocLocked, Return, Goto, tables, ghosts
  <2> QED
    BY <1>5, <1>6, <1>7, <2>1
<1>10. CASE Free(m) \/ EarlyReAlloc(m)
  BY <1>6, <1>7, <1>10 DEF Free, EarlyReAlloc, LibcReAlloc, Return
<1>11. CASE CallAlloc(m) \/ CallDelete(m) \/ CallReAlloc(m)
  BY <1>7, <1>11 DEF CallAlloc, CallDelete, CallReAlloc, CallWith, Goto, ghosts
<1>12. CASE EndClbk(m)
  BY <1>6, <1>7, <1>12 DEF EndClbk, Answer, LibcReAlloc, Return
<1>13. CASE NestedCall(m)
  BY <1>13, FreshStep DEF NestedCall, tables
<1>14. CASE CallClbk(m)
  <2>1. /\ proc = "running" /\ pc[m] = "report" /\ ~shownDead /\ UpToDate(m)
    BY <1>0, <1>14 DEF CallClbk, At, ReportFresh
  <2>2. ~Dead(content, ShownTraces(loc[m]))
    BY <1>0, <2>1, UpToDateLives
  <2>3. shownDead' = shownDead /\ UNCHANGED <<memoryItems, loc>>
    <3>1. shownDead = FALSE
      BY <2>1 DEF TypeOK
    <3>2. shownDead' = (shownDead \/ Dead(content, ShownTraces(loc[m])))
      BY <1>14 DEF CallClbk
    <3> QED
      BY <1>14, <2>2, <3>1, <3>2 DEF CallClbk, tables
  <2>4. pc' = pc \/ pc' = [pc EXCEPT ![m] = "callback"]
    BY <1>14 DEF CallClbk
  <2> QED
    BY <1>7, <2>3, <2>4, FreshStep
<1> QED
  BY <1>1, <1>2, <1>3, <1>4, <1>8, <1>9, <1>10, <1>11, <1>12, <1>13, <1>14
     DEF Next, LibraryStep, ProgramStep

\* In a program of one thread no report ever reads a freed Backtrace, whatever pointers
\* it passes: the copy taken under the lock is still the entry when it is shown.
THEOREM OneThreadReportsLiveTraces ==
  ASSUME Pool = {}, LeaksEnd, NEW m, Threads = {m}
  PROVE  Spec => []ReportsReadLiveTraces
<1> DEFINE Inv == TypeOK /\ LockDiscipline /\ TraceInv /\ Quiet /\ ReportFresh
<1>1. Init => Inv
  BY InitType, InitLock, InitTrace DEF Init, Quiet, ReportFresh
<1>2. Inv /\ [Next]_vars => Inv'
  BY NextType, NextLock, NextTrace, NextQuiet, NextFresh
<1>3. Inv => ReportsReadLiveTraces
  BY DEF ReportFresh, ReportsReadLiveTraces
<1> QED
  BY <1>1, <1>2, <1>3, PTL DEF Spec

-----------------------------------------------------------------------------
(* The counts.  A count is kept under the trace of its stack's first block, so *)
(* it is exact until that trace is freed with its item, a block is overwritten *)
(* or left uncounted, or a count drops for a block that stays: the four kinds  *)
(* of step in Skews.                                                           *)

\* The live items whose trace holds the stack s.
CountedIn(items, c, s) ==
  {a \in Addrs \union {Null} :
     items[a].status = "Allocated" /\ c[items[a].alloc] = s}

\* The stack s has one entry, which says n, or none if n is 0.
OneEntry(stk, c, s, n) ==
  IF n = 0 THEN \A k \in Traces : stk[<<k, s>>] = 0
  ELSE \E k \in Traces : /\ c[k] = s /\ stk[<<k, s>>] = n
                         /\ \A l \in Traces \ {k} : stk[<<l, s>>] = 0

Tally(items, c, stk) ==
  \A s \in Stacks :
    /\ IsFiniteSet(CountedIn(items, c, s))
    /\ OneEntry(stk, c, s, Cardinality(CountedIn(items, c, s)))

\* A key is the trace of some item's allocation, live or not.
KeysOwned(items, stk) ==
  \A k \in Traces, s \in Stacks :
    stk[<<k, s>>] > 0 => \E a \in Addrs \union {Null} : items[a].alloc = k

\* Every live item has a trace.
ItemsTraced(items) ==
  \A a \in Addrs \union {Null} : items[a].status = "Allocated" => items[a].alloc # Null

CountInv ==
  /\ NoAssertFails
  /\ proc # "finished" =>
       /\ ItemsTraced(memoryItems)
       /\ KeysOwned(memoryItems, stackItems)
       /\ Tally(memoryItems, content, stackItems)

-----------------------------------------------------------------------------
(* What finding, striking and entering do to the counts. *)

\* The counts do not notice what happens to traces that are neither a key nor a live
\* item's.
LEMMA TallyKept ==
  ASSUME NEW items, NEW c, NEW d, NEW stk \in CountType, Tally(items, c, stk),
         \A a \in Addrs \union {Null} :
           items[a].status = "Allocated" => d[items[a].alloc] = c[items[a].alloc],
         \A k \in Traces, s \in Stacks : stk[<<k, s>>] > 0 => d[k] = c[k]
  PROVE  Tally(items, d, stk)
<1> SUFFICES ASSUME NEW s \in Stacks
             PROVE  /\ IsFiniteSet(CountedIn(items, d, s))
                    /\ OneEntry(stk, d, s, Cardinality(CountedIn(items, d, s)))
  BY DEF Tally
<1>1. CountedIn(items, d, s) = CountedIn(items, c, s)
  BY DEF CountedIn
<1> DEFINE n == Cardinality(CountedIn(items, c, s))
<1>2. IsFiniteSet(CountedIn(items, c, s)) /\ OneEntry(stk, c, s, n) /\ n \in Nat
  BY FS_CardinalityType DEF Tally
<1> HIDE DEF n
<1>3. OneEntry(stk, d, s, n)
  <2>1. CASE n = 0
    BY <1>2, <2>1 DEF OneEntry
  <2>2. CASE n # 0
    <3>1. PICK k \in Traces : /\ c[k] = s /\ stk[<<k, s>>] = n
                              /\ \A l \in Traces \ {k} : stk[<<l, s>>] = 0
      BY <1>2, <2>2 DEF OneEntry
    <3>2. d[k] = s
      BY <1>2, <2>2, <3>1
    <3> QED
      BY <2>2, <3>1, <3>2 DEF OneEntry
  <2> QED
    BY <2>1, <2>2
<1> QED
  BY <1>1, <1>2, <1>3 DEF n

\* A live trace is found under the one entry of its stack, if there is one.
LEMMA FoundIs ==
  ASSUME NEW items, NEW c, NEW stk \in CountType, Tally(items, c, stk),
         NEW q, c[q] \in Stacks, NEW e \in FindStackEntry(stk, c, q)
  PROVE  LET s == c[q]
             n == Cardinality(CountedIn(items, c, s))
         IN \/ e = NotFound /\ n = 0
            \/ /\ e # NotFound /\ n \in Nat \ {0}
               /\ \E k \in Traces : /\ e = <<k, s>> /\ c[k] = s /\ stk[e] = n
                                    /\ \A l \in Traces \ {k} : stk[<<l, s>>] = 0
<1> DEFINE s == c[q]
           n == Cardinality(CountedIn(items, c, s))
           Entries == {x \in Traces \X Stacks : stk[x] > 0}
<1>1. OneEntry(stk, c, s, n) /\ n \in Nat
  BY FS_CardinalityType DEF Tally
<1>2. s # Null /\ HashedAs(c, q) = {s}
  BY ConstantsAssumption DEF HashedAs
<1>3. \/ e \in Entries /\ e[2] = s
      \/ e = NotFound /\ ~ \E x \in Entries : s = x[2] /\ c[x[1]] = x[2]
  BY <1>2 DEF FindStackEntry
<1> HIDE DEF n, s
<1>4. CASE n = 0
  <2>1. ASSUME e \in Entries, e[2] = s
        PROVE  FALSE
    <3>1. e[1] \in Traces /\ e = <<e[1], s>> /\ stk[e] > 0
      BY <2>1
    <3> QED
      BY <1>1, <1>4, <3>1 DEF OneEntry
  <2> QED
    BY <1>3, <1>4, <2>1 DEF n, s
<1>5. CASE n # 0
  <2>1. PICK k \in Traces : /\ c[k] = s /\ stk[<<k, s>>] = n
                            /\ \A l \in Traces \ {k} : stk[<<l, s>>] = 0
    BY <1>1, <1>5 DEF OneEntry
  <2>2. <<k, s>> \in Entries
    BY <1>1, <1>5, <2>1 DEF s
  <2>3. e \in Entries /\ e[2] = s
    BY <1>3, <2>1, <2>2
  <2>4. e = <<k, s>>
    <3>1. e[1] \in Traces /\ e = <<e[1], s>> /\ stk[e] > 0
      BY <2>3
    <3> QED
      BY <2>1, <3>1
  <2>5. e # NotFound
    BY <2>4, ConstantsAssumption DEF NotFound
  <2> QED
    BY <1>1, <1>5, <2>1, <2>4, <2>5 DEF n, s
<1> QED
  BY <1>4, <1>5

\* A count drops with the live block that goes.
LEMMA StrikeTally ==
  ASSUME NEW items, NEW fewer, NEW c, NEW stk \in CountType, Tally(items, c, stk),
         NEW a \in Addrs \union {Null}, items[a].status = "Allocated",
         c[items[a].alloc] \in Stacks, fewer[a].status # "Allocated",
         \A b \in Addrs \union {Null} : b # a => fewer[b] = items[b],
         NEW e \in FindStackEntry(stk, c, items[a].alloc)
  PROVE  e # NotFound /\ Tally(fewer, c, [stk EXCEPT ![e] = @ - 1])
<1> DEFINE s   == c[items[a].alloc]
           C   == CountedIn(items, c, s)
           n   == Cardinality(C)
           new == [stk EXCEPT ![e] = @ - 1]
<1>1. IsFiniteSet(C) /\ a \in C
  BY DEF Tally, CountedIn
<1>2. n # 0
  BY <1>1, FS_EmptySet
<1>3. PICK k \in Traces : /\ e = <<k, s>> /\ c[k] = s /\ stk[e] = n /\ e # NotFound
                          /\ n \in Nat \ {0}
                          /\ \A l \in Traces \ {k} : stk[<<l, s>>] = 0
  BY <1>2, FoundIs
<1>4. \A l \in Traces, r \in Stacks :
        new[<<l, r>>] = IF l = k /\ r = s THEN n - 1 ELSE stk[<<l, r>>]
  BY <1>3 DEF CountType
<1>5. ASSUME NEW r \in Stacks
      PROVE  IsFiniteSet(CountedIn(fewer, c, r))
             /\ OneEntry(new, c, r, Cardinality(CountedIn(fewer, c, r)))
  <2>1. CASE r = s
    <3>1. CountedIn(fewer, c, r) = C \ {a}
      BY <2>1 DEF CountedIn
    <3>2. IsFiniteSet(C \ {a}) /\ Cardinality(C \ {a}) = n - 1
      BY <1>1, FS_RemoveElement
    <3> HIDE DEF C, n, s, new
    <3>3. OneEntry(new, c, r, n - 1)
      BY <1>3, <1>4, <2>1 DEF OneEntry
    <3> QED
      BY <3>1, <3>2, <3>3
  <2>2. CASE r # s
    <3>1. CountedIn(fewer, c, r) = CountedIn(items, c, r)
      BY <2>2 DEF CountedIn
    <3>2. \A l \in Traces : new[<<l, r>>] = stk[<<l, r>>]
      BY <1>4, <2>2
    <3> DEFINE D == CountedIn(items, c, r)
               m == Cardinality(D)
    <3>3. IsFiniteSet(D) /\ OneEntry(stk, c, r, m)
      BY DEF Tally
    <3> HIDE DEF C, D, n, m, s, new
    <3>4. OneEntry(new, c, r, m)
      BY <3>2, <3>3 DEF OneEntry
    <3> QED
      BY <3>1, <3>3, <3>4 DEF D, m
  <2> QED
    BY <2>1, <2>2
<1> QED
  BY <1>3, <1>5 DEF Tally

\* There are n of them.
Counts(items, c, s, n) == Cardinality(CountedIn(items, c, s)) = n

\* more has one live item more than items, under a and with the trace tr of the
\* stack s, and e is what is found for tr.
OneMore(items, more, c, stk, a, tr, s, e) ==
  /\ stk \in CountType /\ Tally(items, c, stk)
  /\ a \in Addrs \union {Null} /\ items[a].status # "Allocated"
  /\ tr \in Traces /\ s \in Stacks /\ c[tr] = s
  /\ more[a].status = "Allocated" /\ more[a].alloc = tr
  /\ \A b \in Addrs \union {Null} : b # a => more[b] = items[b]
  /\ e \in FindStackEntry(stk, c, tr)

\* A count rises with the block that comes; the first of a stack makes its entry.
LEMMA EnterTally ==
  ASSUME NEW items, NEW more, NEW c, NEW stk, NEW a, NEW tr, NEW s, NEW e,
         OneMore(items, more, c, stk, a, tr, s, e)
  PROVE  /\ e = NotFound =>
              /\ Tally(more, c, [stk EXCEPT ![<<tr, s>>] = 1])
              /\ Counts(more, c, s, 1)
         /\ e # NotFound =>
              /\ Tally(more, c, [stk EXCEPT ![e] = @ + 1])
              /\ Counts(more, c, s, stk[e] + 1)
<1> DEFINE C == CountedIn(items, c, s)
           n == Cardinality(C)
<1>0. /\ stk \in CountType /\ Tally(items, c, stk) /\ e \in FindStackEntry(stk, c, tr)
      /\ a \in Addrs \union {Null} /\ items[a].status # "Allocated"
      /\ tr \in Traces /\ s \in Stacks /\ c[tr] = s
      /\ more[a].status = "Allocated" /\ more[a].alloc = tr
      /\ \A b \in Addrs \union {Null} : b # a => more[b] = items[b]
  BY DEF OneMore
<1>1. IsFiniteSet(C) /\ a \notin C /\ n \in Nat
  BY <1>0, FS_CardinalityType DEF Tally, CountedIn
<1>2. CountedIn(more, c, s) = C \union {a}
  BY <1>0 DEF CountedIn
<1>3. IsFiniteSet(C \union {a}) /\ Cardinality(C \union {a}) = n + 1
  BY <1>1, FS_AddElement
<1>4. \/ e = NotFound /\ n = 0
      \/ /\ e # NotFound /\ n # 0
         /\ \E k \in Traces : /\ e = <<k, s>> /\ c[k] = s /\ stk[e] = n
                              /\ \A l \in Traces \ {k} : stk[<<l, s>>] = 0
  BY <1>0, FoundIs
<1>5. OneEntry(stk, c, s, n)
  BY <1>0 DEF Tally
<1> HIDE DEF n, C
<1>6. ASSUME NEW new \in CountType, NEW k \in Traces, c[k] = s, new[<<k, s>>] = n + 1,
             \A l \in Traces \ {k} : new[<<l, s>>] = 0,
             \A l \in Traces, r \in Stacks : r # s => new[<<l, r>>] = stk[<<l, r>>]
      PROVE  Tally(more, c, new)
  <2>1. ASSUME NEW r \in Stacks
        PROVE  IsFiniteSet(CountedIn(more, c, r))
               /\ OneEntry(new, c, r, Cardinality(CountedIn(more, c, r)))
    <3>1. CASE r = s
      <4>1. OneEntry(new, c, r, n + 1)
        BY <1>1, <1>6, <3>1 DEF OneEntry
      <4> QED
        BY <1>2, <1>3, <3>1, <4>1
    <3>2. CASE r # s
      <4>1. CountedIn(more, c, r) = CountedIn(items, c, r)
        BY <1>0, <3>2 DEF CountedIn
      <4> DEFINE D == CountedIn(items, c, r)
                 m == Cardinality(D)
      <4>2. IsFiniteSet(D) /\ OneEntry(stk, c, r, m)
        BY <1>0 DEF Tally
      <4> HIDE DEF D, m
      <4>3. OneEntry(new, c, r, m)
        BY <1>6, <3>2, <4>2 DEF OneEntry
      <4> QED
        BY <4>1, <4>2, <4>3 DEF D, m
    <3> QED
      BY <3>1, <3>2
  <2> QED
    BY <2>1 DEF Tally
<1>7. CASE e = NotFound
  <2> DEFINE new == [stk EXCEPT ![<<tr, s>>] = 1]
  <2>1. n = 0 /\ \A l \in Traces : stk[<<l, s>>] = 0
    BY <1>4, <1>5, <1>7 DEF OneEntry
  <2>2. /\ new \in CountType
        /\ \A l \in Traces, r \in Stacks :
             new[<<l, r>>] = IF l = tr /\ r = s THEN 1 ELSE stk[<<l, r>>]
    BY <1>0 DEF CountType
  <2> HIDE DEF new
  <2>3. /\ new[<<tr, s>>] = n + 1
        /\ \A l \in Traces \ {tr} : new[<<l, s>>] = 0
        /\ \A l \in Traces, r \in Stacks : r # s => new[<<l, r>>] = stk[<<l, r>>]
    BY <1>0, <2>1, <2>2
  <2>4. Tally(more, c, new)
    BY <1>0, <1>6, <2>2, <2>3
  <2> QED
    BY <1>2, <1>3, <1>7, <2>1, <2>4 DEF new, Counts
<1>8. CASE e # NotFound
  <2> DEFINE new == [stk EXCEPT ![e] = @ + 1]
  <2>1. PICK k \in Traces : /\ e = <<k, s>> /\ c[k] = s /\ stk[e] = n
                            /\ \A l \in Traces \ {k} : stk[<<l, s>>] = 0
    BY <1>4, <1>8
  <2>2. /\ new \in CountType
        /\ \A l \in Traces, r \in Stacks :
             new[<<l, r>>] = IF l = k /\ r = s THEN n + 1 ELSE stk[<<l, r>>]
    BY <1>0, <1>1, <2>1 DEF CountType
  <2> HIDE DEF new
  <2>3. Tally(more, c, new)
    BY <1>0, <1>6, <2>1, <2>2
  <2> QED
    BY <1>2, <1>3, <1>8, <2>1, <2>3 DEF new, Counts
<1> QED
  BY <1>7, <1>8

-----------------------------------------------------------------------------
(* Steps that leave the tables alone. *)

\* The tables stay, and no trace of an item is freed.
LEMMA StepCount ==
  ASSUME TypeOK, TraceInv, TraceInv', CountInv, proc = "running",
         proc' \notin {"finished", "assertFailed"}, UNCHANGED tables,
         \A x \in Traces : content[x] # Null => content'[x] \in {content[x], Null}
  PROVE  CountInv'
<1>1. /\ UNCHANGED <<memoryItems, stackItems>> /\ stackItems \in CountType
      /\ ItemsTraced(memoryItems) /\ KeysOwned(memoryItems, stackItems)
      /\ Tally(memoryItems, content, stackItems)
  BY DEF CountInv, tables, TypeOK, CountType
<1>2. ASSUME NEW a \in Addrs \union {Null}, memoryItems[a].alloc # Null
      PROVE  content'[memoryItems[a].alloc] = content[memoryItems[a].alloc]
  <2> DEFINE tr == memoryItems[a].alloc
  <2>1. tr \in TracesOf(memoryItems[a]) /\ tr \in TracesOf(memoryItems'[a])
    BY <1>1 DEF TracesOf
  <2> HIDE DEF tr
  <2>2. tr # Null
    BY <1>2 DEF tr
  <2>3. tr \in Traces /\ content[tr] # Null
    BY <2>1, <2>2, HeldLives
  <2>4. content'[tr] # Null
    BY <2>1, <2>2, HeldLivesNext
  <2> QED
    BY <2>3, <2>4 DEF tr
<1>3. \A k \in Traces, s \in Stacks : stackItems[<<k, s>>] > 0 => content'[k] = content[k]
  BY <1>1, <1>2, ConstantsAssumption DEF KeysOwned
<1>4. Tally(memoryItems, content', stackItems)
  BY <1>1, <1>2, <1>3, TallyKept DEF ItemsTraced
<1> QED
  BY <1>1, <1>4 DEF CountInv, NoAssertFails

LEMMA StopCount ==
  ASSUME CountInv, proc = "running", NEW how, how # "assertFailed", Stop(how)
  PROVE  CountInv'
BY DEF Stop, CountInv, NoAssertFails, tables

\* Freeing traces makes a trace Null or leaves it.
LEMMA ReleaseShape ==
  ASSUME NEW S
  PROVE  \A x \in Traces : Release(content, S)[x] \in {content[x], Null}
BY DEF Release

\* Filling a fresh one changes no other.
LEMMA FillShape ==
  ASSUME NEW tr \in FreshTraces, NEW s
  PROVE  \A x \in Traces : content[x] # Null => Fill(tr, s)[x] = content[x]
BY ConstantsAssumption DEF FreshTraces, Fill

\* All steps but registrations, deletes and the end.
LEMMA OtherCount ==
  ASSUME TypeOK, TraceInv, TraceInv', CountInv, NEW t \in Threads,
         \/ Free(t) \/ ReAllocLocked(t) \/ EarlyReAlloc(t) \/ CallClbk(t)
         \/ ProgramStep(t)
  PROVE  CountInv'
<1>1. ASSUME Free(t) \/ EarlyReAlloc(t) \/ CallClbk(t) \/ NestedCall(t)
      PROVE  /\ proc = "running" /\ proc' \notin {"finished", "assertFailed"}
             /\ UNCHANGED <<content, tables>>
  BY <1>1 DEF Free, EarlyReAlloc, CallClbk, NestedCall, Stop, At
<1>2. ASSUME ReAllocLocked(t)
      PROVE  /\ proc = "running" /\ proc' \notin {"finished", "assertFailed"}
             /\ UNCHANGED tables
             /\ content' = content \/ \E S : content' = Release(content, S)
  BY <1>2 DEF ReAllocLocked, Park, Stop, At
<1>3. ASSUME EndClbk(t)
      PROVE  /\ proc = "running" /\ proc' \notin {"finished", "assertFailed"}
             /\ UNCHANGED tables
             /\ content' = content \/ \E S : content' = Release(content, S)
  BY <1>3 DEF EndClbk, Stop, At
<1>4. ASSUME CallAlloc(t) \/ CallDelete(t) \/ CallReAlloc(t)
      PROVE  /\ proc = "running" /\ proc' = proc /\ UNCHANGED tables
             /\ \E tr \in FreshTraces, s \in Stacks : content' = Fill(tr, s)
  BY <1>4 DEF CallAlloc, CallDelete, CallReAlloc, CallWith, At
<1>5. CASE content' = content \/ \E S : content' = Release(content, S)
  <2>1. \A x \in Traces : content'[x] \in {content[x], Null}
    BY <1>5, ReleaseShape
  <2>2. /\ proc = "running" /\ proc' \notin {"finished", "assertFailed"}
        /\ UNCHANGED tables
    BY <1>1, <1>2, <1>3, <1>4 DEF ProgramStep
  <2> QED
    BY <2>1, <2>2, StepCount
<1>6. CASE CallAlloc(t) \/ CallDelete(t) \/ CallReAlloc(t)
  <2>1. \A x \in Traces : content[x] # Null => content'[x] = content[x]
    BY <1>4, <1>6, FillShape
  <2> QED
    BY <1>4, <1>6, <2>1, StepCount
<1> QED
  BY <1>1, <1>2, <1>3, <1>5, <1>6 DEF ProgramStep

LEMMA SettingsCount ==
  ASSUME CountInv, SetMaxAllowedAllocInTheSameStack \/ ReplaceFailureClbk
  PROVE  CountInv'
<1>1. UNCHANGED <<content, memoryItems, stackItems, proc>>
  BY DEF SetMaxAllowedAllocInTheSameStack, ReplaceFailureClbk, tables
<1> QED
  BY <1>1 DEF CountInv, NoAssertFails

LEMMA DestroyCount ==
  ASSUME CountInv, Destroy
  PROVE  CountInv'
<1>1. CASE Stop("traceFreedTwice")
  BY <1>1, StopCount DEF Destroy
<1>2. CASE proc' = "finished"
  BY <1>2 DEF CountInv, NoAssertFails
<1> QED
  BY <1>1, <1>2 DEF Destroy

-----------------------------------------------------------------------------
(* Deallocations. *)

\* What the table still says after a block is struck.
LEMMA StruckKnows ==
  ASSUME TypeOK, NEW a \in Addrs \union {Null}, NEW tr \in Traces \union {Null}
  PROVE  /\ \A b \in Addrs \union {Null} :
              /\ Struck(a, tr)[b].alloc = memoryItems[b].alloc
              /\ b # a => Struck(a, tr)[b] = memoryItems[b]
         /\ Struck(a, tr)[a].status # "Allocated"
BY DEF Struck, TypeOK, SMemoryItem

\* The assertion of TestOperatorDelete and TestOperatorReAlloc: the stack of a live
\* block has an entry, whose count drops with the block.
LEMMA StrikeCount ==
  ASSUME TypeOK, TraceInv, CountInv, proc = "running",
         NEW a \in Addrs \union {Null}, memoryItems[a].status = "Allocated",
         NEW tr \in Traces \union {Null},
         NEW e \in FindStackEntry(stackItems, content, memoryItems[a].alloc)
  PROVE  /\ e # NotFound /\ Dropped(e) \in CountType
         /\ ItemsTraced(Struck(a, tr)) /\ KeysOwned(Struck(a, tr), Dropped(e))
         /\ Tally(Struck(a, tr), content, Dropped(e))
<1>1. /\ ItemsTraced(memoryItems) /\ KeysOwned(memoryItems, stackItems)
      /\ Tally(memoryItems, content, stackItems) /\ stackItems \in CountType
  BY DEF CountInv, TypeOK, CountType
<1>2. content[memoryItems[a].alloc] \in Stacks
  BY <1>1, HeldLives DEF TracesOf, ItemsTraced
<1>3. e # NotFound /\ Tally(Struck(a, tr), content, Dropped(e))
  <2> DEFINE S == Struck(a, tr)
  <2>1. /\ S[a].status # "Allocated"
        /\ \A b \in Addrs \union {Null} : b # a => S[b] = memoryItems[b]
    BY StruckKnows
  <2> HIDE DEF S
  <2>2. e # NotFound /\ Tally(S, content, [stackItems EXCEPT ![e] = @ - 1])
    BY <1>1, <1>2, <2>1, StrikeTally
  <2> QED
    BY <2>2 DEF Dropped, S
<1>4. Dropped(e) \in CountType
  BY <1>3, DroppedType
<1>5. e \in Traces \X Stacks
  BY <1>1, <1>3, FindStackEntryFinds
<1>6. \A x \in Traces \X Stacks : Dropped(e)[x] > 0 => stackItems[x] > 0
  BY <1>1, <1>5 DEF Dropped, CountType
<1>7. KeysOwned(Struck(a, tr), Dropped(e))
  BY <1>1, <1>6, StruckKnows DEF KeysOwned
<1>8. ItemsTraced(Struck(a, tr))
  BY <1>1, StruckKnows DEF ItemsTraced
<1> QED
  BY <1>3, <1>4, <1>7, <1>8

LEMMA DeleteLockedCount ==
  ASSUME TypeOK, TraceInv, TraceInv', CountInv, NEW t \in Threads, DeleteLocked(t),
         ~DropsCountOnly(t)
  PROVE  CountInv'
<1> DEFINE a    == loc[t].ptr
           item == memoryItems[a]
<1>1. /\ proc = "running" /\ pc[t] = "delete" /\ a \in Addrs \union {Null}
      /\ loc[t].trace \in Traces \union {Null}
  BY DEF DeleteLocked, At, TypeOK, Locals
<1>2. CASE /\ UNCHANGED <<tables, proc>>
           /\ content' = content \/ \E S : content' = Release(content, S)
  <2>1. \A x \in Traces : content'[x] \in {content[x], Null}
    BY <1>2, ReleaseShape
  <2> QED
    BY <1>1, <1>2, <2>1, StepCount
<1>3. CASE /\ item.status = "Allocated"
           /\ \E e \in FindStackEntry(stackItems, content, item.alloc) : e = NotFound
  BY <1>1, <1>3, StrikeCount
<1>4. CASE Report(t, item, a, Null, "FreeMissmatch")
  BY <1>1, <1>4 DEF Report, Goto, TypeOK, DropsCountOnly
<1>5. ASSUME item.status = "Allocated",
             NEW e \in FindStackEntry(stackItems, content, item.alloc),
             stackItems' = Dropped(e), memoryItems' = Struck(a, loc[t].trace),
             UNCHANGED <<content, proc>>
      PROVE  CountInv'
  <2>1. /\ ItemsTraced(memoryItems') /\ KeysOwned(memoryItems', stackItems')
        /\ Tally(memoryItems', content', stackItems')
    BY <1>1, <1>5, StrikeCount
  <2> QED
    BY <1>1, <1>5, <2>1 DEF CountInv, NoAssertFails
<1> QED
  BY <1>2, <1>3, <1>4, <1>5 DEF DeleteLocked, Park

-----------------------------------------------------------------------------
(* Registrations. *)

\* A thread registers an address in the given tables, which may have had an item
\* struck under the same lock; no live item is there.
RegistersIn(t, table, stk) ==
  /\ loc[t].failure = Null /\ pc[t] \in {"register", "moved"}
  /\ table \in TableType /\ stk \in CountType
  /\ \A b \in Addrs \union {Null} :
       /\ table[b].alloc = memoryItems[b].alloc
       /\ TracesOf(table[b]) \subseteq TracesOf(memoryItems[b])
  /\ table[loc[t].res].status # "Allocated"
  /\ ItemsTraced(table) /\ KeysOwned(table, stk) /\ Tally(table, content, stk)

\* Before the new block is counted: the traces freed with the old item are neither
\* keys nor live items', and the trace of the call is no key.
LEMMA CleanTally ==
  ASSUME TypeOK, TraceInv, proc = "running", NEW t \in Threads, NEW table, NEW stk,
         RegistersIn(t, table, stk), loc[t].trace # Null,
         \A s \in Stacks : stk[<<table[loc[t].res].alloc, s>>] = 0
                          \/ table[loc[t].res].alloc = Null
  PROVE  LET c == Release(content, TracesOf(table[loc[t].res]))
         IN /\ Tally(table, c, stk)
            /\ loc[t].trace \in Traces /\ c[loc[t].trace] = content[loc[t].trace]
            /\ content[loc[t].trace] \in Stacks
            /\ \A s \in Stacks : stk[<<loc[t].trace, s>>] = 0
<1> DEFINE new == loc[t].res
           old == TracesOf(table[new])
           c   == Release(content, old)
           tr  == loc[t].trace
<1>1. new \in Addrs \union {Null}
  BY DEF TypeOK, Locals
<1>2. tr = CallOwns(loc[t])
  BY ConstantsAssumption DEF RegistersIn, CallOwns, Leak, FailureType
<1>3. tr \in Traces /\ content[tr] \in Stacks
  BY <1>2, CallTraceLives
<1>4. \A p, q \in Spots : Own[p] # Null /\ Own[p] = Own[q] => p = q
  BY DEF TraceInv, Exact
<1>5. ASSUME NEW b \in Addrs \union {Null}, b # new, table[b].alloc # Null
      PROVE  table[b].alloc \notin old
  <2> DEFINE x == memoryItems[b].alloc
  <2>1. /\ x # Null /\ x = table[b].alloc /\ Own[<<"alloc", b>>] = x
        /\ Own[<<"alloc", new>>] = memoryItems[new].alloc
        /\ Own[<<"dealloc", new>>] = memoryItems[new].dealloc
    BY <1>1, <1>5, OwnIs DEF RegistersIn
  <2>2. /\ {<<"alloc", b>>, <<"alloc", new>>, <<"dealloc", new>>} \subseteq Spots
        /\ <<"alloc", b>> # <<"alloc", new>> /\ <<"alloc", b>> # <<"dealloc", new>>
    BY <1>1, <1>5, SpotsAre
  <2> HIDE DEF x, new
  <2>3. x # memoryItems[new].alloc /\ x # memoryItems[new].dealloc
    BY <1>4, <2>1, <2>2
  <2>4. table[b].alloc \notin TracesOf(memoryItems[new])
    BY <2>1, <2>3 DEF TracesOf
  <2> QED
    BY <1>1, <2>4 DEF RegistersIn
<1>6. ASSUME NEW b \in Addrs \union {Null}
      PROVE  tr \notin TracesOf(memoryItems[b])
  <2>1. /\ tr # Null /\ Own[<<"call", t>>] = tr
        /\ Own[<<"alloc", b>>] = memoryItems[b].alloc
        /\ Own[<<"dealloc", b>>] = memoryItems[b].dealloc
    BY <1>2, OwnIs
  <2>2. /\ {<<"alloc", b>>, <<"dealloc", b>>, <<"call", t>>} \subseteq Spots
        /\ <<"alloc", b>> # <<"call", t>> /\ <<"dealloc", b>> # <<"call", t>>
    BY SpotsAre
  <2> HIDE DEF tr
  <2>3. tr # memoryItems[b].alloc /\ tr # memoryItems[b].dealloc
    BY <1>4, <2>1, <2>2
  <2> QED
    BY <2>3 DEF TracesOf
<1>7. tr \notin old
  BY <1>1, <1>6 DEF RegistersIn
<1>8. \A x \in Traces \ old : c[x] = content[x]
  BY DEF Release
<1>9. \A s \in Stacks : stk[<<tr, s>>] = 0
  <2>1. ASSUME NEW s \in Stacks, stk[<<tr, s>>] > 0
        PROVE  FALSE
    <3>1. PICK b \in Addrs \union {Null} : table[b].alloc = tr
      BY <1>3, <2>1 DEF RegistersIn, KeysOwned
    <3> QED
      BY <1>6, <3>1 DEF RegistersIn, TracesOf
  <2>2. \A s \in Stacks : stk[<<tr, s>>] \in Nat
    BY <1>3 DEF RegistersIn, CountType
  <2> QED
    BY <2>1, <2>2
<1>10. ASSUME NEW k \in Traces, NEW s \in Stacks, stk[<<k, s>>] > 0
       PROVE  c[k] = content[k]
  <2>1. PICK b \in Addrs \union {Null} : table[b].alloc = k
    BY <1>10 DEF RegistersIn, KeysOwned
  <2>2. k # Null /\ b # new
    BY <1>10, <2>1, ConstantsAssumption
  <2> QED
    BY <1>5, <1>8, <2>1, <2>2
<1>11. ASSUME NEW b \in Addrs \union {Null}, table[b].status = "Allocated"
       PROVE  c[table[b].alloc] = content[table[b].alloc]
  <2>1. b # new /\ table[b].alloc # Null /\ table[b].alloc \in Traces \union {Null}
    BY <1>11 DEF RegistersIn, ItemsTraced, TableType, SMemoryItem
  <2> QED
    BY <1>5, <1>8, <2>1
<1>12. Tally(table, c, stk)
  <2> HIDE DEF c
  <2> QED
    BY <1>10, <1>11, TallyKept DEF RegistersIn
<1> QED
  BY <1>3, <1>7, <1>8, <1>9, <1>12

\* AddNewAllocatedMemoryAndCleanOldEntryNoLock counts the new block, and reports a
\* leak exactly if the count passes a limit that is set.
LEMMA AddNewCount ==
  ASSUME TypeOK, TraceInv, CountInv, proc = "running", NEW t \in Threads,
         NEW table, NEW stk, RegistersIn(t, table, stk), AddNewNoLock(t, table, stk),
         ~(Registers(t) /\ (FreesKey(t) \/ Uncounted(t)))
  PROVE  /\ CountInv'
         /\ Registers(t) =>
              (pc'[t] = "report" <=>
                 /\ maxSame > 0
                 /\ Cardinality(CountedIn(memoryItems', content',
                                          content[loc[t].trace])) > maxSame)
<1> DEFINE new  == loc[t].res
           tr   == loc[t].trace
           s    == content[tr]
           old  == TracesOf(table[new])
           c    == Release(content, old)
           item == [type |-> loc[t].type, status |-> "Allocated",
                    alloc |-> tr, dealloc |-> Null]
<1>1. CASE Stop("traceFreedTwice") \/ Stop("segv")
  <2>1. ~Registers(t)
    BY <1>1 DEF Stop, Registers
  <2> QED
    BY <1>1, <2>1, StopCount
<1>2. ASSUME tr # Null, content' = c, memoryItems' = Entered(table, new, item),
             UNCHANGED <<config, proc>>,
             NEW e \in FindStackEntry(stk, c, tr),
             \/ /\ e = NotFound
                /\ \E r \in HashedAs(c, tr) : stackItems' = [stk EXCEPT ![<<tr, r>>] = 1]
                /\ Return(t, new, loc[t].type)
             \/ /\ e # NotFound /\ maxSame = 0 /\ stackItems' = stk
                /\ Return(t, new, loc[t].type)
             \/ /\ e # NotFound /\ maxSame > 0
                /\ stackItems' = [stk EXCEPT ![e] = @ + 1]
                /\ IF TooMany(stk[e] + 1) THEN Report(t, item, new, new, Leak)
                                          ELSE Return(t, new, loc[t].type)
      PROVE  /\ CountInv'
             /\ Registers(t) =>
                  (pc'[t] = "report" <=>
                     /\ maxSame > 0
                     /\ Cardinality(CountedIn(memoryItems', content', s)) > maxSame)
    <2>1. /\ new \in Addrs \union {Null} /\ stk \in CountType /\ maxSame \in Nat
          /\ memoryItems[new].alloc = table[new].alloc
          /\ table[new].alloc \in Traces \union {Null}
      BY DEF RegistersIn, TypeOK, Locals, TableType, SMemoryItem
    <2>2. /\ pc'[t] = IF e # NotFound /\ maxSame > 0 /\ TooMany(stk[e] + 1)
                      THEN "report" ELSE "client"
          /\ Registers(t)
      BY <1>2 DEF Return, Report, Goto, TypeOK, RegistersIn, Registers
    <2>3. ~FreesKey(t) /\ ~Uncounted(t)
      BY <2>2
    <2>4. e # NotFound => e \in Traces \X Stacks /\ stk[e] > 0
      BY <2>1, FindStackEntryFinds
    <2>5. ASSUME NEW x \in Traces \X Stacks, stk[x] > 0
          PROVE  stackItems'[x] > 0
      <3>1. stk[x] \in Nat \ {0}
        BY <2>1, <2>5 DEF CountType
      <3>2. CASE \E r : stackItems' = [stk EXCEPT ![<<tr, r>>] = 1]
        BY <2>1, <2>5, <3>1, <3>2 DEF CountType
      <3>3. CASE stackItems' = stk
        BY <2>5, <3>3
      <3>4. CASE stackItems' = [stk EXCEPT ![e] = @ + 1]
        BY <2>1, <2>5, <3>1, <3>4 DEF CountType
      <3> QED
        BY <1>2, <3>2, <3>3, <3>4
    <2>6. \A r \in Stacks : stk[<<table[new].alloc, r>>] = 0 \/ table[new].alloc = Null
      <3>1. ASSUME NEW r \in Stacks, table[new].alloc # Null
            PROVE  stk[<<table[new].alloc, r>>] = 0
        <4> DEFINE k == table[new].alloc
        <4>1. k \in Traces /\ stk[<<k, r>>] \in Nat /\ k = memoryItems[loc[t].res].alloc
          BY <2>1, <3>1 DEF CountType
        <4> HIDE DEF k
        <4>2. ~(stackItems'[<<k, r>>] > 0)
          BY <2>3, <4>1 DEF FreesKey
        <4>3. stk[<<k, r>>] = 0
          BY <2>5, <4>1, <4>2
        <4> QED
          BY <4>3 DEF k
      <3> QED
        BY <3>1
    <2>7. /\ Tally(table, c, stk)
          /\ tr \in Traces /\ c[tr] = s /\ s \in Stacks
          /\ \A r \in Stacks : stk[<<tr, r>>] = 0
      BY <1>2, <2>6, CleanTally
    <2>8. s # Null /\ HashedAs(c, tr) = {s}
      BY <2>7, ConstantsAssumption DEF HashedAs
    <2>9. ~(e # NotFound /\ maxSame = 0)
      BY <1>2, <2>3, <2>7 DEF Uncounted
    <2>10. \/ e = NotFound /\ stackItems' = [stk EXCEPT ![<<tr, s>>] = 1]
           \/ /\ e # NotFound /\ maxSame > 0
              /\ stackItems' = [stk EXCEPT ![e] = @ + 1]
      BY <1>2, <2>8, <2>9
    <2> DEFINE more == memoryItems'
    <2>11. /\ \A b \in Addrs \union {Null} : b # new => more[b] = table[b]
           /\ more[new].status = "Allocated" /\ more[new].alloc = tr
      BY <1>2, <2>1 DEF RegistersIn, TableType, Entered
    <2> HIDE DEF c, item, more, s
    <2>12. /\ Tally(more, c, stackItems')
           /\ e = NotFound => Counts(more, c, s, 1)
           /\ e # NotFound => Counts(more, c, s, stk[e] + 1)
      <3>1. table[new].status # "Allocated"
        BY DEF RegistersIn
      <3> HIDE DEF new, tr
      <3>2. OneMore(table, more, c, stk, new, tr, s, e)
        BY <1>2, <2>1, <2>7, <2>11, <3>1 DEF OneMore
      <3>3. /\ e = NotFound => /\ Tally(more, c, [stk EXCEPT ![<<tr, s>>] = 1])
                              /\ Counts(more, c, s, 1)
            /\ e # NotFound => /\ Tally(more, c, [stk EXCEPT ![e] = @ + 1])
                              /\ Counts(more, c, s, stk[e] + 1)
        BY <3>2, EnterTally
      <3> QED
        BY <2>10, <3>3
    <2>13. ItemsTraced(more)
      BY <1>2, <2>11 DEF RegistersIn, ItemsTraced
    <2>14. KeysOwned(more, stackItems')
      <3>1. \A x \in Traces \X Stacks :
              stackItems'[x] > 0 => stk[x] > 0 \/ x = <<tr, s>>
        BY <2>1, <2>4, <2>7, <2>10 DEF CountType
      <3>2. ASSUME NEW k \in Traces, NEW r \in Stacks, stackItems'[<<k, r>>] > 0
            PROVE  \E b \in Addrs \union {Null} : more[b].alloc = k
        <4>1. CASE k = tr
          BY <2>1, <2>11, <4>1
        <4>2. CASE k # tr
          <5>1. stk[<<k, r>>] > 0
            BY <3>1, <3>2, <4>2
          <5>2. PICK b \in Addrs \union {Null} : table[b].alloc = k
            BY <5>1 DEF RegistersIn, KeysOwned
          <5>3. b # new
            BY <2>6, <5>1, <5>2, ConstantsAssumption
          <5> QED
            BY <2>11, <5>2, <5>3
        <4> QED
          BY <4>1, <4>2
      <3> QED
        BY <3>2 DEF KeysOwned
    <2>15. CountInv'
      BY <1>2, <2>12, <2>13, <2>14 DEF CountInv, NoAssertFails, more
    <2>16. pc'[t] = "report" <=> maxSame > 0 /\ Cardinality(CountedIn(more, c, s)) > maxSame
      <3>1. CASE e = NotFound
        <4>1. Cardinality(CountedIn(more, c, s)) = 1 /\ pc'[t] # "report"
          BY <2>2, <2>12, <3>1 DEF Counts
        <4> QED
          BY <2>1, <4>1
      <3>2. CASE e # NotFound
        BY <2>2, <2>10, <2>12, <3>2 DEF Counts, TooMany
      <3> QED
        BY <3>1, <3>2
    <2> QED
      BY <1>2, <2>15, <2>16 DEF more
<1>3. \/ Stop("traceFreedTwice") \/ Stop("segv")
      \/ /\ tr # Null /\ content' = c /\ memoryItems' = Entered(table, new, item)
         /\ UNCHANGED <<config, proc>>
         /\ \E e \in FindStackEntry(stk, c, tr) :
              \/ /\ e = NotFound
                 /\ \E r \in HashedAs(c, tr) :
                      stackItems' = [stk EXCEPT ![<<tr, r>>] = 1]
                 /\ Return(t, new, loc[t].type)
              \/ /\ e # NotFound /\ maxSame = 0 /\ stackItems' = stk
                 /\ Return(t, new, loc[t].type)
              \/ /\ e # NotFound /\ maxSame > 0
                 /\ stackItems' = [stk EXCEPT ![e] = @ + 1]
                 /\ IF TooMany(stk[e] + 1) THEN Report(t, item, new, new, Leak)
                                           ELSE Return(t, new, loc[t].type)
  BY DEF AddNewNoLock, Leak
<1> HIDE DEF c, item, s
<1> QED
  BY <1>1, <1>2, <1>3 DEF s

\* The conclusion of AddNewCount.
CountedRight(t) ==
  /\ CountInv'
  /\ Registers(t) =>
       (pc'[t] = "report" <=>
          /\ maxSame > 0
          /\ Cardinality(CountedIn(memoryItems', content', content[loc[t].trace]))
               > maxSame)

\* A registration that is none of Skews.
Sound(t) == ~(Registers(t) /\ (FreesKey(t) \/ Overwrites(t) \/ Uncounted(t)))

LEMMA StopsRight ==
  ASSUME CountInv, proc = "running", NEW t \in Threads, NEW how,
         how # "assertFailed", Stop(how)
  PROVE  CountedRight(t)
<1>1. ~Registers(t)
  BY DEF Stop, Registers
<1> QED
  BY <1>1, StopCount DEF CountedRight

LEMMA AddNewRight ==
  ASSUME TypeOK, TraceInv, CountInv, proc = "running", NEW t \in Threads,
         NEW table, NEW stk, AddNewNoLock(t, table, stk), Sound(t),
         ~Overwrites(t) => RegistersIn(t, table, stk), pc[t] \in {"register", "moved"}
  PROVE  CountedRight(t)
<1>1. CASE Registers(t)
  BY <1>1, AddNewCount DEF Sound, CountedRight
<1>2. CASE ~Registers(t)
  <2>1. Stop("traceFreedTwice") \/ Stop("segv")
    BY <1>2 DEF AddNewNoLock, Return, Report, Goto, Registers, TypeOK
  <2> QED
    BY <2>1, StopsRight
<1> QED
  BY <1>1, <1>2

LEMMA RegisterCount ==
  ASSUME TypeOK, TraceInv, CountInv, NEW t \in Threads, Register(t), Sound(t)
  PROVE  CountedRight(t)
<1>1. proc = "running" /\ pc[t] = "register" /\ loc[t].failure = Null
  BY DEF Register, At, TraceInv, CallTraces
<1>2. ~Overwrites(t) => RegistersIn(t, memoryItems, stackItems)
  BY <1>1 DEF RegistersIn, CountInv, TypeOK, TableType, CountType, Overwrites
<1> QED
  BY <1>1, <1>2, AddNewRight DEF Register

LEMMA ReAllocMovedCount ==
  ASSUME TypeOK, TraceInv, CountInv, NEW t \in Threads, ReAllocMoved(t), Sound(t)
  PROVE  CountedRight(t)
<1> DEFINE a == loc[t].ptr
           S == Struck(a, Null)
<1>1. /\ proc = "running" /\ pc[t] = "moved" /\ loc[t].failure = Null
      /\ a \in Addrs \union {Null} /\ memoryItems[a].status = "Allocated"
      /\ loc[t].res \in Addrs \union {Null}
  BY DEF ReAllocMoved, At, TraceInv, CallTraces, TypeOK, Locals
<1>2. PICK e \in FindStackEntry(stackItems, content, memoryItems[a].alloc) :
        \/ e = NotFound /\ Stop("assertFailed")
        \/ e # NotFound /\ AddNewNoLock(t, S, Dropped(e))
  BY DEF ReAllocMoved
<1>3. /\ e # NotFound /\ Dropped(e) \in CountType
      /\ ItemsTraced(S) /\ KeysOwned(S, Dropped(e))
      /\ Tally(S, content, Dropped(e))
  BY <1>1, StrikeCount
<1>4. /\ S \in TableType /\ S[a].status # "Allocated"
      /\ \A b \in Addrs \union {Null} : /\ S[b].alloc = memoryItems[b].alloc
                                        /\ b # a => S[b] = memoryItems[b]
  BY <1>1, StruckKnows, StruckType
<1>5. S[a].dealloc = Null /\ memoryItems[a].dealloc = Null
  BY <1>1 DEF Struck, TypeOK, SMemoryItem, TraceInv, LiveUntraced
<1> HIDE DEF S
<1>6. \A b \in Addrs \union {Null} : TracesOf(S[b]) \subseteq TracesOf(memoryItems[b])
  BY <1>4, <1>5 DEF TracesOf
<1>7. ~Overwrites(t) => S[loc[t].res].status # "Allocated"
  BY <1>1, <1>4 DEF Overwrites
<1>8. ~Overwrites(t) => RegistersIn(t, S, Dropped(e))
  BY <1>1, <1>3, <1>4, <1>6, <1>7 DEF RegistersIn
<1> QED
  BY <1>1, <1>2, <1>3, <1>8, AddNewRight

-----------------------------------------------------------------------------
(* The theorems. *)

LEMMA InitCount ==
  ASSUME Init
  PROVE  CountInv
<1>1. \A s \in Stacks : CountedIn(memoryItems, content, s) = {}
  BY DEF Init, CountedIn, NoItem
<1>2. Tally(memoryItems, content, stackItems)
  BY <1>1, FS_EmptySet DEF Tally, OneEntry, Init
<1>3. KeysOwned(memoryItems, stackItems) /\ ItemsTraced(memoryItems)
  BY DEF Init, KeysOwned, ItemsTraced, NoItem
<1> QED
  BY <1>2, <1>3 DEF CountInv, NoAssertFails, Init

LEMMA NextCount ==
  ASSUME Pool = {}, TypeOK, LockDiscipline, TraceInv, CountInv, [Next /\ ~Skews]_vars
  PROVE  CountInv'
<1>1. TraceInv'
  BY NextTrace
<1>2. CASE UNCHANGED vars
  BY <1>2 DEF vars, CountInv, NoAssertFails
<1>3. ASSUME NEW t \in Threads, LibraryStep(t), ~Skews
      PROVE  CountInv'
  <2>1. Sound(t) /\ ~DropsCountOnly(t)
    BY <1>3 DEF Skews, Sound
  <2> QED
    BY <1>1, <1>3, <2>1, RegisterCount, DeleteLockedCount, ReAllocMovedCount, OtherCount
       DEF LibraryStep, CountedRight
<1>4. ASSUME NEW t \in Threads, ProgramStep(t)
      PROVE  CountInv'
  BY <1>1, <1>4, OtherCount
<1> QED
  BY <1>2, <1>3, <1>4, SettingsCount, DestroyCount DEF Next

LEMMA CountInvariant ==
  ASSUME Pool = {}, LeaksEnd
  PROVE  CountSpec => [](TypeOK /\ LockDiscipline /\ TraceInv /\ CountInv)
<1> DEFINE Inv == TypeOK /\ LockDiscipline /\ TraceInv /\ CountInv
<1>1. Init => Inv
  BY InitType, InitLock, InitTrace, InitCount
<1>2. Inv /\ [Next /\ ~Skews]_vars => Inv'
  <2>1. [Next /\ ~Skews]_vars => [Next]_vars
    OBVIOUS
  <2> QED
    BY <2>1, NextType, NextLock, NextTrace, NextCount
<1> QED
  BY <1>1, <1>2, PTL DEF CountSpec

\* Up to the first step of Skews, m_stackItems has exactly one entry for every stack
\* with live blocks, whose key is a live trace of that stack and whose count is the
\* number of those blocks, whatever pointers the program passes, from however many
\* threads, and whichever addresses libc hands out again.
THEOREM StackCountsAreExact ==
  ASSUME Pool = {}, LeaksEnd
  PROVE  CountSpec => []StackTableExact
<1>1. TypeOK /\ CountInv => StackTableExact
  <2> SUFFICES ASSUME TypeOK, CountInv, proc # "finished", NEW s \in Stacks
               PROVE  LET n == Cardinality(CountedFor(s))
                          keys == {k \in Traces : stackItems[<<k, s>>] > 0}
                      IN IF n = 0 THEN keys = {}
                         ELSE \E k \in Traces : /\ keys = {k} /\ content[k] = s
                                                /\ stackItems[<<k, s>>] = n
    BY DEF StackTableExact
  <2> DEFINE n == Cardinality(CountedFor(s))
             keys == {k \in Traces : stackItems[<<k, s>>] > 0}
  <2>1. CountedFor(s) = CountedIn(memoryItems, content, s)
    BY DEF CountedFor, CountedIn
  <2>2. OneEntry(stackItems, content, s, n) /\ n \in Nat
    BY <2>1, FS_CardinalityType DEF CountInv, Tally
  <2>3. \A k \in Traces : stackItems[<<k, s>>] \in Nat
    BY DEF TypeOK
  <2> HIDE DEF n
  <2>4. CASE n = 0
    BY <2>2, <2>4 DEF OneEntry, n
  <2>5. CASE n # 0
    <3>1. PICK k \in Traces : /\ content[k] = s /\ stackItems[<<k, s>>] = n
                              /\ \A l \in Traces \ {k} : stackItems[<<l, s>>] = 0
      BY <2>2, <2>5 DEF OneEntry
    <3>2. keys = {k}
      BY <2>2, <2>3, <2>5, <3>1
    <3> QED
      BY <2>5, <3>1, <3>2 DEF n
  <2> QED
    BY <2>4, <2>5
<1> QED
  BY <1>1, CountInvariant, PTL

\* Up to the first step of Skews the assertion that a freed block's stack has a count
\* never fails, in TestOperatorDelete and in TestOperatorReAlloc.
THEOREM CountAssertHolds ==
  ASSUME Pool = {}, LeaksEnd
  PROVE  CountSpec => []NoAssertFails
<1>1. CountInv => NoAssertFails
  BY DEF CountInv
<1> QED
  BY <1>1, CountInvariant, PTL

\* A thread between the libc call and the registration of its result is moved on by
\* the registration only.
LEMMA OnlyRegistered ==
  ASSUME TypeOK, NEW t \in Threads, pc[t] \in {"register", "moved"}, pc'[t] # pc[t],
         [Next]_vars
  PROVE  Register(t) \/ ReAllocMoved(t)
<1>1. ASSUME NEW u \in Threads, NEW l, pc' = [pc EXCEPT ![u] = l]
      PROVE  u = t
  BY <1>1 DEF TypeOK
<1>2. pc' # pc
  OBVIOUS
<1>3. ASSUME NEW u \in Threads, Free(u) \/ EarlyReAlloc(u) \/ CallClbk(u)
      PROVE  FALSE
  BY <1>1, <1>2, <1>3
     DEF Free, EarlyReAlloc, LibcReAlloc, CallClbk, Stop, Return, At
<1>4. ASSUME NEW u \in Threads, DeleteLocked(u)
      PROVE  FALSE
  BY <1>1, <1>2, <1>4 DEF DeleteLocked, Stop, Return, Report, Goto, At
<1>5. ASSUME NEW u \in Threads, ReAllocLocked(u)
      PROVE  FALSE
  BY <1>1, <1>2, <1>5 DEF ReAllocLocked, Stop, Return, Report, Goto, At
<1>6. ASSUME NEW u \in Threads, Register(u) \/ ReAllocMoved(u)
      PROVE  u = t
  BY <1>1, <1>2, <1>6 DEF Register, ReAllocMoved, AddNewNoLock, Stop, Return, Report, Goto
<1>7. ASSUME NEW u \in Threads, ProgramStep(u)
      PROVE  FALSE
  BY <1>1, <1>2, <1>7
     DEF ProgramStep, CallAlloc, CallDelete, CallReAlloc, CallWith, EndClbk, NestedCall,
         Answer, LibcReAlloc, Stop, Return, Goto, At
<1>8. /\ ~SetMaxAllowedAllocInTheSameStack /\ ~ReplaceFailureClbk /\ ~Destroy
  BY <1>2 DEF SetMaxAllowedAllocInTheSameStack, ReplaceFailureClbk, Destroy, Stop
<1> QED
  BY <1>2, <1>3, <1>4, <1>5, <1>6, <1>7, <1>8 DEF Next, LibraryStep, vars

\* Up to the first step of Skews a registration reports a leak exactly when a limit is
\* set and, with the new block, more blocks of its stack are live than it allows.
THEOREM LeaksAreCountedRight ==
  ASSUME Pool = {}, LeaksEnd
  PROVE  CountSpec => LeakReportExact
<1> DEFINE Inv == TypeOK /\ LockDiscipline /\ TraceInv /\ CountInv
<1>1. ASSUME Inv, [Next /\ ~Skews]_vars,
             NEW t \in Threads, NEW s \in Stacks,
             Registers(t), content[loc[t].trace] = s
      PROVE  pc'[t] = "report" <=>
               maxSame > 0 /\ Cardinality(CountedFor(s)') > maxSame
  <2>1. ~Skews /\ [Next]_vars
    BY <1>1 DEF Registers, vars
  <2>2. Sound(t)
    BY <2>1 DEF Skews, Sound
  <2>3. CountedRight(t)
    BY <1>1, <2>1, <2>2, OnlyRegistered, RegisterCount, ReAllocMovedCount DEF Registers
  <2>4. CountedFor(s)' = CountedIn(memoryItems', content', s)
    BY DEF CountedFor, CountedIn
  <2> QED
    BY <1>1, <2>3, <2>4 DEF CountedRight
<1>2. Inv /\ [Next /\ ~Skews]_vars =>
        [\A t \in Threads, s \in Stacks :
           Registers(t) /\ content[loc[t].trace] = s =>
             (pc'[t] = "report" <=>
                maxSame > 0 /\ Cardinality(CountedFor(s)') > maxSame)]_vars
  BY <1>1
<1> QED
  BY <1>2, CountInvariant, PTL DEF CountSpec, LeakReportExact
=============================================================================
