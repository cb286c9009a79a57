--------------------------- MODULE LeakOnlyProofs ---------------------------
(***************************************************************************)
(* Theorems about LeakOnly.  First, for any client: type correctness, and  *)
(* that the library never comes back to its own lock.  Both need to know   *)
(* what s_isOngoing counts: the IntHandlers alive on a thread, which       *)
(* depend on where the call is, and one more for good after a report,      *)
(* because exit() unwinds nothing.  Then, for a client whose threads run   *)
(* only between the constructor of s_memData and the end of main():        *)
(* the two tables agree with each other and with libc's heap, the          *)
(* assertions hold, and leaks are reported when, and only when, there is   *)
(* one.                                                                    *)
(***************************************************************************)
EXTENDS LeakOnly, Integers, FiniteSetTheorems, TLAPS

\* IntHandlers alive in a call: the one of AllocMem or FreeMemAnalyze, and the
\* one of InitRaw.
OfCall(c) ==
  IF c.op = "new" \/ (c.op = "delete" /\ c.at \in {"lock", "section", "leave"})
  THEN 1 ELSE 0
OfInit(c) == IF c.at \in {"makeStack", "makeMem"} THEN 1 ELSE 0

\* Which operation can be at a label.
OpsAt(c) ==
  /\ c.at \in {"client", "deleteMem", "deleteStack", "deleteMutex"} => c.op = "none"
  /\ c.at \in {"init", "malloc"} => c.op = "new"
  /\ c.at \in {"makeMutex", "makeStack", "makeMem"} => c.op \in {"new", "construct"}
  /\ c.at \in {"lock", "section", "leave"} => c.op \in {"new", "delete"}
  /\ c.at = "free" => c.op = "delete"

\* What s_isOngoing of t is while t is at c.
Counts(n, c) ==
  /\ OpsAt(c)
  /\ n \in {OfCall(c) + OfInit(c), OfCall(c) + OfInit(c) + 1}
  /\ c.op = "new" => n = OfCall(c) + OfInit(c)

HandlersCounted == \A t \in Threads : Counts(ongoing[t], call[t])

LeakInv == LeakTypeOK /\ HandlersCounted /\ NoReentry

\* The types of a call.
CallType == [at : Labels, op : {"new", "delete", "construct", "none"},
             addr : Addrs \union {Null}, stack : Stacks \union {Null}]

\* A step of t that leaves the other threads' calls and counters alone.
LEMMA OneThread ==
  ASSUME LeakTypeOK, HandlersCounted, NEW t \in Threads,
         NEW c \in CallType, call' = [call EXCEPT ![t] = c],
         NEW n, ongoing' = [ongoing EXCEPT ![t] = n], Counts(n, c)
  PROVE  /\ HandlersCounted'
         /\ call' \in [Threads -> CallType]
         /\ ongoing' \in [Threads -> 0..3]
<1>1. call \in [Threads -> CallType] /\ ongoing \in [Threads -> 0..3]
  BY DEF LeakTypeOK, CallType
<1>2. n \in 0..3
  BY DEF Counts, OfCall, OfInit
<1> QED
  BY <1>1, <1>2 DEF HandlersCounted

\* A process that stops keeps everything else.
LEMMA StopLeak ==
  ASSUME LeakInv, NEW o \in {"assertFailed", "segv", "race"}, Stop(o)
  PROVE  LeakInv'
BY DEF Stop, LeakInv, LeakTypeOK, HandlersCounted, NoReentry, guards, life,
       tables, blocks, ends

\* What OneThread leaves to show of a step that does not end the process.
LEMMA GoOn ==
  ASSUME LeakInv, NEW t \in Threads,
         NEW c \in CallType, call' = [call EXCEPT ![t] = c],
         \/ ongoing' = ongoing /\ Counts(ongoing[t], c)
         \/ ongoing' = Entered(t) /\ Counts(ongoing[t] + 1, c)
         \/ ongoing' = Left(t) /\ Counts(ongoing[t] - 1, c),
         proc' = proc,
         initOrExit' \in BOOLEAN, made' \subseteq Parts,
         owner' \in Threads \union {Null}, once' \in {"never", "running", "done"},
         memItems' \in [Addrs -> Stacks \union {Null}],
         stackItems' \in [Stacks -> Nat],
         memData' \in {"raw", "made", "gone"}, leaver' \in Threads \union {Null},
         heap' \subseteq Addrs, held' \subseteq Addrs, reported' \in BOOLEAN,
         origin' \in [Addrs -> Stacks \union {Null}]
  PROVE  LeakInv'
<1>1. ongoing \in [Threads -> 0..3] /\ proc # "reentered"
  BY DEF LeakInv, LeakTypeOK, NoReentry
<1>2. PICK n : ongoing' = [ongoing EXCEPT ![t] = n] /\ Counts(n, c)
  BY <1>1 DEF Entered, Left
<1>3. HandlersCounted' /\ call' \in [Threads -> CallType]
      /\ ongoing' \in [Threads -> 0..3]
  BY <1>2, OneThread DEF LeakInv
<1> QED
  BY <1>1, <1>3 DEF LeakInv, LeakTypeOK, NoReentry, CallType

\* What a step may use of the types.
LEMMA Typed ==
  ASSUME LeakInv, NEW t \in Threads
  PROVE  /\ call \in [Threads -> CallType] /\ call[t] \in CallType
         /\ ongoing[t] \in 0..3 /\ Counts(ongoing[t], call[t])
         /\ initOrExit \in BOOLEAN /\ made \subseteq Parts
         /\ owner \in Threads \union {Null} /\ once \in {"never", "running", "done"}
         /\ memItems \in [Addrs -> Stacks \union {Null}]
         /\ stackItems \in [Stacks -> Nat]
         /\ memData \in {"raw", "made", "gone"} /\ leaver \in Threads \union {Null}
         /\ heap \subseteq Addrs /\ held \subseteq Addrs /\ reported \in BOOLEAN
         /\ origin \in [Addrs -> Stacks \union {Null}]
BY DEF LeakInv, LeakTypeOK, HandlersCounted, CallType

\* A call that goes on to another label.
LEMMA Moved ==
  ASSUME NEW d \in CallType, NEW l \in Labels, NEW c, c = [d EXCEPT !.at = l]
  PROVE  /\ c \in CallType /\ c.at = l
         /\ c.op = d.op /\ c.addr = d.addr /\ c.stack = d.stack
BY DEF CallType

\* A call made anew.
LEMMA Framed ==
  ASSUME NEW l \in Labels, NEW o \in {"new", "delete", "construct", "none"},
         NEW a \in Addrs \union {Null}, NEW s \in Stacks \union {Null}
  PROVE  /\ Frame(l, o, a, s) \in CallType
         /\ Frame(l, o, a, s).at = l /\ Frame(l, o, a, s).op = o
BY DEF CallType, Frame

\* A thread that is in no call.
LEMMA Idling ==
  /\ Idle \in CallType /\ OpsAt(Idle) /\ Idle.op = "none"
  /\ OfCall(Idle) = 0 /\ OfInit(Idle) = 0
<1>1. Idle \in CallType /\ Idle.at = "client" /\ Idle.op = "none"
  BY Framed DEF Idle, Labels
<1> QED
  BY <1>1 DEF OpsAt, OfCall, OfInit

\* The counter follows the handlers of the call.
LEMMA Follows ==
  ASSUME NEW d, NEW c, NEW n \in Nat, NEW m \in Int, Counts(n, d), OpsAt(c),
         m + OfCall(d) + OfInit(d) = n + OfCall(c) + OfInit(c),
         c.op = "new" => d.op = "new"
  PROVE  Counts(m, c)
BY DEF Counts, OfCall, OfInit

\* Thread t goes from where it is to the call c; the types of the rest are left
\* to the prover.
LEMMA InitRawLeak ==
  ASSUME LeakInv, NEW t \in Threads,
         Construct(t) \/ SkipInit(t) \/ CallOnce(t) \/ MakeMutex(t)
           \/ MakeStack(t) \/ MakeMem(t)
  PROVE  LeakInv'
<1> USE DEF guards, life, tables, blocks, ends
<1> DEFINE d == call[t]
           n == ongoing[t]
<1>0. d \in CallType /\ n \in Nat /\ Counts(n, d) /\ OpsAt(d)
  BY Typed DEF Counts
<1>1. CASE Construct(t)
  <2> DEFINE c == Frame("makeMutex", "construct", Null, Null)
  <2>1. d.at = "client" /\ d.op = "none"
    BY <1>0, <1>1 DEF Construct, At, OpsAt
  <2>2. c \in CallType /\ c.at = "makeMutex" /\ c.op = "construct"
    BY Framed DEF Labels
  <2>3. call' = [call EXCEPT ![t] = c]
    BY <1>1 DEF Construct
  <2> HIDE DEF c
  <2>4. OpsAt(c) /\ OfCall(c) = 0 /\ OfInit(c) = 0
    BY <2>2 DEF OpsAt, OfCall, OfInit
  <2>5. OfCall(d) = 0 /\ OfInit(d) = 0
    BY <2>1 DEF OfCall, OfInit
  <2>6. Counts(n, c)
    BY <1>0, <2>2, <2>4, <2>5 DEF Counts
  <2> QED
    BY <1>1, <2>2, <2>3, <2>6, Typed, GoOn DEF Construct
<1>2. CASE SkipInit(t) \/ CallOnce(t)
  <2> PICK l \in {"malloc", "makeMutex"} : Goto(t, l)
    BY <1>2 DEF SkipInit, CallOnce
  <2> DEFINE c == [d EXCEPT !.at = l]
  <2>1. d.at = "init" /\ d.op = "new"
    BY <1>0, <1>2 DEF SkipInit, CallOnce, At, OpsAt
  <2>2. c \in CallType /\ c.at = l /\ c.op = "new"
    BY <1>0, <2>1, Moved DEF Labels
  <2>3. call' = [call EXCEPT ![t] = c]
    BY DEF Goto
  <2> HIDE DEF c
  <2>4. OpsAt(c) /\ OfCall(c) = 1 /\ OfInit(c) = 0
    BY <2>2 DEF OpsAt, OfCall, OfInit
  <2>5. OfCall(d) = 1 /\ OfInit(d) = 0
    BY <2>1 DEF OfCall, OfInit
  <2>6. Counts(n, c)
    BY <1>0, <2>1, <2>2, <2>4, <2>5 DEF Counts
  <2> QED
    BY <1>2, <2>2, <2>3, <2>6, Typed, GoOn DEF SkipInit, CallOnce
<1>3. CASE MakeMutex(t)
  <2> DEFINE c == [d EXCEPT !.at = "makeStack"]
  <2>1. d.at = "makeMutex" /\ d.op \in {"new", "construct"}
    BY <1>0, <1>3 DEF MakeMutex, At, OpsAt
  <2>2. c \in CallType /\ c.at = "makeStack" /\ c.op = d.op
    BY <1>0, Moved DEF Labels
  <2>3. call' = [call EXCEPT ![t] = c]
    BY <1>3 DEF MakeMutex, Goto
  <2> HIDE DEF c
  <2>4. OpsAt(c) /\ OfCall(c) = OfCall(d) /\ OfInit(c) = 1
    BY <2>1, <2>2 DEF OpsAt, OfCall, OfInit
  <2>5. OfInit(d) = 0 /\ OfCall(d) \in Nat
    BY <2>1 DEF OfCall, OfInit
  <2>6. Counts(n + 1, c)
    BY <1>0, <2>2, <2>4, <2>5, Follows
  <2>7. made' \subseteq Parts
    BY <1>3, Typed DEF MakeMutex, Parts
  <2> QED
    BY <1>3, <2>2, <2>3, <2>6, <2>7, Typed, GoOn DEF MakeMutex
<1>4. CASE MakeStack(t)
  <2> DEFINE c == [d EXCEPT !.at = "makeMem"]
  <2>1. d.at = "makeStack" /\ d.op \in {"new", "construct"}
    BY <1>0, <1>4 DEF MakeStack, At, OpsAt
  <2>2. c \in CallType /\ c.at = "makeMem" /\ c.op = d.op
    BY <1>0, Moved DEF Labels
  <2>3. call' = [call EXCEPT ![t] = c]
    BY <1>4 DEF MakeStack, Goto
  <2> HIDE DEF c
  <2>4. OpsAt(c) /\ OfCall(c) = OfCall(d) /\ OfInit(c) = OfInit(d)
    BY <2>1, <2>2 DEF OpsAt, OfCall, OfInit
  <2>5. Counts(n, c)
    BY <1>0, <2>2, <2>4 DEF Counts
  <2>6. made' \subseteq Parts /\ stackItems' \in [Stacks -> Nat]
    BY <1>4, Typed DEF MakeStack, Parts, NoStacks
  <2> QED
    BY <1>4, <2>2, <2>3, <2>5, <2>6, Typed, GoOn DEF MakeStack
<1>5. CASE MakeMem(t)
  <2> DEFINE c == IF d.op = "construct" THEN Idle
                  ELSE [d EXCEPT !.at = "malloc"]
  <2>1. d.at = "makeMem" /\ d.op \in {"new", "construct"}
    BY <1>0, <1>5 DEF MakeMem, At, OpsAt
  <2>2. OfInit(d) = 1 /\ OfCall(d) = IF d.op = "new" THEN 1 ELSE 0
    BY <2>1 DEF OfCall, OfInit
  <2>3. c \in CallType /\ OpsAt(c) /\ OfInit(c) = 0 /\ OfCall(c) = OfCall(d)
        /\ (c.op = "new" => d.op = "new")
    <3>1. CASE d.op = "construct"
      <4>1. c = Idle
        BY <3>1
      <4> HIDE DEF c
      <4> QED
        BY <2>2, <3>1, <4>1, Idling
    <3>2. CASE d.op = "new"
      <4>1. c \in CallType /\ c.at = "malloc" /\ c.op = "new"
        BY <1>0, <3>2, Moved DEF Labels
      <4> HIDE DEF c
      <4> QED
        BY <2>2, <3>2, <4>1 DEF OpsAt, OfCall, OfInit
    <3> QED
      BY <2>1, <3>1, <3>2
  <2>4. call' = [call EXCEPT ![t] = c]
    BY <1>5 DEF MakeMem, Goto
  <2> HIDE DEF c
  <2>5. OfCall(d) \in Nat /\ n - 1 \in Int
    BY <1>0, <2>2
  <2>6. Counts(n - 1, c)
    <3>1. n - 1 + OfCall(d) + OfInit(d) = n + OfCall(c) + OfInit(c)
      BY <1>0, <2>2, <2>3, <2>5
    <3> QED
      BY <1>0, <2>3, <2>5, <3>1, Follows
  <2>7. /\ made' \subseteq Parts
        /\ memItems' \in [Addrs -> Stacks \union {Null}]
        /\ origin' \in [Addrs -> Stacks \union {Null}]
        /\ once' \in {"never", "running", "done"}
        /\ memData' \in {"raw", "made", "gone"}
    BY <1>5, Typed DEF MakeMem, Parts, NoItems
  <2> QED
    BY <1>5, <2>3, <2>4, <2>6, <2>7, Typed, GoOn DEF MakeMem
<1> QED
  BY <1>1, <1>2, <1>3, <1>4, <1>5

\* The news and deletes up to the critical section.
LEMMA CallsLeak ==
  ASSUME LeakInv, NEW t \in Threads,
         PassNew(t) \/ CallNew(t) \/ Malloc(t) \/ CallDelete(t) \/ Lock(t)
  PROVE  LeakInv'
<1> USE Typed DEF guards, life, tables, blocks, ends, CallType, Labels, Frame, Idle
<1>1. CASE PassNew(t)
  BY <1>1 DEF PassNew, LeakInv, LeakTypeOK, HandlersCounted, NoReentry
<1>2. CASE CallNew(t)
  <2>1. PICK s \in Stacks :
          call' = [call EXCEPT ![t] = Frame("init", "new", Null, s)]
    BY <1>2 DEF CallNew
  <2> DEFINE c == Frame("init", "new", Null, s)
  <2>3. ongoing[t] = 0
    BY <1>2 DEF CallNew, Bypasses
  <2>4. c \in CallType /\ Counts(ongoing[t] + 1, c)
    BY <2>3 DEF Counts, OfCall, OfInit, OpsAt
  <2> HIDE DEF c
  <2> QED
    BY <1>2, <2>1, <2>4, GoOn DEF CallNew, c
<1>3. CASE Malloc(t)
  <2>1. PICK a \in Addrs \union {Null}, l \in {"lock", "leave"} :
          /\ call' = [call EXCEPT ![t] = [call[t] EXCEPT !.addr = a, !.at = l]]
          /\ heap' \subseteq heap \union {a} /\ heap' \subseteq Addrs
          /\ origin' \in [Addrs -> Stacks \union {Null}]
    <3>1. CASE \E a \in Addrs \ heap, tracked \in {TRUE, ~CanFail} :
                 /\ heap' = heap \union {a}
                 /\ origin' = [origin EXCEPT ![a] = IF tracked THEN call[t].stack
                                                    ELSE Null]
                 /\ call' = [call EXCEPT ![t].addr = a,
                               ![t].at = IF tracked THEN "lock" ELSE "leave"]
      <4> PICK a \in Addrs \ heap, tracked \in {TRUE, ~CanFail} :
                 /\ heap' = heap \union {a}
                 /\ origin' = [origin EXCEPT ![a] = IF tracked THEN call[t].stack
                                                    ELSE Null]
                 /\ call' = [call EXCEPT ![t].addr = a,
                               ![t].at = IF tracked THEN "lock" ELSE "leave"]
        BY <3>1
      <4>1. heap' \subseteq Addrs /\ origin' \in [Addrs -> Stacks \union {Null}]
        OBVIOUS
      <4>2. CASE tracked
        <5>1. call' = [call EXCEPT ![t] = [call[t] EXCEPT !.addr = a, !.at = "lock"]]
          BY <4>2
        <5> QED
          BY <4>1, <5>1
      <4>3. CASE ~tracked
        <5>1. call' = [call EXCEPT ![t] = [call[t] EXCEPT !.addr = a, !.at = "leave"]]
          BY <4>3
        <5> QED
          BY <4>1, <5>1
      <4> QED
        BY <4>2, <4>3
    <3>2. CASE Goto(t, "leave") /\ UNCHANGED <<heap, origin>>
      <4>1. call' = [call EXCEPT ![t] = [call[t] EXCEPT !.addr = call[t].addr,
                                                        !.at = "leave"]]
        BY <3>2 DEF Goto
      <4> QED
        BY <3>2, <4>1
    <3> QED
      BY <1>3, <3>1, <3>2 DEF Malloc
  <2> DEFINE c == [call[t] EXCEPT !.addr = a, !.at = l]
  <2>2. c \in CallType /\ Counts(ongoing[t], c)
    BY <1>3 DEF Malloc, At, Counts, OfCall, OfInit, OpsAt
  <2> HIDE DEF c
  <2> QED
    BY <1>3, <2>1, <2>2, GoOn DEF Malloc, c
<1>4. CASE CallDelete(t)
  <2>1. PICK a \in held \union {Null} :
          /\ held' = held \ {a}
          /\ call' = [call EXCEPT ![t] =
                        Frame(IF initOrExit THEN "free" ELSE "lock", "delete", a, Null)]
    BY <1>4 DEF CallDelete
  <2> DEFINE c == Frame(IF initOrExit THEN "free" ELSE "lock", "delete", a, Null)
  <2>3. ongoing[t] \in {0, 1}
    BY <1>4 DEF CallDelete, At, Counts, OfCall, OfInit, OpsAt
  <2>4. c \in CallType
    OBVIOUS
  <2>5. initOrExit => Counts(ongoing[t], c)
    BY <2>3 DEF Counts, OfCall, OfInit, OpsAt
  <2>6. ~initOrExit => Counts(ongoing[t] + 1, c)
    BY <2>3 DEF Counts, OfCall, OfInit, OpsAt
  <2> HIDE DEF c
  <2> QED
    BY <1>4, <2>1, <2>4, <2>5, <2>6, GoOn DEF CallDelete, c
<1>5. CASE Lock(t)
  <2> DEFINE c == [call[t] EXCEPT !.at = "section"]
  <2>1. c \in CallType /\ Counts(ongoing[t], c)
    BY <1>5 DEF Lock, At, Counts, OfCall, OfInit, OpsAt
  <2>2. CASE Stop("segv")
    BY <2>2, StopLeak
  <2>3. CASE ~Stop("segv")
    <3>1. /\ call' = [call EXCEPT ![t] = c] /\ owner' \in Threads \union {Null}
          /\ UNCHANGED <<guards, made, life, tables, blocks, ends, proc>>
      BY <1>5, <2>3 DEF Lock, Goto
    <3> HIDE DEF c
    <3> QED
      BY <2>1, <3>1, GoOn
  <2> QED
    BY <2>2, <2>3
<1> QED
  BY <1>1, <1>2, <1>3, <1>4, <1>5

\* The critical sections: whoever is in one has a handler of its own, so the
\* calls made there bypass the lock.
LEMMA SectionLeak ==
  ASSUME LeakInv, NEW t \in Threads, RegisterBlock(t) \/ TakeBlock(t)
  PROVE  LeakInv'
<1> USE Typed DEF guards, life, tables, blocks, ends, CallType, Labels, Frame, Idle
<1>0. call[t].at = "section" /\ call[t].op \in {"new", "delete"}
  BY DEF RegisterBlock, TakeBlock, At
<1>1. call[t].at = "section" /\ ongoing[t] > 0 /\ call[t].op \in {"new", "delete"}
  <2>1. OfCall(call[t]) = 1 /\ OfInit(call[t]) = 0
    BY <1>0 DEF OfCall, OfInit
  <2> QED
    BY <1>0, <2>1 DEF Counts
<1>2. \A found \in BOOLEAN : Fate(t, found) \in {"segv", "race", "running"}
  BY <1>1 DEF Fate, Bypasses
<1>3. Unlocked(t) \in Threads \union {Null}
  BY DEF Unlocked
<1>4. CASE \E o \in {"assertFailed", "segv", "race"} : Stop(o)
  BY <1>4, StopLeak
<1>5. CASE RegisterBlock(t) /\ ~\E o \in {"assertFailed", "segv", "race"} : Stop(o)
  <2> DEFINE a == call[t].addr
             s == call[t].stack
             n == stackItems[s] + 1
             c == IF TooMany(n) THEN Idle ELSE [call[t] EXCEPT !.at = "leave"]
  <2>1. /\ memItems' = [memItems EXCEPT ![a] = s]
        /\ stackItems' = [stackItems EXCEPT ![s] = n]
        /\ owner' = Unlocked(t)
        /\ reported' = (reported \/ TooMany(n))
        /\ leaver' = IF TooMany(n) /\ leaver = Null THEN t ELSE leaver
        /\ call' = [call EXCEPT ![t] = c]
        /\ UNCHANGED <<guards, made, life, blocks, proc>>
    BY <1>2, <1>5 DEF RegisterBlock
  <2>2. call[t].op = "new"
    BY <1>5 DEF RegisterBlock
  <2>3. c \in CallType /\ Counts(ongoing[t], c)
    <3>1. ongoing[t] = 1
      BY <1>1, <2>2 DEF Counts, OfCall, OfInit
    <3>2. CASE TooMany(n)
      <4>1. Counts(1, Idle)
        BY Idling DEF Counts
      <4> QED
        BY <3>1, <3>2, <4>1, Idling
    <3>3. CASE ~TooMany(n)
      <4>1. c = [call[t] EXCEPT !.at = "leave"]
        BY <3>3
      <4>2. c \in CallType /\ c.at = "leave" /\ c.op = "new"
        BY <2>2, <4>1, Moved
      <4> HIDE DEF c
      <4>3. OpsAt(c) /\ OfCall(c) = 1 /\ OfInit(c) = 0
        BY <4>2 DEF OpsAt, OfCall, OfInit
      <4> QED
        BY <3>1, <4>2, <4>3 DEF Counts
    <3> QED
      BY <3>2, <3>3
  <2>4. memItems' \in [Addrs -> Stacks \union {Null}]
    BY <2>1
  <2>5. stackItems' \in [Stacks -> Nat]
    <3>1. s \in Stacks => n \in Nat
      OBVIOUS
    <3> QED
      BY <2>1, <3>1
  <2>6. reported' \in BOOLEAN /\ leaver' \in Threads \union {Null}
    BY <2>1
  <2> HIDE DEF c
  <2> QED
    BY <1>3, <2>1, <2>3, <2>4, <2>5, <2>6, GoOn
<1>6. CASE TakeBlock(t) /\ ~\E o \in {"assertFailed", "segv", "race"} : Stop(o)
  <2> DEFINE a     == call[t].addr
             found == a # Null /\ memItems[a] # Null
             c     == [call[t] EXCEPT !.at = "leave"]
  <2>1. /\ stackItems' = IF found
                         THEN [stackItems EXCEPT ![memItems[a]] = Dropped(@)]
                         ELSE stackItems
        /\ memItems' = IF found THEN Removed(a) ELSE memItems
        /\ owner' = Unlocked(t)
        /\ Goto(t, "leave")
        /\ UNCHANGED <<guards, made, life, blocks, ends, proc>>
        /\ found => stackItems[memItems[a]] # 0
    BY <1>2, <1>6 DEF TakeBlock
  <2>2. c \in CallType /\ Counts(ongoing[t], c)
    BY <1>1, <1>6 DEF TakeBlock, Counts, OfCall, OfInit, OpsAt
  <2>3. call' = [call EXCEPT ![t] = c]
    BY <2>1 DEF Goto
  <2>4. memItems' \in [Addrs -> Stacks \union {Null}]
    BY <2>1 DEF Removed
  <2>5. stackItems' \in [Stacks -> Nat]
    <3>1. CASE found
      <4>1. memItems[a] \in Stacks /\ stackItems[memItems[a]] \in Nat \ {0}
        BY <2>1, <3>1
      <4>2. Dropped(stackItems[memItems[a]]) \in Nat
        BY <4>1 DEF Dropped
      <4> QED
        BY <2>1, <3>1, <4>2
    <3> QED
      BY <2>1, <3>1
  <2> HIDE DEF c
  <2> QED
    BY <1>3, <2>1, <2>2, <2>3, <2>4, <2>5, GoOn
<1> QED
  BY <1>4, <1>5, <1>6

\* The ends of calls, and exit().
LEMMA EndsLeak ==
  ASSUME LeakInv, NEW t \in Threads,
         Leave(t) \/ Free(t) \/ Exit(t) \/ Destroy(t)
           \/ DeleteMem(t) \/ DeleteStack(t) \/ DeleteMutex(t)
  PROVE  LeakInv'
<1> USE Typed DEF guards, life, tables, blocks, ends, CallType, Labels, Frame, Idle
<1>1. CASE Leave(t)
  <2> DEFINE c == IF call[t].op = "new" THEN Idle ELSE [call[t] EXCEPT !.at = "free"]
  <2>1. c \in CallType /\ Counts(ongoing[t] - 1, c)
    BY <1>1 DEF Leave, At, Idle, Counts, OfCall, OfInit, OpsAt
  <2>2. call' = [call EXCEPT ![t] = c] /\ held' \subseteq Addrs
    BY <1>1 DEF Leave, Goto
  <2> HIDE DEF c
  <2> QED
    BY <1>1, <2>1, <2>2, GoOn DEF Leave
<1>2. CASE Free(t)
  <2>1. Idle \in CallType /\ Counts(ongoing[t], Idle)
    BY <1>2 DEF Free, At, Idle, Counts, OfCall, OfInit, OpsAt
  <2>2. heap' \subseteq Addrs /\ origin' \in [Addrs -> Stacks \union {Null}]
    BY <1>2 DEF Free
  <2> QED
    BY <1>2, <2>1, <2>2, GoOn DEF Free
<1>3. CASE Exit(t)
  BY <1>3 DEF Exit, LeakInv, LeakTypeOK, HandlersCounted, NoReentry
<1>4. CASE Destroy(t)
  <2> DEFINE c == Frame("deleteMem", "none", Null, Null)
  <2>1. c \in CallType /\ Counts(ongoing[t], c)
    BY <1>4 DEF Destroy, At, Idle, Counts, OfCall, OfInit, OpsAt
  <2> HIDE DEF c
  <2> QED
    BY <1>4, <2>1, GoOn DEF Destroy, c
<1>5. ASSUME NEW part, NEW here \in {"deleteMem", "deleteStack", "deleteMutex"},
             NEW next \in {"deleteStack", "deleteMutex", "client"},
             DeletePart(t, part, here, next)
      PROVE  LeakInv'
  <2> DEFINE c == Frame(next, "none", Null, Null)
  <2>2. OfCall(call[t]) = 0 /\ OfInit(call[t]) = 0
    BY <1>5 DEF DeletePart, At, Counts, OpsAt, OfCall, OfInit
  <2>3. OfCall(c) = 0 /\ OfInit(c) = 0 /\ OpsAt(c) /\ c.op = "none"
    BY DEF OfCall, OfInit, OpsAt
  <2>4. c \in CallType /\ Counts(ongoing[t], c)
    BY <2>2, <2>3 DEF Counts
  <2>5. CASE Stop("race")
    BY <2>5, StopLeak
  <2>6. CASE ~Stop("race")
    <3>1. /\ call' = [call EXCEPT ![t] = c] /\ made' \subseteq Parts
          /\ UNCHANGED <<guards, owner, life, tables, blocks, ends, proc>>
      BY <1>5, <2>6 DEF DeletePart
    <3> HIDE DEF c
    <3> QED
      BY <2>4, <3>1, GoOn
  <2> QED
    BY <2>5, <2>6
<1> QED
  BY <1>1, <1>2, <1>3, <1>4, <1>5 DEF DeleteMem, DeleteStack, DeleteMutex

LEMMA InitLeak == ASSUME Init PROVE LeakInv
<1>1. Counts(0, Idle) /\ Idle \in CallType
  BY DEF Counts, OpsAt, OfCall, OfInit, Idle, Frame, CallType, Labels
<1>2. HandlersCounted
  BY <1>1 DEF Init, HandlersCounted
<1>3. LeakTypeOK
  <2>1. call \in [Threads -> CallType]
    BY <1>1 DEF Init
  <2>2. ongoing \in [Threads -> 0..3] /\ stackItems \in [Stacks -> Nat]
    BY DEF Init, NoStacks
  <2>3. /\ memItems \in [Addrs -> Stacks \union {Null}]
        /\ origin \in [Addrs -> Stacks \union {Null}]
    BY DEF Init, NoItems
  <2> QED
    BY <2>1, <2>2, <2>3 DEF Init, LeakTypeOK, CallType
<1> QED
  BY <1>2, <1>3 DEF LeakInv, NoReentry, Init

LEMMA NextLeak == ASSUME LeakInv, [Next]_vars PROVE LeakInv'
<1>1. CASE UNCHANGED vars
  BY <1>1 DEF vars, LeakInv, LeakTypeOK, HandlersCounted, NoReentry
<1>2. CASE Next
  BY <1>2, InitRawLeak, CallsLeak, SectionLeak, EndsLeak DEF Next
<1> QED
  BY <1>1, <1>2

\* In every reachable state of the leak-only analyzer the variables have their
\* types, s_isOngoing its few values included, whatever the habits of the client.
THEOREM LeakTypeCorrect == Spec => []LeakTypeOK
<1>1. LeakInv => LeakTypeOK
  BY DEF LeakInv
<1> QED
  BY <1>1, InitLeak, NextLeak, PTL DEF Spec

\* For any number of threads, blocks and stacks and any habits of the client, the
\* news and deletes the library makes while it holds its mutex never come to take
\* it again: the thread-local counter is at least 1 wherever they are made.
THEOREM NeverReenters == Spec => []NoReentry
<1>1. LeakInv => NoReentry
  BY DEF LeakInv
<1> QED
  BY <1>1, InitLeak, NextLeak, PTL DEF Spec

-----------------------------------------------------------------------------
(* The inductive invariant SafeInv, for a client with no unusual habits. *)

MakeLabels == {"makeMutex", "makeStack", "makeMem"}
EndLabels  == {"deleteMem", "deleteStack", "deleteMutex"}

\* What a call holds: a block from malloc on, and what it is to register.
Carries(c) ==
  /\ c.at \in {"client", "init", "malloc"} \union MakeLabels \union EndLabels
       => c.addr = Null
  /\ c.op = "new" => c.stack \in Stacks
  /\ c.op = "new" /\ c.at \in {"lock", "section"} => c.addr # Null

Holding == \A t \in Threads : Carries(call[t])

\* Who owns a block: libc's blocks are the program's or a call's, and no two
\* calls have the same.
Ownership ==
  /\ IsFiniteSet(heap) /\ held \subseteq heap
  /\ \A a \in Addrs : origin[a] # Null => a \in heap
  /\ \A t \in Threads : call[t].addr # Null =>
       /\ call[t].addr \in heap \ held
       /\ \A u \in Threads : call[u].addr = call[t].addr => u = t

\* Before the constructor of s_memData has ended Main is alone, and the tables
\* are all there, or none is, except while it makes them.
MadeAt(l) ==
  /\ l \in {"client", "init"} => made = Parts \/ (made = {} /\ once = "never")
  /\ l \in {"malloc", "lock", "section", "leave", "free"} => made = Parts
  /\ l = "makeMem" => {"mutex", "stack"} \subseteq made
  /\ l = "makeStack" => "mutex" \in made
  /\ l \notin EndLabels

Alone == \A t \in Threads : t # Main => call[t] = Idle

Phases ==
  /\ memData = "raw" =>
       /\ Alone /\ MadeAt(call[Main].at) /\ leaver \in {Null, Main}
       /\ initOrExit => call[Main].at \in {"makeStack", "makeMem"}
  /\ memData # "raw" => \A t \in Threads : call[t].op # "construct"
  /\ memData = "made" =>
       /\ made = Parts /\ ~initOrExit
       /\ \A t \in Threads : call[t].at \notin MakeLabels \union EndLabels
  /\ ~reported /\ leaver # Null =>
       leaver = Main /\ Alone /\ memData # "raw"
  /\ ~reported /\ memData = "gone" =>
       /\ leaver = Main /\ initOrExit
       /\ call[Main].at \in {"client", "free"} \union EndLabels

\* Until a report, handlers are exact and who is in a critical section has the
\* lock.
Locked ==
  ~reported => \A t \in Threads :
    /\ ongoing[t] = OfCall(call[t]) + OfInit(call[t])
    /\ owner = t <=> call[t].at = "section"

\* The labels at which a call may have a block that is registered.
Knows(c) == \/ c.op = "delete" /\ c.at \in {"lock", "section"}
            \/ c.op = "new" /\ c.at = "leave"

\* What the tables know of a block, until they are deleted.
Entries ==
  memData # "gone" =>
    /\ \A a \in Addrs : memItems[a] # Null =>
         /\ a \in heap /\ memItems[a] = origin[a]
         /\ \A t \in Threads : call[t].addr = a => Knows(call[t])
    /\ \A a \in held : memItems[a] = origin[a]
    /\ \A t \in Threads : call[t].addr # Null /\ call[t].op = "new" =>
         IF call[t].at = "leave" THEN memItems[call[t].addr] = origin[call[t].addr]
         ELSE origin[call[t].addr] = call[t].stack

Registered(s) == {a \in Addrs : memItems[a] = s}
HeldOf(s)     == {a \in held : origin[a] = s}

\* The counts, except while the tables are made anew.
Counted ==
  memData # "gone" =>
    IF call[Main].at = "makeMem" THEN stackItems = NoStacks
    ELSE \A s \in Stacks :
           /\ IsFiniteSet(Registered(s))
           /\ stackItems[s] = Cardinality(Registered(s))
           /\ ~reported /\ Limit > 0 => stackItems[s] <= Limit

Few == ~reported /\ Limit > 0 => \A s \in Stacks : Cardinality(HeldOf(s)) <= Limit

SafeInv == /\ Holding /\ Ownership /\ Phases /\ Locked /\ Entries /\ Counted /\ Few
           /\ ~reported => proc = "running"

-----------------------------------------------------------------------------
(* What a step that leaves a part of the state alone keeps. *)

\* The step is t's, which goes on to c.
Turn(t, c) == /\ call' = [call EXCEPT ![t] = c]
              /\ call'[t] = c /\ \A u \in Threads : u # t => call'[u] = call[u]

LEMMA TurnOf ==
  ASSUME LeakInv, NEW t \in Threads, NEW c, call' = [call EXCEPT ![t] = c]
  PROVE  Turn(t, c)
BY DEF LeakInv, LeakTypeOK, Turn

LEMMA HoldingKept ==
  ASSUME Holding, NEW t \in Threads, NEW c, Turn(t, c), Carries(c)
  PROVE  Holding'
BY DEF Holding, Turn

LEMMA OwnershipKept ==
  ASSUME Ownership, heap' = heap, held' = held,
         \A a \in Addrs : origin'[a] \in {origin[a], Null},
         \A u \in Threads : call'[u].addr \in {call[u].addr, Null}
  PROVE  Ownership'
BY DEF Ownership

LEMMA EntriesKept ==
  ASSUME Entries, memItems' = memItems, origin' = origin, heap \subseteq heap',
         held' \subseteq held, memData' # "gone" => memData # "gone",
         \A u \in Threads : call'[u].addr # Null =>
           /\ call'[u].addr = call[u].addr
           /\ call'[u].op = call[u].op /\ call'[u].stack = call[u].stack
           /\ Knows(call[u]) => Knows(call'[u])
           /\ call[u].op = "new" => (call'[u].at = "leave" <=> call[u].at = "leave")
  PROVE  Entries'
<1>1. CASE memData = "gone"
  BY <1>1 DEF Entries
<1>2. CASE memData # "gone"
  <2>1. \A a \in held' : memItems'[a] = origin'[a]
    BY <1>2 DEF Entries
  <2>2. ASSUME NEW a \in Addrs, memItems'[a] # Null
        PROVE  /\ a \in heap' /\ memItems'[a] = origin'[a]
               /\ \A u \in Threads : call'[u].addr = a => Knows(call'[u])
    <3>1. a # Null
      BY LeakAssumption
    <3> QED
      BY <1>2, <2>2, <3>1 DEF Entries
  <2>3. ASSUME NEW u \in Threads, call'[u].addr # Null, call'[u].op = "new"
        PROVE  IF call'[u].at = "leave"
               THEN memItems'[call'[u].addr] = origin'[call'[u].addr]
               ELSE origin'[call'[u].addr] = call'[u].stack
    BY <1>2, <2>3 DEF Entries
  <2> QED
    BY <2>1, <2>2, <2>3 DEF Entries, Knows
<1> QED
  BY <1>1, <1>2

LEMMA CountedKept ==
  ASSUME Counted, memItems' = memItems, stackItems' = stackItems,
         reported' = reported, memData' # "gone" => memData # "gone",
         call'[Main].at = "makeMem" <=> call[Main].at = "makeMem"
  PROVE  Counted'
BY DEF Counted, Registered

\* What the program holds is finite, as libc's blocks are.
LEMMA HeldFinite ==
  ASSUME Ownership, NEW s
  PROVE  IsFiniteSet(HeldOf(s)) /\ Cardinality(HeldOf(s)) \in Nat
<1>1. HeldOf(s) \in SUBSET heap
  BY DEF HeldOf, Ownership
<1> QED
  BY <1>1, FS_Subset, FS_CardinalityType DEF Ownership

LEMMA FewKept ==
  ASSUME Limit \in Nat, Ownership, Few, reported => reported', held' \subseteq held,
         \A a \in held' : origin'[a] \in {origin[a], Null}
  PROVE  Few'
<1> SUFFICES ASSUME ~reported, Limit > 0, NEW s \in Stacks
             PROVE  Cardinality(HeldOf(s)') <= Limit
  BY DEF Few
<1>1. HeldOf(s)' \in SUBSET HeldOf(s)
  BY LeakAssumption DEF HeldOf
<1>2. Cardinality(HeldOf(s)') <= Cardinality(HeldOf(s))
      /\ Cardinality(HeldOf(s)') \in Nat
  BY <1>1, HeldFinite, FS_Subset, FS_CardinalityType
<1>3. Cardinality(HeldOf(s)) <= Limit
  BY DEF Few
<1> QED
  BY <1>2, <1>3, HeldFinite

LEMMA LockedKept ==
  ASSUME LeakInv, Locked, NEW t \in Threads, NEW c, Turn(t, c),
         reported' = reported, owner' = owner,
         c.at = "section" <=> call[t].at = "section",
         \/ /\ ongoing' = ongoing
            /\ OfCall(c) + OfInit(c) = OfCall(call[t]) + OfInit(call[t])
         \/ /\ ongoing' = Entered(t)
            /\ OfCall(c) + OfInit(c) = OfCall(call[t]) + OfInit(call[t]) + 1
         \/ /\ ongoing' = Left(t)
            /\ OfCall(c) + OfInit(c) + 1 = OfCall(call[t]) + OfInit(call[t])
  PROVE  Locked'
<1> SUFFICES ASSUME ~reported, NEW u \in Threads
             PROVE  /\ ongoing'[u] = OfCall(call'[u]) + OfInit(call'[u])
                    /\ owner' = u <=> call'[u].at = "section"
  BY DEF Locked
<1>1. ongoing \in [Threads -> 0..3]
  BY DEF LeakInv, LeakTypeOK
<1>2. owner' = u <=> call'[u].at = "section"
  BY DEF Locked, Turn
<1>3. CASE u # t
  BY <1>1, <1>2, <1>3 DEF Locked, Turn, Entered, Left
<1>4. CASE u = t
  <2>1. ongoing[t] = OfCall(call[t]) + OfInit(call[t])
    BY DEF Locked
  <2>2. OfCall(c) \in {0, 1} /\ OfInit(c) \in {0, 1}
    BY DEF OfCall, OfInit
  <2> QED
    BY <1>1, <1>2, <1>4, <2>1, <2>2 DEF Turn, Entered, Left
<1> QED
  BY <1>3, <1>4

-----------------------------------------------------------------------------
(* Making the tables. *)

\* Where the tables are made, Main is alone, or they were deleted after a report.
LEMMA MakesAlone ==
  ASSUME LeakInv, SafeInv, NEW t \in Threads,
         \/ call[t].at \in MakeLabels
         \/ call[t].at = "init" /\ "mutex" \notin made
  PROVE  /\ memData # "made" /\ (memData = "gone" => reported)
         /\ memData = "raw" => t = Main /\ Alone
         /\ ~reported => leaver = Null
<1>1. memData \in {"raw", "made", "gone"} /\ Main \in Threads
  BY LeakAssumption DEF LeakInv, LeakTypeOK
<1>2. call[t] # Idle /\ memData # "made"
  BY <1>1 DEF SafeInv, Phases, MakeLabels, Idle, Frame, Parts
<1>3. ~(~reported /\ memData = "gone")
  BY <1>1, <1>2, LeakAssumption DEF SafeInv, Phases, MakeLabels, EndLabels, Alone
<1> QED
  BY <1>1, <1>2, <1>3 DEF SafeInv, Phases, Alone

LEMMA ConstructSafe ==
  ASSUME Habits = {}, LeakInv, SafeInv, NEW t \in Threads, Construct(t)
  PROVE  SafeInv'
<1> DEFINE c == Frame("makeMutex", "construct", Null, Null)
<1>1. Turn(t, c) /\ t = Main /\ memData = "raw" /\ call[t].at = "client"
  BY TurnOf DEF Construct, At
<1>2. /\ UNCHANGED <<guards, made, owner, life, tables, blocks, ends, proc>>
      /\ leaver = Null
  BY DEF Construct
<1>3. c.at = "makeMutex" /\ c.op = "construct" /\ c.addr = Null
  BY DEF Frame
<1> HIDE DEF c
<1>4. Holding'
  BY <1>1, <1>3, HoldingKept DEF SafeInv, Carries
<1>5. \A u \in Threads : call'[u].addr \in {call[u].addr, Null}
  BY <1>1, <1>3 DEF Turn
<1>6. Ownership'
  BY <1>2, <1>5, OwnershipKept DEF SafeInv, blocks
<1>7. Phases'
  <2>1. Alone'
    BY <1>1 DEF SafeInv, Phases, Alone, Turn
  <2>2. MadeAt(call[Main].at)'
    BY <1>1, <1>3 DEF MadeAt, Turn, EndLabels
  <2>3. ~initOrExit
    BY <1>1 DEF SafeInv, Phases
  <2> QED
    BY <1>1, <1>2, <1>3, <2>1, <2>2, <2>3 DEF Phases, guards, life, ends
<1>8. Locked'
  <2>1. OfCall(c) = OfCall(call[t]) /\ OfInit(c) = OfInit(call[t])
    BY <1>1, <1>3, Typed DEF OfCall, OfInit, Counts, OpsAt
  <2> QED
    BY <1>1, <1>2, <1>3, <2>1, LockedKept DEF SafeInv, guards, ends
<1>9. Entries'
  BY <1>1, <1>2, <1>3, EntriesKept DEF SafeInv, blocks, tables, life, Turn
<1>10. Counted'
  BY <1>1, <1>2, <1>3, CountedKept DEF SafeInv, tables, ends, life, Turn
<1>11. Few'
  BY <1>2, LeakAssumption, FewKept DEF SafeInv, ends, blocks
<1> QED
  BY <1>2, <1>4, <1>6, <1>7, <1>8, <1>9, <1>10, <1>11 DEF SafeInv, ends

LEMMA InitSafe ==
  ASSUME Habits = {}, LeakInv, SafeInv, NEW t \in Threads, SkipInit(t) \/ CallOnce(t)
  PROVE  SafeInv'
<1> PICK l \in {"malloc", "makeMutex"} :
      /\ Goto(t, l)
      /\ l = "malloc" => SkipInit(t)
      /\ l = "makeMutex" => CallOnce(t)
  BY DEF SkipInit, CallOnce
<1> DEFINE c == [call[t] EXCEPT !.at = l]
<1>0. call[t] \in CallType /\ call[t].at = "init" /\ call[t].op = "new"
  BY Typed DEF SkipInit, CallOnce, At, Counts, OpsAt
<1>1. Turn(t, c)
  BY TurnOf DEF Goto
<1>2. /\ UNCHANGED <<guards, made, owner, memData, tables, blocks, ends, proc>>
  BY DEF SkipInit, CallOnce, life
<1>3. /\ c.at = l /\ c.op = "new" /\ c.addr = call[t].addr
      /\ c.stack = call[t].stack
  BY <1>0, Moved DEF Labels
<1> HIDE DEF c
<1>4. Holding' /\ call[t].addr = Null
  <2>1. Carries(call[t])
    BY DEF SafeInv, Holding
  <2> QED
    BY <1>0, <1>1, <1>3, <2>1, HoldingKept DEF SafeInv, Carries
<1>5. \A u \in Threads : call'[u].addr \in {call[u].addr, Null}
  BY <1>1, <1>3 DEF Turn
<1>6. Ownership'
  BY <1>2, <1>5, OwnershipKept DEF SafeInv, blocks
<1>7. Phases'
  <2>1. l = "makeMutex" => /\ memData # "made" /\ (memData = "gone" => reported)
                           /\ ~reported => leaver = Null
    BY <1>0, MakesAlone DEF CallOnce
  <2>2. memData = "raw" => /\ Alone' /\ t = Main
                           /\ MadeAt(call[Main].at)' /\ ~initOrExit
    <3>1. ASSUME memData = "raw"
          PROVE  t = Main /\ Alone /\ MadeAt("init") /\ ~initOrExit
      BY <1>0, <3>1 DEF SafeInv, Phases, Alone, Idle, Frame
    <3>2. "mutex" \in made \/ once = "done" => (MadeAt("init") => made = Parts)
      BY DEF MadeAt, Parts
    <3>3. MadeAt("init") => MadeAt(l)'
      BY <1>2, <3>2 DEF MadeAt, SkipInit, EndLabels
    <3> QED
      BY <1>1, <1>3, <3>1, <3>3 DEF Alone, Turn
  <2>3. ~reported /\ leaver # Null => Alone'
    BY <1>0, <1>1, <2>2 DEF SafeInv, Phases, Alone, Turn, Idle, Frame
  <2>4. ~reported /\ memData = "gone" => FALSE
    BY <1>0, LeakAssumption DEF SafeInv, Phases, Alone, Idle, Frame, EndLabels
  <2>5. memData = "made" => \A u \in Threads : call'[u].at \notin MakeLabels \union EndLabels
    BY <1>1, <1>3, <2>1 DEF SafeInv, Phases, Turn, MakeLabels, EndLabels
  <2>6. memData # "raw" => \A u \in Threads : call'[u].op # "construct"
    BY <1>1, <1>3 DEF SafeInv, Phases, Turn
  <2> QED
    BY <1>2, <2>2, <2>3, <2>4, <2>5, <2>6 DEF SafeInv, Phases, guards, ends
<1>8. Locked'
  <2>1. OfCall(c) = OfCall(call[t]) /\ OfInit(c) = OfInit(call[t])
    BY <1>0, <1>3 DEF OfCall, OfInit
  <2> QED
    BY <1>0, <1>1, <1>2, <1>3, <2>1, LockedKept DEF SafeInv, guards, ends
<1>9. Entries'
  BY <1>0, <1>1, <1>2, <1>3, <1>4, EntriesKept DEF SafeInv, blocks, tables, Turn
<1>10. Counted'
  BY <1>0, <1>1, <1>2, <1>3, CountedKept DEF SafeInv, tables, ends, Turn
<1>11. Few'
  BY <1>2, LeakAssumption, FewKept DEF SafeInv, ends, blocks
<1> QED
  BY <1>2, <1>4, <1>6, <1>7, <1>8, <1>9, <1>10, <1>11 DEF SafeInv, ends

\* Nobody is in a critical section where the tables are made.
LEMMA MakesUnlocked ==
  ASSUME LeakInv, SafeInv, NEW t \in Threads, call[t].at = "makeMutex", ~reported
  PROVE  owner = Null
<1>1. memData = "raw" /\ t = Main /\ Alone
  BY MakesAlone DEF MakeLabels, LeakInv, LeakTypeOK
<1>2. \A u \in Threads : call[u].at # "section"
  BY <1>1 DEF Alone, Idle, Frame
<1> QED
  BY <1>2 DEF SafeInv, Locked, LeakInv, LeakTypeOK

LEMMA MakeMutexSafe ==
  ASSUME LeakInv, SafeInv, NEW t \in Threads, MakeMutex(t)
  PROVE  SafeInv'
<1> DEFINE c == [call[t] EXCEPT !.at = "makeStack"]
<1>0. /\ call[t] \in CallType /\ call[t].at = "makeMutex"
      /\ call[t].op \in {"new", "construct"}
  BY Typed DEF MakeMutex, At, Counts, OpsAt
<1>1. Turn(t, c)
  BY TurnOf DEF MakeMutex, Goto
<1>2. /\ UNCHANGED <<life, tables, blocks, ends, proc>>
      /\ made' = made \union {"mutex"} /\ owner' = Null
      /\ initOrExit' = TRUE /\ ongoing' = Entered(t)
  BY DEF MakeMutex
<1>3. /\ c.at = "makeStack" /\ c.op = call[t].op /\ c.addr = call[t].addr
      /\ c.stack = call[t].stack
  BY <1>0, Moved DEF Labels
<1> HIDE DEF c
<1>4. Holding' /\ call[t].addr = Null
  <2>1. Carries(call[t])
    BY DEF SafeInv, Holding
  <2> QED
    BY <1>0, <1>1, <1>3, <2>1, HoldingKept DEF SafeInv, Carries, MakeLabels
<1>5. \A u \in Threads : call'[u].addr \in {call[u].addr, Null}
  BY <1>1, <1>3 DEF Turn
<1>6. Ownership'
  BY <1>2, <1>5, OwnershipKept DEF SafeInv, blocks
<1>7. Phases'
  <2>1. /\ memData # "made" /\ (memData = "gone" => reported)
        /\ memData = "raw" => t = Main /\ Alone
        /\ ~reported => leaver = Null
    BY <1>0, MakesAlone DEF MakeLabels
  <2>2. memData = "raw" => Alone' /\ MadeAt(call[Main].at)'
    BY <1>1, <1>2, <1>3, <2>1 DEF Alone, Turn, MadeAt, EndLabels
  <2>3. memData = "raw" => call'[Main].at = "makeStack"
    BY <1>1, <1>3, <2>1 DEF Turn
  <2>4. memData # "raw" => \A u \in Threads : call'[u].op # "construct"
    BY <1>1, <1>3 DEF SafeInv, Phases, Turn
  <2> QED
    BY <1>2, <2>1, <2>2, <2>3, <2>4 DEF SafeInv, Phases, life, ends
<1>8. Locked'
  <2>1. OfCall(c) = OfCall(call[t]) /\ OfInit(c) = 1 /\ OfInit(call[t]) = 0
    BY <1>0, <1>3 DEF OfCall, OfInit
  <2>2. OfCall(call[t]) \in {0, 1}
    BY DEF OfCall
  <2>3. ~reported => owner' = owner
    BY <1>0, <1>2, MakesUnlocked
  <2>4. CASE reported
    BY <1>2, <2>4 DEF Locked, ends
  <2>5. CASE ~reported
    BY <1>0, <1>1, <1>2, <1>3, <2>1, <2>2, <2>3, <2>5, LockedKept DEF SafeInv, ends
  <2> QED
    BY <2>4, <2>5
<1>9. Entries'
  BY <1>0, <1>1, <1>2, <1>3, <1>4, EntriesKept DEF SafeInv, blocks, tables, life, Turn
<1>10. Counted'
  BY <1>0, <1>1, <1>2, <1>3, CountedKept DEF SafeInv, tables, ends, life, Turn
<1>11. Few'
  BY <1>2, LeakAssumption, FewKept DEF SafeInv, ends, blocks
<1> QED
  BY <1>2, <1>4, <1>6, <1>7, <1>8, <1>9, <1>10, <1>11 DEF SafeInv, ends

LEMMA MakeStackSafe ==
  ASSUME LeakInv, SafeInv, NEW t \in Threads, MakeStack(t)
  PROVE  SafeInv'
<1> DEFINE c == [call[t] EXCEPT !.at = "makeMem"]
<1>0. /\ call[t] \in CallType /\ call[t].at = "makeStack"
      /\ call[t].op \in {"new", "construct"}
  BY Typed DEF MakeStack, At, Counts, OpsAt
<1>1. Turn(t, c)
  BY TurnOf DEF MakeStack, Goto
<1>2. /\ UNCHANGED <<guards, owner, life, memItems, blocks, ends, proc>>
      /\ made' = made \union {"stack"} /\ stackItems' = NoStacks
  BY DEF MakeStack
<1>3. /\ c.at = "makeMem" /\ c.op = call[t].op /\ c.addr = call[t].addr
      /\ c.stack = call[t].stack
  BY <1>0, Moved DEF Labels
<1> HIDE DEF c
<1>4. Holding' /\ call[t].addr = Null
  <2>1. Carries(call[t])
    BY DEF SafeInv, Holding
  <2> QED
    BY <1>0, <1>1, <1>3, <2>1, HoldingKept DEF SafeInv, Carries, MakeLabels
<1>5. \A u \in Threads : call'[u].addr \in {call[u].addr, Null}
  BY <1>1, <1>3 DEF Turn
<1>6. Ownership'
  BY <1>2, <1>5, OwnershipKept DEF SafeInv, blocks
<1>7. /\ memData # "made" /\ (memData = "gone" => reported)
      /\ memData = "raw" => t = Main /\ Alone
      /\ ~reported => leaver = Null
  BY <1>0, MakesAlone DEF MakeLabels
<1>8. memData = "raw" => call'[Main].at = "makeMem"
  BY <1>1, <1>3, <1>7 DEF Turn
<1>9. Phases'
  <2>1. memData = "raw" => Alone'
    BY <1>1, <1>7 DEF Alone, Turn
  <2>2. memData = "raw" => MadeAt("makeMem")'
    BY <1>0, <1>2, <1>7 DEF SafeInv, Phases, MadeAt, EndLabels
  <2>4. memData # "raw" => \A u \in Threads : call'[u].op # "construct"
    BY <1>1, <1>3 DEF SafeInv, Phases, Turn
  <2> QED
    BY <1>2, <1>7, <1>8, <2>1, <2>2, <2>4 DEF SafeInv, Phases, life, ends, guards
<1>10. Locked'
  <2>1. OfCall(c) = OfCall(call[t]) /\ OfInit(c) = OfInit(call[t])
    BY <1>0, <1>3 DEF OfCall, OfInit
  <2> QED
    BY <1>0, <1>1, <1>2, <1>3, <2>1, LockedKept DEF SafeInv, ends, guards
<1>11. Entries'
  BY <1>0, <1>1, <1>2, <1>3, <1>4, EntriesKept DEF SafeInv, blocks, life, Turn
<1>12. Counted'
  BY <1>2, <1>7, <1>8 DEF Counted, life, LeakInv, LeakTypeOK
<1>13. Few'
  BY <1>2, LeakAssumption, FewKept DEF SafeInv, ends, blocks
<1> QED
  BY <1>2, <1>4, <1>6, <1>9, <1>10, <1>11, <1>12, <1>13 DEF SafeInv, ends

\* The tables are there, and know of nothing.
LEMMA MakeMemSafe ==
  ASSUME LeakInv, SafeInv, NEW t \in Threads, MakeMem(t)
  PROVE  SafeInv'
<1> DEFINE c == IF call[t].op = "construct" THEN Idle
                ELSE [call[t] EXCEPT !.at = "malloc"]
<1>0. /\ call[t] \in CallType /\ call[t].at = "makeMem"
      /\ call[t].op \in {"new", "construct"}
  BY Typed DEF MakeMem, At, Counts, OpsAt
<1>1. Turn(t, c)
  BY TurnOf DEF MakeMem, Goto
<1>2. /\ UNCHANGED <<owner, stackItems, heap, held, ends, proc>>
      /\ made' = made \union {"mem"} /\ memItems' = NoItems /\ origin' = NoItems
      /\ initOrExit' = FALSE /\ ongoing' = Left(t)
      /\ memData' = IF call[t].op = "construct" THEN "made" ELSE memData
  BY DEF MakeMem
<1>3. Carries(call[t]) /\ call[t].addr = Null
  BY <1>0 DEF SafeInv, Holding, Carries, MakeLabels
<1>4. /\ c.addr = Null /\ c.op \in {"new", "none"}
      /\ c.at = IF call[t].op = "construct" THEN "client" ELSE "malloc"
      /\ c.op = "new" => call[t].op = "new" /\ c.stack = call[t].stack
      /\ OfCall(c) = OfCall(call[t]) /\ OfInit(c) = 0 /\ OfInit(call[t]) = 1
  <2>1. CASE call[t].op = "construct"
    BY <1>0, <2>1 DEF Idle, Frame, OfCall, OfInit
  <2>2. CASE call[t].op = "new"
    <3>1. c = [call[t] EXCEPT !.at = "malloc"]
      BY <2>2
    <3> HIDE DEF c
    <3>2. c.at = "malloc" /\ c.op = "new" /\ c.addr = Null /\ c.stack = call[t].stack
      BY <1>0, <1>3, <2>2, <3>1, Moved DEF Labels
    <3> QED
      BY <1>0, <2>2, <3>2 DEF OfCall, OfInit
  <2> QED
    BY <1>0, <2>1, <2>2
<1> HIDE DEF c
<1>5. Holding'
  BY <1>1, <1>3, <1>4, HoldingKept DEF SafeInv, Carries
<1>6. \A u \in Threads : call'[u].addr \in {call[u].addr, Null}
  BY <1>1, <1>4 DEF Turn
<1>7. \A a \in Addrs : memItems'[a] = Null /\ origin'[a] = Null
  BY <1>2 DEF NoItems
<1>8. Ownership'
  BY <1>2, <1>6, <1>7, OwnershipKept DEF SafeInv
<1>9. /\ memData # "made" /\ (memData = "gone" => reported)
      /\ memData = "raw" => t = Main /\ Alone
      /\ ~reported => leaver = Null
  BY <1>0, MakesAlone DEF MakeLabels
<1>10. memData' # "gone" => memData = "raw" /\ t = Main /\ Alone'
  BY <1>0, <1>1, <1>2, <1>9 DEF SafeInv, Phases, LeakInv, LeakTypeOK, Alone, Turn
<1>11. memData' # "gone" =>
         /\ made' = Parts
         /\ \A u \in Threads : call'[u].at \notin MakeLabels \union EndLabels
         /\ \A u \in Threads : u # Main => call'[u].addr = Null
         /\ MadeAt(call[Main].at)'
  <2>1. memData = "raw" /\ t = Main => {"mutex", "stack"} \subseteq made
    BY <1>0 DEF SafeInv, Phases, MadeAt
  <2>2. memData' # "gone" => made' = Parts
    BY <1>2, <1>10, <2>1, Typed DEF Parts
  <2> QED
    BY <1>1, <1>4, <1>10, <2>2 DEF Alone, Turn, Idle, Frame, MakeLabels, EndLabels, MadeAt
<1>12. Phases'
  <2>1. memData' # "raw" => \A u \in Threads : call'[u].op # "construct"
    BY <1>1, <1>2, <1>4, <1>10 DEF SafeInv, Phases, Alone, Turn, Idle, Frame
  <2> QED
    BY <1>2, <1>9, <1>10, <1>11, <2>1 DEF SafeInv, Phases, ends
<1>13. Locked'
  <2>1. OfCall(call[t]) \in {0, 1}
    BY DEF OfCall
  <2> QED
    BY <1>0, <1>1, <1>2, <1>4, <2>1, LockedKept DEF SafeInv, ends
<1>14. Entries'
  <2>1. memData' # "gone" => \A u \in Threads : call'[u].addr = Null
    BY <1>1, <1>4, <1>10, <1>11 DEF Turn
  <2> QED
    BY <1>2, <1>7, <2>1, Typed DEF Entries
<1>15. Counted'
  <2>1. memData' # "gone" => stackItems' = NoStacks /\ call'[Main].at # "makeMem"
    BY <1>0, <1>1, <1>2, <1>4, <1>10 DEF SafeInv, Counted, Turn
  <2>2. \A s \in Stacks : Registered(s)' = {}
    BY <1>7, LeakAssumption DEF Registered
  <2>3. \A s \in Stacks : NoStacks[s] = 0
    BY DEF NoStacks
  <2> QED
    BY <2>1, <2>2, <2>3, FS_EmptySet, LeakAssumption DEF Counted
<1>16. Few'
  BY <1>2, <1>7, LeakAssumption, FewKept, Typed DEF SafeInv, ends
<1> QED
  BY <1>2, <1>5, <1>8, <1>12, <1>13, <1>14, <1>15, <1>16 DEF SafeInv, ends

-----------------------------------------------------------------------------
(* The calls. *)

\* What Phases says of a thread in the middle of a call.
LEMMA InCall ==
  ASSUME LeakInv, SafeInv, NEW t \in Threads,
         call[t].at \in {"malloc", "lock", "section", "leave", "free"}
  PROVE  /\ memData = "raw" => t = Main
         /\ ~reported /\ leaver # Null => t = Main
         /\ memData # "gone" => made = Parts /\ ~initOrExit
         /\ ~reported /\ memData = "gone" => call[t].at = "free" /\ initOrExit
         /\ memData # "gone" => call[Main].at # "makeMem"
<1>1. memData \in {"raw", "made", "gone"} /\ call[t] # Idle
  BY DEF LeakInv, LeakTypeOK, Idle, Frame
<1>2. /\ memData = "raw" => t = Main
      /\ ~reported /\ leaver # Null => t = Main
  BY <1>1 DEF SafeInv, Phases, Alone
<1>3. memData = "raw" => made = Parts /\ ~initOrExit
  BY <1>2 DEF SafeInv, Phases, MadeAt
<1>4. memData = "made" => made = Parts /\ ~initOrExit /\ call[Main].at # "makeMem"
  BY LeakAssumption DEF SafeInv, Phases, MakeLabels
<1>5. ~reported /\ memData = "gone" => call[t].at = "free" /\ initOrExit
  BY <1>2, LeakAssumption DEF SafeInv, Phases, EndLabels
<1> QED
  BY <1>1, <1>2, <1>3, <1>4, <1>5

LEMMA PhasesKept ==
  ASSUME LeakInv, SafeInv, NEW t \in Threads, NEW c, Turn(t, c),
         call[t].at \in {"malloc", "lock", "section", "leave", "free"},
         c.at \in {"lock", "section", "leave", "free", "client"},
         c.op # "construct",
         call[t].at = "free" => c.at = "client",
         UNCHANGED <<made, memData>>, reported => reported',
         \/ initOrExit' = initOrExit
         \/ initOrExit' = FALSE /\ call[t].at = "leave",
         leaver' = leaver \/ (reported' /\ leaver' = t)
  PROVE  Phases'
<1>1. /\ memData = "raw" => t = Main
      /\ ~reported /\ leaver # Null => t = Main
      /\ memData # "gone" => made = Parts /\ ~initOrExit
      /\ ~reported /\ memData = "gone" => call[t].at = "free" /\ initOrExit
  BY InCall
<1>2. memData = "raw" => Alone' /\ MadeAt(call[Main].at)' /\ leaver' \in {Null, Main}
  BY <1>1 DEF SafeInv, Phases, Alone, Turn, MadeAt, EndLabels
<1>3. memData # "raw" => \A u \in Threads : call'[u].op # "construct"
  BY DEF SafeInv, Phases, Turn
<1>4. memData = "made" => \A u \in Threads : call'[u].at \notin MakeLabels \union EndLabels
  BY DEF SafeInv, Phases, Turn, MakeLabels, EndLabels
<1>5. ~reported' /\ leaver' # Null => leaver' = Main /\ Alone' /\ memData # "raw"
  BY <1>1 DEF SafeInv, Phases, Alone, Turn
<1>6. ~reported' /\ memData = "gone" =>
        /\ leaver' = Main /\ initOrExit'
        /\ call'[Main].at \in {"client", "free"} \union EndLabels
  <2>1. SUFFICES ASSUME ~reported', memData = "gone"
                 PROVE  /\ leaver' = Main /\ initOrExit'
                        /\ call'[Main].at \in {"client", "free"} \union EndLabels
    OBVIOUS
  <2>2. leaver = Main /\ initOrExit /\ call[t].at = "free" /\ leaver' = leaver
        /\ call[Main].at \in {"client", "free"} \union EndLabels
    BY <1>1, <2>1 DEF SafeInv, Phases
  <2> QED
    BY <2>2, LeakAssumption DEF Turn
<1>7. memData = "made" => ~initOrExit'
  BY <1>1
<1>8. memData = "raw" => ~initOrExit'
  BY <1>1
<1> QED
  BY <1>1, <1>2, <1>3, <1>4, <1>5, <1>6, <1>7, <1>8 DEF Phases

\* A process that stops after a report.
LEMMA StopSafe ==
  ASSUME SafeInv, NEW o, Stop(o), reported
  PROVE  SafeInv'
BY DEF SafeInv, Stop, guards, life, tables, blocks, ends, Holding, Ownership, Phases,
       Alone, Locked, Entries, Counted, Registered, Few, HeldOf, MadeAt

\* Nobody knows of a block that is not allocated.
LEMMA Fresh ==
  ASSUME SafeInv, NEW a \in Addrs, a \notin heap
  PROVE  /\ origin[a] = Null /\ a \notin held
         /\ memData # "gone" => memItems[a] = Null
         /\ \A u \in Threads : call[u].addr # a
<1>1. a # Null
  BY LeakAssumption
<1> QED
  BY <1>1 DEF SafeInv, Ownership, Entries

LEMMA PassNewSafe ==
  ASSUME LeakInv, SafeInv, NEW t \in Threads, PassNew(t)
  PROVE  SafeInv'
<1> PICK a \in Addrs \ heap : heap' = heap \union {a} /\ held' = held \union {a}
  BY DEF PassNew
<1>1. /\ UNCHANGED <<guards, made, owner, life, tables, origin, ends, call, proc>>
  BY DEF PassNew
<1>2. /\ origin[a] = Null /\ a \notin held
      /\ memData # "gone" => memItems[a] = Null
      /\ \A u \in Threads : call[u].addr # a
  BY Fresh
<1>3. Holding'
  BY <1>1 DEF SafeInv, Holding
<1>4. Ownership'
  <2>1. IsFiniteSet(heap')
    BY FS_AddElement DEF SafeInv, Ownership
  <2> QED
    BY <1>1, <1>2, <2>1 DEF SafeInv, Ownership
<1>5. Phases' /\ Locked'
  BY <1>1 DEF SafeInv, Phases, Alone, MadeAt, Locked, guards, life, ends
<1>6. Entries'
  BY <1>1, <1>2 DEF SafeInv, Entries, life, tables
<1>7. Counted'
  BY <1>1, CountedKept DEF SafeInv, life, tables, ends
<1>8. Few'
  <2>1. \A s \in Stacks : HeldOf(s)' = HeldOf(s)
    BY <1>1, <1>2, LeakAssumption DEF HeldOf
  <2> QED
    BY <1>1, <2>1 DEF SafeInv, Few, ends
<1> QED
  BY <1>1, <1>3, <1>4, <1>5, <1>6, <1>7, <1>8 DEF SafeInv, ends

LEMMA CallNewSafe ==
  ASSUME Habits = {}, LeakInv, SafeInv, NEW t \in Threads, CallNew(t)
  PROVE  SafeInv'
<1> PICK s \in Stacks : call' = [call EXCEPT ![t] = Frame("init", "new", Null, s)]
  BY DEF CallNew
<1> DEFINE c == Frame("init", "new", Null, s)
<1>1. Turn(t, c) /\ call[t].at = "client"
  BY TurnOf DEF CallNew, At
<1>2. /\ UNCHANGED <<initOrExit, made, owner, life, tables, blocks, ends, proc>>
      /\ ongoing' = Entered(t) /\ ~initOrExit
  BY DEF CallNew, Bypasses
<1>3. c.at = "init" /\ c.op = "new" /\ c.addr = Null /\ c.stack = s
  BY DEF Frame
<1> HIDE DEF c
<1>4. call[t].op = "none"
  BY <1>1, Typed DEF Counts, OpsAt
<1>5. Holding'
  BY <1>1, <1>3, HoldingKept DEF SafeInv, Carries
<1>6. \A u \in Threads : call'[u].addr \in {call[u].addr, Null}
  BY <1>1, <1>3 DEF Turn
<1>7. Ownership'
  BY <1>2, <1>6, OwnershipKept DEF SafeInv, blocks
<1>8. Phases'
  <2>1. memData = "raw" => t = Main
    BY LeakAssumption DEF CallNew, MayCall, SafeInv, Phases
  <2>2. ~reported /\ leaver # Null => t = Main
    BY DEF CallNew, MayCall, SafeInv, Phases
  <2>3. memData = "raw" => Alone' /\ MadeAt(call[Main].at)'
    BY <1>1, <1>2, <1>3, <2>1 DEF SafeInv, Phases, Alone, Turn, MadeAt, EndLabels, life
  <2>4. memData # "raw" => \A u \in Threads : call'[u].op # "construct"
    BY <1>1, <1>3 DEF SafeInv, Phases, Turn
  <2>5. memData = "made" => \A u \in Threads : call'[u].at \notin MakeLabels \union EndLabels
    BY <1>1, <1>3 DEF SafeInv, Phases, Turn, MakeLabels, EndLabels
  <2>6. ~reported /\ leaver # Null => Alone'
    BY <1>1, <2>2 DEF SafeInv, Phases, Alone, Turn
  <2> QED
    BY <1>2, <2>3, <2>4, <2>5, <2>6 DEF SafeInv, Phases, life, ends
<1>9. Locked'
  <2>1. OfCall(c) = 1 /\ OfInit(c) = 0 /\ OfCall(call[t]) = 0 /\ OfInit(call[t]) = 0
    BY <1>1, <1>3, <1>4 DEF OfCall, OfInit
  <2> QED
    BY <1>1, <1>2, <1>3, <2>1, LockedKept DEF SafeInv, ends
<1>10. Entries'
  BY <1>1, <1>2, <1>3, EntriesKept DEF SafeInv, blocks, tables, life, Turn
<1>11. Counted'
  BY <1>1, <1>2, <1>3, CountedKept DEF SafeInv, tables, ends, life, Turn
<1>12. Few'
  BY <1>2, LeakAssumption, FewKept DEF SafeInv, ends, blocks
<1> QED
  BY <1>2, <1>5, <1>7, <1>8, <1>9, <1>10, <1>11, <1>12 DEF SafeInv, ends

LEMMA MallocSafe ==
  ASSUME LeakInv, SafeInv, NEW t \in Threads, Malloc(t)
  PROVE  SafeInv'
<1>1. /\ UNCHANGED <<guards, made, owner, life, tables, held, ends, proc>>
      /\ call[t].at = "malloc" /\ call[t].op = "new" /\ call[t] \in CallType
      /\ call[t].addr = Null /\ call[t].stack \in Stacks
  BY Typed DEF Malloc, At, Counts, OpsAt, SafeInv, Holding, Carries
<1>2. PICK b \in Addrs \union {Null}, l \in {"lock", "leave"} :
        /\ call' = [call EXCEPT ![t] = [call[t] EXCEPT !.addr = b, !.at = l]]
        /\ b = Null => l = "leave" /\ heap' = heap /\ origin' = origin
        /\ b # Null => /\ b \notin heap /\ heap' = heap \union {b}
                       /\ origin' = [origin EXCEPT ![b] = IF l = "lock" THEN call[t].stack
                                                          ELSE Null]
  <2>1. CASE Goto(t, "leave") /\ UNCHANGED <<heap, origin>>
    <3>1. call' = [call EXCEPT ![t] = [call[t] EXCEPT !.addr = Null, !.at = "leave"]]
      BY <1>1, <2>1 DEF Goto, CallType
    <3> QED
      BY <2>1, <3>1
  <2>2. CASE \E a \in Addrs \ heap, tracked \in {TRUE, ~CanFail} :
               /\ heap' = heap \union {a}
               /\ origin' = [origin EXCEPT ![a] = IF tracked THEN call[t].stack
                                                  ELSE Null]
               /\ call' = [call EXCEPT ![t].addr = a,
                             ![t].at = IF tracked THEN "lock" ELSE "leave"]
    <3> PICK a \in Addrs \ heap, tracked \in {TRUE, ~CanFail} :
               /\ heap' = heap \union {a}
               /\ origin' = [origin EXCEPT ![a] = IF tracked THEN call[t].stack
                                                  ELSE Null]
               /\ call' = [call EXCEPT ![t].addr = a,
                             ![t].at = IF tracked THEN "lock" ELSE "leave"]
      BY <2>2
    <3>1. a # Null /\ call \in [Threads -> CallType]
      BY LeakAssumption, Typed
    <3>2. CASE tracked
      <4>1. call' = [call EXCEPT ![t] = [call[t] EXCEPT !.addr = a, !.at = "lock"]]
        BY <3>1, <3>2 DEF CallType
      <4> QED
        BY <3>1, <3>2, <4>1
    <3>3. CASE ~tracked
      <4>1. call' = [call EXCEPT ![t] = [call[t] EXCEPT !.addr = a, !.at = "leave"]]
        BY <3>1, <3>3 DEF CallType
      <4> QED
        BY <3>1, <3>3, <4>1
    <3> QED
      BY <3>2, <3>3
  <2> QED
    BY <2>1, <2>2 DEF Malloc
<1> DEFINE c == [call[t] EXCEPT !.addr = b, !.at = l]
<1>3. Turn(t, c)
  BY <1>2, TurnOf
<1>4. c.at = l /\ c.op = "new" /\ c.addr = b /\ c.stack = call[t].stack
  BY <1>1 DEF CallType
<1> HIDE DEF c
<1>5. b # Null => /\ origin[b] = Null /\ b \notin held
                  /\ memData # "gone" => memItems[b] = Null
                  /\ \A u \in Threads : call[u].addr # b
  BY <1>2, Fresh
<1>6. /\ heap' = heap \union ({b} \ {Null})
      /\ \A a \in Addrs : a # b => origin'[a] = origin[a]
      /\ b # Null => origin'[b] = IF l = "lock" THEN call[t].stack ELSE Null
  BY <1>2, Typed
<1>7. Holding'
  BY <1>1, <1>2, <1>3, <1>4, HoldingKept DEF SafeInv, Carries, MakeLabels, EndLabels
<1>8. Ownership'
  <2>1. IsFiniteSet(heap')
    BY <1>2, FS_AddElement DEF SafeInv, Ownership
  <2>2. \A a \in Addrs : origin'[a] # Null => a \in heap'
    BY <1>6, LeakAssumption DEF SafeInv, Ownership
  <2>3. \A u \in Threads : call'[u].addr # Null =>
          /\ call'[u].addr \in heap' \ held'
          /\ \A v \in Threads : call'[v].addr = call'[u].addr => v = u
    BY <1>1, <1>2, <1>3, <1>4, <1>5, <1>6 DEF SafeInv, Ownership, Turn
  <2> QED
    BY <1>1, <1>6, <2>1, <2>2, <2>3 DEF SafeInv, Ownership
<1>9. Phases'
  BY <1>1, <1>3, <1>4, PhasesKept DEF guards, life, ends
<1>10. Locked'
  <2>1. OfCall(c) = OfCall(call[t]) /\ OfInit(c) = OfInit(call[t])
    BY <1>1, <1>4 DEF OfCall, OfInit
  <2> QED
    BY <1>1, <1>3, <1>4, <2>1, LockedKept DEF SafeInv, ends, guards
<1>11. Entries'
  <2>1. CASE memData = "gone"
    BY <1>1, <2>1 DEF Entries, life
  <2>2. CASE memData # "gone"
    <3>1. ASSUME NEW a \in Addrs, memItems'[a] # Null
          PROVE  /\ a \in heap' /\ memItems'[a] = origin'[a]
                 /\ \A u \in Threads : call'[u].addr = a => Knows(call'[u])
      <4>1. a # b /\ a # Null
        BY <1>1, <1>5, <2>2, <3>1, LeakAssumption DEF tables
      <4> QED
        BY <1>1, <1>3, <1>4, <1>6, <2>2, <3>1, <4>1 DEF SafeInv, Entries, Turn, tables
    <3>2. \A a \in held' : memItems'[a] = origin'[a]
      <4>1. \A a \in held : a # b /\ a \in Addrs
        BY <1>5, LeakAssumption, Typed
      <4> QED
        BY <1>1, <1>6, <2>2, <4>1 DEF SafeInv, Entries, tables
    <3>3. ASSUME NEW u \in Threads, call'[u].addr # Null, call'[u].op = "new"
          PROVE  IF call'[u].at = "leave"
                 THEN memItems'[call'[u].addr] = origin'[call'[u].addr]
                 ELSE origin'[call'[u].addr] = call'[u].stack
      <4>1. CASE u = t
        BY <1>1, <1>3, <1>4, <1>5, <1>6, <2>2, <3>3, <4>1 DEF Turn, tables
      <4>2. CASE u # t
        <5>1. call'[u] = call[u] /\ call[u].addr # b /\ call[u].addr \in Addrs
          BY <1>3, <1>5, <3>3, <4>2, Typed DEF Turn, CallType
        <5> QED
          BY <1>1, <1>6, <2>2, <3>3, <5>1 DEF SafeInv, Entries, tables
      <4> QED
        BY <4>1, <4>2
    <3> QED
      BY <3>1, <3>2, <3>3 DEF Entries
  <2> QED
    BY <2>1, <2>2
<1>12. Counted'
  BY <1>1, <1>3, <1>4, CountedKept DEF SafeInv, tables, ends, life, Turn
<1>13. Few'
  <2>1. \A a \in held' : origin'[a] = origin[a]
    BY <1>1, <1>5, <1>6, LeakAssumption, Typed
  <2> QED
    BY <1>1, <2>1, LeakAssumption, FewKept DEF SafeInv, ends
<1> QED
  BY <1>1, <1>7, <1>8, <1>9, <1>10, <1>11, <1>12, <1>13 DEF SafeInv, ends

LEMMA CallDeleteSafe ==
  ASSUME Habits = {}, LeakInv, SafeInv, NEW t \in Threads, CallDelete(t)
  PROVE  SafeInv'
<1> PICK a \in held \union {Null} :
      /\ held' = held \ {a}
      /\ call' = [call EXCEPT ![t] =
                    Frame(IF initOrExit THEN "free" ELSE "lock", "delete", a, Null)]
  BY DEF CallDelete
<1> DEFINE c == Frame(IF initOrExit THEN "free" ELSE "lock", "delete", a, Null)
<1>1. Turn(t, c) /\ call[t].at = "client"
  BY TurnOf DEF CallDelete, At
<1>2. /\ UNCHANGED <<initOrExit, made, owner, life, tables, heap, origin, ends, proc>>
      /\ ongoing' = IF initOrExit THEN ongoing ELSE Entered(t)
  BY DEF CallDelete
<1>3. /\ c.at = (IF initOrExit THEN "free" ELSE "lock") /\ c.op = "delete"
      /\ c.addr = a
  BY DEF Frame
<1> HIDE DEF c
<1>4. call[t].op = "none" /\ call[t].addr = Null
  BY <1>1, Typed DEF Counts, OpsAt, SafeInv, Holding, Carries
<1>5. Holding'
  BY <1>1, <1>3, HoldingKept DEF SafeInv, Carries, MakeLabels, EndLabels
<1>6. Ownership'
  <2>1. a # Null => a \in heap \ held' /\ \A u \in Threads : call[u].addr # a
    BY DEF SafeInv, Ownership
  <2> QED
    BY <1>1, <1>2, <1>3, <2>1 DEF SafeInv, Ownership, Turn
<1>7. /\ memData = "raw" => t = Main /\ made = Parts /\ ~initOrExit
      /\ memData = "made" => ~initOrExit
      /\ ~reported /\ leaver # Null => t = Main
  <2>1. memData = "raw" => t = Main
    BY LeakAssumption DEF CallDelete, MayCall, SafeInv, Phases
  <2>2. ~reported /\ leaver # Null => t = Main
    BY DEF CallDelete, MayCall, SafeInv, Phases
  <2>3. memData = "raw" => made # {}
    BY DEF CallDelete
  <2> QED
    BY <1>1, <2>1, <2>2, <2>3 DEF SafeInv, Phases, MadeAt
<1>8. Phases'
  <2>3. memData = "raw" => Alone' /\ MadeAt(call[Main].at)'
    BY <1>1, <1>2, <1>3, <1>7 DEF SafeInv, Phases, Alone, Turn, MadeAt, EndLabels
  <2>4. memData # "raw" => \A u \in Threads : call'[u].op # "construct"
    BY <1>1, <1>3 DEF SafeInv, Phases, Turn
  <2>5. memData = "made" => \A u \in Threads : call'[u].at \notin MakeLabels \union EndLabels
    BY <1>1, <1>3 DEF SafeInv, Phases, Turn, MakeLabels, EndLabels
  <2>6. ~reported /\ leaver # Null => Alone'
    BY <1>1, <1>7 DEF SafeInv, Phases, Alone, Turn
  <2>7. ~reported /\ memData = "gone" =>
          call'[Main].at \in {"client", "free"} \union EndLabels
    BY <1>1, <1>3 DEF SafeInv, Phases, Turn
  <2> QED
    BY <1>2, <1>7, <2>3, <2>4, <2>5, <2>6, <2>7 DEF SafeInv, Phases, life, ends
<1>9. Locked'
  <2>1. /\ OfCall(c) = (IF initOrExit THEN 0 ELSE 1) /\ OfInit(c) = 0
        /\ OfCall(call[t]) = 0 /\ OfInit(call[t]) = 0
    BY <1>1, <1>3, <1>4 DEF OfCall, OfInit
  <2> QED
    BY <1>1, <1>2, <1>3, <2>1, LockedKept DEF SafeInv, ends
<1>10. Entries'
  <2>1. memData # "gone" => Knows(c)
    BY <1>3, <1>7, Typed DEF Knows
  <2> QED
    BY <1>1, <1>2, <1>3, <2>1 DEF SafeInv, Entries, Turn, tables, life
<1>11. Counted'
  BY <1>1, <1>2, <1>3, CountedKept DEF SafeInv, tables, ends, life, Turn
<1>12. Few'
  BY <1>2, LeakAssumption, FewKept DEF SafeInv, ends
<1> QED
  BY <1>2, <1>5, <1>6, <1>8, <1>9, <1>10, <1>11, <1>12 DEF SafeInv, ends

\* Who is at the lock, or behind it, has the tables until a report.
LEMMA TablesThere ==
  ASSUME LeakInv, SafeInv, NEW t \in Threads, call[t].at \in {"lock", "section"},
         ~reported
  PROVE  memData # "gone" /\ made = Parts
BY InCall

LEMMA LockSafe ==
  ASSUME LeakInv, SafeInv, NEW t \in Threads, Lock(t)
  PROVE  SafeInv'
<1>0. call[t].at = "lock" /\ call[t] \in CallType /\ call[t].op \in {"new", "delete"}
  BY Typed DEF Lock, At, Counts, OpsAt
<1>1. CASE Stop("segv")
  <2>1. CASE reported
    BY <1>1, <2>1, StopSafe
  <2>2. CASE ~reported
    <3>1. "mutex" \in made
      BY <1>0, <2>2, TablesThere DEF Parts
    <3>2. proc = "running" /\ proc' = "segv"
      BY <1>1, <2>2 DEF SafeInv, Stop
    <3> QED
      BY <3>1, <3>2 DEF Lock
  <2> QED
    BY <2>1, <2>2
<1>2. CASE ~Stop("segv")
  <2> DEFINE c == [call[t] EXCEPT !.at = "section"]
  <2>1. /\ Turn(t, c)
        /\ Locks(t) => owner = Null
        /\ owner' = IF Locks(t) THEN t ELSE owner
        /\ UNCHANGED <<guards, made, life, tables, blocks, ends, proc>>
    BY <1>2, TurnOf DEF Lock, Goto
  <2>2. /\ c.at = "section" /\ c.op = call[t].op /\ c.addr = call[t].addr
        /\ c.stack = call[t].stack
    BY <1>0, Moved DEF Labels
  <2> HIDE DEF c
  <2>3. Holding'
    BY <1>0, <2>1, <2>2, HoldingKept DEF SafeInv, Holding, Carries, MakeLabels, EndLabels
  <2>4. \A u \in Threads : call'[u].addr = call[u].addr
    BY <2>1, <2>2 DEF Turn
  <2>5. Ownership'
    BY <2>1, <2>4, OwnershipKept DEF SafeInv, blocks
  <2>6. Phases'
    BY <1>0, <2>1, <2>2, PhasesKept DEF guards, life, ends
  <2>7. Locked'
    <3>1. CASE reported
      BY <2>1, <3>1 DEF Locked, ends
    <3>2. CASE ~reported
      <4>1. ongoing[t] = 1 /\ OfCall(c) = 1 /\ OfInit(c) = 0
        BY <1>0, <2>2, <3>2 DEF SafeInv, Locked, OfCall, OfInit
      <4>2. owner = Null /\ owner' = t
        BY <1>0, <2>1, <4>1 DEF Locks
      <4>3. \A u \in Threads : call[u].at # "section"
        BY <3>2, <4>2, LeakAssumption DEF SafeInv, Locked
      <4> QED
        BY <2>1, <2>2, <3>2, <4>1, <4>2, <4>3 DEF SafeInv, Locked, Turn, guards, ends
    <3> QED
      BY <3>1, <3>2
  <2>8. Entries'
    BY <1>0, <2>1, <2>2, <2>4, EntriesKept DEF SafeInv, blocks, tables, life, Turn, Knows
  <2>9. Counted'
    BY <1>0, <2>1, <2>2, CountedKept DEF SafeInv, tables, ends, life, Turn
  <2>10. Few'
    BY <2>1, LeakAssumption, FewKept DEF SafeInv, ends, blocks
  <2> QED
    BY <2>1, <2>3, <2>5, <2>6, <2>7, <2>8, <2>9, <2>10 DEF SafeInv, ends
<1> QED
  BY <1>1, <1>2

\* In the critical section every call has what it needs, until a report.
LEMMA FateIsGood ==
  ASSUME LeakInv, SafeInv, NEW t \in Threads, call[t].at = "section",
         NEW found \in BOOLEAN, ~reported
  PROVE  Fate(t, found) = "running" /\ owner = t
<1>1. made = Parts /\ owner = t
  BY TablesThere DEF SafeInv, Locked
<1>2. call[t].op \in {"new", "delete"} /\ ongoing[t] \in Nat
  BY Typed DEF Counts, OpsAt
<1>3. Bypasses(t)
  <2>1. OfCall(call[t]) = 1 /\ OfInit(call[t]) = 0
    BY <1>2 DEF OfCall, OfInit
  <2> QED
    BY <1>2, <2>1 DEF SafeInv, Locked, Bypasses
<1> QED
  BY <1>1, <1>3 DEF Fate, Parts

\* Who holds the lock gives it back.
LEMMA UnlockedKept ==
  ASSUME LeakInv, SafeInv, NEW t \in Threads, NEW c, Turn(t, c),
         call[t].at = "section", c.at # "section", ongoing' = ongoing,
         owner' = Unlocked(t), reported => reported',
         ~reported' => OfCall(c) + OfInit(c) = OfCall(call[t]) + OfInit(call[t])
  PROVE  Locked'
<1> SUFFICES ASSUME ~reported', NEW u \in Threads
             PROVE  /\ ongoing'[u] = OfCall(call'[u]) + OfInit(call'[u])
                    /\ owner' = u <=> call'[u].at = "section"
  BY DEF Locked
<1>1. owner = t /\ owner' = Null
  BY DEF SafeInv, Locked, Unlocked
<1>2. owner' # u /\ call'[u].at # "section"
  BY <1>1, LeakAssumption DEF SafeInv, Locked, Turn
<1>3. ongoing'[u] = OfCall(call'[u]) + OfInit(call'[u])
  BY DEF SafeInv, Locked, Turn
<1> QED
  BY <1>2, <1>3

LEMMA RegisterBlockSafe ==
  ASSUME LeakInv, SafeInv, NEW t \in Threads, RegisterBlock(t)
  PROVE  SafeInv'
<1> DEFINE a == call[t].addr
           s == call[t].stack
           n == stackItems[s] + 1
           c == IF TooMany(n) THEN Idle ELSE [call[t] EXCEPT !.at = "leave"]
<1>0. /\ call[t].at = "section" /\ call[t].op = "new" /\ call[t] \in CallType
      /\ s \in Stacks /\ a # Null /\ a \in Addrs
      /\ a \in heap \ held /\ \A u \in Threads : call[u].addr = a => u = t
      /\ memData # "gone" => memItems[a] = Null /\ origin[a] = s
  <2>1. call[t].at = "section" /\ call[t].op = "new" /\ call[t] \in CallType
    BY Typed DEF RegisterBlock, At
  <2>2. s \in Stacks /\ a # Null /\ a \in Addrs
    BY <2>1, Typed DEF SafeInv, Holding, Carries, CallType
  <2>3. a \in heap \ held /\ \A u \in Threads : call[u].addr = a => u = t
    BY <2>2 DEF SafeInv, Ownership
  <2>4. ASSUME memData # "gone"
        PROVE  memItems[a] = Null /\ origin[a] = s
    BY <2>1, <2>2, <2>4 DEF SafeInv, Entries, Knows
  <2> QED
    BY <2>1, <2>2, <2>3, <2>4
<1>1. CASE proc' # "running"
  <2>0. Stop(Fate(t, TRUE)) \/ Stop("assertFailed")
    BY <1>1 DEF RegisterBlock, At
  <2>1. CASE reported
    BY <2>0, <2>1, StopSafe
  <2>2. CASE ~reported
    <3>1. Fate(t, TRUE) = "running" /\ memItems[a] = Null
      BY <1>0, <2>2, FateIsGood, TablesThere
    <3> QED
      BY <1>1, <3>1 DEF RegisterBlock, At
  <2> QED
    BY <2>1, <2>2
<1>2. CASE proc' = "running"
  <2>0. Fate(t, TRUE) = "running" /\ memItems[a] = Null
    BY <1>2 DEF RegisterBlock, Stop
  <2>1. /\ memItems' = [memItems EXCEPT ![a] = s]
        /\ stackItems' = [stackItems EXCEPT ![s] = n]
        /\ owner' = Unlocked(t)
        /\ reported' = (reported \/ TooMany(n))
        /\ leaver' = IF TooMany(n) /\ leaver = Null THEN t ELSE leaver
        /\ call' = [call EXCEPT ![t] = c]
        /\ UNCHANGED <<guards, made, life, blocks, proc>>
    BY <2>0 DEF RegisterBlock
  <2>2. Turn(t, c)
    BY <2>1, TurnOf
  <2>3. /\ TooMany(n) => c.at = "client" /\ c.op = "none" /\ c.addr = Null
        /\ ~TooMany(n) => /\ c.at = "leave" /\ c.op = "new" /\ c.addr = a
                          /\ c.stack = s
    <3>1. CASE TooMany(n)
      BY <3>1 DEF Idle, Frame
    <3>2. CASE ~TooMany(n)
      BY <1>0, <3>2, Moved DEF Labels
    <3> QED
      BY <3>1, <3>2
  <2> HIDE DEF c, n
  <2>4. Holding'
    BY <1>0, <2>2, <2>3, HoldingKept DEF SafeInv, Carries, MakeLabels, EndLabels
  <2>5. \A u \in Threads : call'[u].addr \in {call[u].addr, Null}
    BY <2>2, <2>3 DEF Turn
  <2>6. Ownership'
    BY <2>1, <2>5, OwnershipKept DEF SafeInv, blocks
  <2>7. Phases'
    BY <1>0, <2>1, <2>2, <2>3, PhasesKept DEF guards, life
  <2>8. Locked'
    <3>1. ~reported' => OfCall(c) + OfInit(c) = OfCall(call[t]) + OfInit(call[t])
      BY <1>0, <2>1, <2>3 DEF OfCall, OfInit
    <3> QED
      BY <1>0, <2>1, <2>2, <2>3, <3>1, UnlockedKept DEF guards
  <2>9. Entries'
    <3>1. CASE memData = "gone"
      BY <2>1, <3>1 DEF Entries, life
    <3>2. CASE memData # "gone"
      <4>0. /\ memItems'[a] = s /\ origin' = origin /\ held' = held /\ heap' = heap
            /\ \A b \in Addrs : b # a => memItems'[b] = memItems[b]
        BY <1>0, <2>1, Typed DEF blocks
      <4>1. ASSUME NEW b \in Addrs, memItems'[b] # Null
            PROVE  /\ b \in heap' /\ memItems'[b] = origin'[b]
                   /\ \A u \in Threads : call'[u].addr = b => Knows(call'[u])
        <5>1. CASE b = a
          BY <1>0, <2>2, <2>3, <3>2, <4>0, <5>1 DEF Knows, Turn
        <5>2. CASE b # a
          <6>1. b # Null
            BY LeakAssumption
          <6> QED
            BY <2>2, <2>3, <3>2, <4>0, <4>1, <5>2, <6>1 DEF SafeInv, Entries, Turn
        <5> QED
          BY <5>1, <5>2
      <4>2. \A b \in held' : memItems'[b] = origin'[b]
        BY <1>0, <3>2, <4>0, Typed DEF SafeInv, Entries
      <4>3. ASSUME NEW u \in Threads, call'[u].addr # Null, call'[u].op = "new"
            PROVE  IF call'[u].at = "leave"
                   THEN memItems'[call'[u].addr] = origin'[call'[u].addr]
                   ELSE origin'[call'[u].addr] = call'[u].stack
        <5>1. CASE u = t
          BY <1>0, <2>2, <2>3, <3>2, <4>0, <4>3, <5>1 DEF Turn
        <5>2. CASE u # t
          <6>1. call'[u] = call[u] /\ call[u].addr # a /\ call[u].addr \in Addrs
            BY <1>0, <2>2, <4>3, <5>2, Typed DEF Turn, CallType
          <6> QED
            BY <3>2, <4>0, <4>3, <6>1 DEF SafeInv, Entries
        <5> QED
          BY <5>1, <5>2
      <4> QED
        BY <4>1, <4>2, <4>3 DEF Entries
    <3> QED
      BY <3>1, <3>2
  <2>10. Counted'
    <3>1. SUFFICES ASSUME memData # "gone"
                   PROVE  Counted'
      BY <2>1 DEF Counted, life
    <3>2. call[Main].at # "makeMem" /\ call'[Main].at # "makeMem"
      BY <1>0, <2>2, <2>3, <3>1, InCall, LeakAssumption DEF Turn
    <3>3. ASSUME NEW r \in Stacks
          PROVE  /\ IsFiniteSet(Registered(r)')
                 /\ stackItems'[r] = Cardinality(Registered(r)')
                 /\ ~reported' /\ Limit > 0 => stackItems'[r] <= Limit
      <4>1. /\ IsFiniteSet(Registered(r)) /\ stackItems[r] = Cardinality(Registered(r))
            /\ ~reported /\ Limit > 0 => stackItems[r] <= Limit
        BY <3>1, <3>2 DEF SafeInv, Counted
      <4>2. CASE r # s
        <5>1. Registered(r)' = Registered(r) /\ stackItems'[r] = stackItems[r]
          BY <1>0, <2>1, <3>1, <4>2, LeakAssumption, Typed DEF Registered
        <5> QED
          BY <2>1, <4>1, <5>1
      <4>3. CASE r = s
        <5>1. Registered(r)' = Registered(r) \union {a} /\ a \notin Registered(r)
          BY <1>0, <2>1, <3>1, <4>3, LeakAssumption, Typed DEF Registered
        <5>2. stackItems'[r] = n /\ n = stackItems[r] + 1 /\ stackItems[r] \in Nat
          BY <2>1, <4>3, Typed DEF n
        <5>3. IsFiniteSet(Registered(r)') /\ Cardinality(Registered(r)') = n
          <6>1. /\ IsFiniteSet(Registered(r) \union {a})
                /\ Cardinality(Registered(r) \union {a}) = Cardinality(Registered(r)) + 1
            BY <4>1, <5>1, FS_AddElement
          <6> QED
            BY <4>1, <5>1, <5>2, <6>1
        <5>4. ~reported' /\ Limit > 0 => n <= Limit
          <6>1. ~reported' => ~TooMany(n)
            BY <2>1
          <6> QED
            BY <5>2, <6>1, LeakAssumption DEF TooMany
        <5> QED
          BY <5>2, <5>3, <5>4
      <4> QED
        BY <4>2, <4>3
    <3> QED
      BY <3>2, <3>3 DEF Counted
  <2>11. Few'
    BY <2>1, LeakAssumption, FewKept DEF SafeInv, blocks
  <2> QED
    BY <2>1, <2>4, <2>6, <2>7, <2>8, <2>9, <2>10, <2>11 DEF SafeInv
<1> QED
  BY <1>1, <1>2

LEMMA TakeBlockSafe ==
  ASSUME LeakInv, SafeInv, NEW t \in Threads, TakeBlock(t)
  PROVE  SafeInv'
<1> DEFINE a     == call[t].addr
           found == a # Null /\ memItems[a] # Null
           c     == [call[t] EXCEPT !.at = "leave"]
<1>0. /\ call[t].at = "section" /\ call[t].op = "delete" /\ call[t] \in CallType
      /\ a \in Addrs \union {Null} /\ found \in BOOLEAN
      /\ a # Null => /\ a \in heap \ held
                     /\ \A u \in Threads : call[u].addr = a => u = t
  <2>1. call[t].at = "section" /\ call[t].op = "delete" /\ call[t] \in CallType
    BY Typed DEF TakeBlock, At
  <2>2. a \in Addrs \union {Null} /\ found \in BOOLEAN
    BY <2>1 DEF CallType
  <2>3. a # Null => /\ a \in heap \ held
                    /\ \A u \in Threads : call[u].addr = a => u = t
    BY DEF SafeInv, Ownership
  <2> QED
    BY <2>1, <2>2, <2>3
\* A stack with a registered block has a count.
<1>1. ASSUME found, memData # "gone"
      PROVE  stackItems[memItems[a]] \in Nat \ {0}
  <2> DEFINE s == memItems[a]
  <2>1. s \in Stacks /\ a \in Registered(s) /\ stackItems[s] \in Nat
    BY <1>0, <1>1, Typed DEF Registered
  <2>2. IsFiniteSet(Registered(s)) /\ stackItems[s] = Cardinality(Registered(s))
    BY <1>0, <1>1, <2>1, InCall DEF SafeInv, Counted
  <2>3. Cardinality(Registered(s)) # 0
    BY <2>1, <2>2, FS_EmptySet
  <2> QED
    BY <2>1, <2>2, <2>3
<1>2. CASE proc' # "running"
  <2>0. Stop(Fate(t, found)) \/ Stop("assertFailed")
    BY <1>2 DEF TakeBlock, At
  <2>1. CASE reported
    BY <2>0, <2>1, StopSafe
  <2>2. CASE ~reported
    <3>1. Fate(t, found) = "running" /\ memData # "gone"
      BY <1>0, <2>2, FateIsGood, TablesThere
    <3> QED
      BY <1>1, <1>2, <3>1 DEF TakeBlock, At
  <2> QED
    BY <2>1, <2>2
<1>3. CASE proc' = "running"
  <2>0. Fate(t, found) = "running" /\ ~(found /\ stackItems[memItems[a]] = 0)
    BY <1>3 DEF TakeBlock, Stop
  <2>1. /\ stackItems' = IF found
                         THEN [stackItems EXCEPT ![memItems[a]] = Dropped(@)]
                         ELSE stackItems
        /\ memItems' = IF found THEN Removed(a) ELSE memItems
        /\ owner' = Unlocked(t)
        /\ call' = [call EXCEPT ![t] = c]
        /\ UNCHANGED <<guards, made, life, blocks, ends, proc>>
    BY <2>0 DEF TakeBlock, Goto
  <2>2. Turn(t, c)
    BY <2>1, TurnOf
  <2>3. c.at = "leave" /\ c.op = "delete" /\ c.addr = a
    BY <1>0, Moved DEF Labels
  <2> HIDE DEF c
  <2>4. /\ a # Null => memItems'[a] = Null
        /\ \A b \in Addrs : memItems'[b] # Null => b # a /\ memItems'[b] = memItems[b]
        /\ \A b \in Addrs : b # a => memItems'[b] = memItems[b]
    <3>1. CASE found
      BY <1>0, <2>1, <3>1, Typed DEF Removed
    <3>2. CASE ~found
      BY <2>1, <3>2, LeakAssumption
    <3> QED
      BY <3>1, <3>2
  <2> HIDE DEF found
  <2>5. Holding'
    BY <1>0, <2>2, <2>3, HoldingKept DEF SafeInv, Carries, MakeLabels, EndLabels
  <2>6. \A u \in Threads : call'[u].addr = call[u].addr
    BY <2>2, <2>3 DEF Turn
  <2>7. Ownership'
    BY <2>1, <2>6, OwnershipKept DEF SafeInv, blocks
  <2>8. Phases'
    BY <1>0, <2>1, <2>2, <2>3, PhasesKept DEF guards, life, ends
  <2>9. Locked'
    <3>1. OfCall(c) + OfInit(c) = OfCall(call[t]) + OfInit(call[t])
      BY <1>0, <2>3 DEF OfCall, OfInit
    <3> QED
      BY <1>0, <2>1, <2>2, <2>3, <3>1, UnlockedKept DEF guards, ends
  <2>10. Entries'
    <3>1. CASE memData = "gone"
      BY <2>1, <3>1 DEF Entries, life
    <3>2. CASE memData # "gone"
      <4>0. origin' = origin /\ held' = held /\ heap' = heap
        BY <2>1 DEF blocks
      <4>1. ASSUME NEW b \in Addrs, memItems'[b] # Null
            PROVE  /\ b \in heap' /\ memItems'[b] = origin'[b]
                   /\ \A u \in Threads : call'[u].addr = b => Knows(call'[u])
        <5>1. b # a /\ memItems'[b] = memItems[b]
          BY <2>4, <4>1
        <5> QED
          BY <2>2, <2>3, <3>2, <4>0, <4>1, <5>1 DEF SafeInv, Entries, Turn
      <4>2. \A b \in held' : memItems'[b] = origin'[b]
        BY <1>0, <2>4, <3>2, <4>0, LeakAssumption, Typed DEF SafeInv, Entries
      <4>3. ASSUME NEW u \in Threads, call'[u].addr # Null, call'[u].op = "new"
            PROVE  IF call'[u].at = "leave"
                   THEN memItems'[call'[u].addr] = origin'[call'[u].addr]
                   ELSE origin'[call'[u].addr] = call'[u].stack
        <5>1. u # t
          BY <2>2, <2>3, <4>3 DEF Turn
        <5>2. call'[u] = call[u] /\ call[u].addr # a /\ call[u].addr \in Addrs
          BY <1>0, <2>2, <4>3, <5>1, Typed DEF Turn, CallType
        <5> QED
          BY <2>4, <3>2, <4>0, <4>3, <5>2 DEF SafeInv, Entries
      <4> QED
        BY <4>1, <4>2, <4>3 DEF Entries
    <3> QED
      BY <3>1, <3>2
  <2>11. Counted'
    <3>1. SUFFICES ASSUME memData # "gone"
                   PROVE  Counted'
      BY <2>1 DEF Counted, life
    <3>2. call[Main].at # "makeMem" /\ call'[Main].at # "makeMem"
      BY <1>0, <2>2, <2>3, <3>1, InCall, LeakAssumption DEF Turn
    <3>3. ASSUME NEW r \in Stacks
          PROVE  /\ IsFiniteSet(Registered(r)')
                 /\ stackItems'[r] = Cardinality(Registered(r)')
                 /\ ~reported' /\ Limit > 0 => stackItems'[r] <= Limit
      <4>1. /\ IsFiniteSet(Registered(r)) /\ stackItems[r] = Cardinality(Registered(r))
            /\ ~reported /\ Limit > 0 => stackItems[r] <= Limit
        BY <3>1, <3>2 DEF SafeInv, Counted
      <4>2. CASE ~(found /\ r = memItems[a])
        <5>1. stackItems'[r] = stackItems[r]
          BY <2>1, <4>2, Typed
        <5>2. Registered(r)' = Registered(r)
          <6>1. CASE found
            BY <2>4, <4>2, <6>1, LeakAssumption DEF Registered
          <6>2. CASE ~found
            BY <2>1, <6>2 DEF Registered
          <6> QED
            BY <6>1, <6>2
        <5> QED
          BY <2>1, <4>1, <5>1, <5>2 DEF ends
      <4>3. CASE found /\ r = memItems[a]
        <5>1. a # Null /\ memItems[a] # Null
          BY <4>3 DEF found
        <5>2. Registered(r)' = Registered(r) \ {a} /\ a \in Registered(r)
          BY <1>0, <2>4, <4>3, <5>1, LeakAssumption DEF Registered
        <5>3. stackItems'[r] = stackItems[r] - 1 /\ stackItems[r] \in Nat
          BY <2>1, <4>3, Typed DEF Dropped
        <5>4. /\ IsFiniteSet(Registered(r) \ {a})
              /\ Cardinality(Registered(r) \ {a}) = Cardinality(Registered(r)) - 1
          BY <4>1, <5>2, FS_RemoveElement
        <5>5. ~reported' /\ Limit > 0 => stackItems'[r] <= Limit
          BY <2>1, <4>1, <5>3, LeakAssumption DEF ends
        <5> QED
          BY <4>1, <5>2, <5>3, <5>4, <5>5
      <4> QED
        BY <4>2, <4>3
    <3> QED
      BY <3>2, <3>3 DEF Counted
  <2>12. Few'
    BY <2>1, LeakAssumption, FewKept DEF SafeInv, blocks, ends
  <2> QED
    BY <2>1, <2>5, <2>7, <2>8, <2>9, <2>10, <2>11, <2>12 DEF SafeInv, ends
<1> QED
  BY <1>2, <1>3

LEMMA LeaveSafe ==
  ASSUME LeakInv, SafeInv, NEW t \in Threads, Leave(t)
  PROVE  SafeInv'
<1> DEFINE a == call[t].addr
           c == IF call[t].op = "new" THEN Idle ELSE [call[t] EXCEPT !.at = "free"]
<1>0. /\ call[t].at = "leave" /\ call[t].op \in {"new", "delete"}
      /\ call[t] \in CallType /\ a \in Addrs \union {Null}
      /\ a # Null => /\ a \in heap \ held
                     /\ \A u \in Threads : call[u].addr = a => u = t
  <2>1. /\ call[t].at = "leave" /\ call[t].op \in {"new", "delete"}
        /\ call[t] \in CallType
    BY Typed DEF Leave, At, Counts, OpsAt
  <2>2. a \in Addrs \union {Null}
    BY <2>1 DEF CallType
  <2>3. a # Null => /\ a \in heap \ held
                    /\ \A u \in Threads : call[u].addr = a => u = t
    BY DEF SafeInv, Ownership
  <2> QED
    BY <2>1, <2>2, <2>3
<1>1. /\ UNCHANGED <<made, owner, life, tables, heap, origin, ends, proc>>
      /\ initOrExit' = FALSE /\ ongoing' = Left(t)
      /\ held' = IF call[t].op = "new" THEN held \union ({a} \ {Null}) ELSE held
      /\ Turn(t, c)
  BY TurnOf DEF Leave, Goto
<1>2. /\ call[t].op = "new" => c.at = "client" /\ c.op = "none" /\ c.addr = Null
      /\ call[t].op = "delete" => c.at = "free" /\ c.op = "delete" /\ c.addr = a
  <2>1. CASE call[t].op = "new"
    BY <2>1 DEF Idle, Frame
  <2>2. CASE call[t].op = "delete"
    BY <1>0, <2>2, Moved DEF Labels
  <2> QED
    BY <1>0, <2>1, <2>2
<1> HIDE DEF c
<1>3. Holding'
  BY <1>0, <1>1, <1>2, HoldingKept DEF SafeInv, Carries, MakeLabels, EndLabels
<1>4. Ownership'
  <2>1. held' \subseteq heap
    BY <1>0, <1>1 DEF SafeInv, Ownership
  <2>2. \A u \in Threads : call'[u].addr # Null =>
          /\ call'[u].addr \in heap \ held'
          /\ \A v \in Threads : call'[v].addr = call'[u].addr => v = u
    BY <1>0, <1>1, <1>2 DEF SafeInv, Ownership, Turn
  <2> QED
    BY <1>1, <2>1, <2>2 DEF SafeInv, Ownership
<1>5. Phases'
  BY <1>0, <1>1, <1>2, PhasesKept DEF life, ends
<1>6. Locked'
  <2>1. /\ OfCall(c) = 0 /\ OfInit(c) = 0
        /\ OfCall(call[t]) = 1 /\ OfInit(call[t]) = 0
    BY <1>0, <1>2 DEF OfCall, OfInit
  <2> QED
    BY <1>0, <1>1, <1>2, <2>1, LockedKept DEF SafeInv, ends
<1>7. Entries'
  <2>1. CASE memData = "gone"
    BY <1>1, <2>1 DEF Entries, life
  <2>2. CASE memData # "gone"
    <3>1. a # Null /\ call[t].op = "new" => memItems[a] = origin[a]
      BY <1>0, <2>2 DEF SafeInv, Entries
    <3>2. a # Null /\ call[t].op = "delete" => memItems[a] = Null
      BY <1>0, <2>2, Typed DEF SafeInv, Entries, Knows
    <3>3. \A b \in held' : memItems[b] = origin[b]
      BY <1>0, <1>1, <2>2, <3>1 DEF SafeInv, Entries
    <3>4. ASSUME NEW b \in Addrs, memItems[b] # Null
          PROVE  /\ b \in heap /\ memItems[b] = origin[b]
                 /\ \A u \in Threads : call'[u].addr = b => Knows(call'[u])
      BY <1>0, <1>1, <1>2, <2>2, <3>2, <3>4, LeakAssumption DEF SafeInv, Entries, Turn
    <3>5. ASSUME NEW u \in Threads, call'[u].addr # Null, call'[u].op = "new"
          PROVE  call'[u] = call[u]
      BY <1>0, <1>1, <1>2, <3>5 DEF Turn
    <3> QED
      BY <1>1, <2>2, <3>3, <3>4, <3>5 DEF SafeInv, Entries, tables
  <2> QED
    BY <2>1, <2>2
<1>8. Counted'
  <2>1. call'[Main].at = "makeMem" <=> call[Main].at = "makeMem"
    BY <1>0, <1>1, <1>2 DEF Turn
  <2> QED
    BY <1>1, <2>1, CountedKept DEF SafeInv, tables, life, ends
\* What the program holds is registered.
<1>9. Few'
  <2> SUFFICES ASSUME ~reported, Limit > 0, NEW s \in Stacks
               PROVE  Cardinality(HeldOf(s)') <= Limit
    BY <1>1 DEF Few, ends
  <2>1. memData # "gone"
    BY <1>0, InCall
  <2>2. /\ IsFiniteSet(Registered(s)) /\ stackItems[s] = Cardinality(Registered(s))
        /\ stackItems[s] <= Limit
    BY <1>0, <2>1, InCall DEF SafeInv, Counted
  <2>3. HeldOf(s)' \in SUBSET Registered(s)
    <3>1. \A b \in held' : b \in Addrs /\ memItems[b] = origin[b]
      BY <1>1, <1>4, <1>7, <2>1, Typed DEF Entries, Ownership, tables, life
    <3> QED
      BY <1>1, <3>1 DEF HeldOf, Registered
  <2>4. Cardinality(HeldOf(s)') <= Cardinality(Registered(s))
        /\ Cardinality(HeldOf(s)') \in Nat /\ Cardinality(Registered(s)) \in Nat
    BY <2>2, <2>3, FS_Subset, FS_CardinalityType
  <2> QED
    BY <2>2, <2>4, LeakAssumption
<1> QED
  BY <1>1, <1>3, <1>4, <1>5, <1>6, <1>7, <1>8, <1>9 DEF SafeInv, ends

\* What is about to be freed is nobody else's, and no longer registered.
LEMMA FreesUnregistered ==
  ASSUME LeakInv, SafeInv, NEW t \in Threads, Free(t)
  PROVE  /\ call[t].at = "free" /\ call[t].op = "delete"
         /\ call[t].addr \in Addrs \union {Null}
         /\ call[t].addr # Null =>
              /\ call[t].addr \in heap \ held
              /\ \A u \in Threads : call[u].addr = call[t].addr => u = t
              /\ memData # "gone" => memItems[call[t].addr] = Null
<1> DEFINE a == call[t].addr
<1>1. call[t].at = "free" /\ call[t].op = "delete" /\ a \in Addrs \union {Null}
  BY Typed DEF Free, At, Counts, OpsAt, CallType
<1>2. a # Null => /\ a \in heap \ held
                  /\ \A u \in Threads : call[u].addr = a => u = t
  BY DEF SafeInv, Ownership
<1>3. a # Null /\ memData # "gone" => memItems[a] = Null
  BY <1>1, Typed DEF SafeInv, Entries, Knows
<1> QED
  BY <1>1, <1>2, <1>3

LEMMA FreeSafe ==
  ASSUME LeakInv, SafeInv, NEW t \in Threads, Free(t)
  PROVE  SafeInv'
<1> DEFINE a == call[t].addr
<1>0. /\ call[t].at = "free" /\ call[t].op = "delete" /\ a \in Addrs \union {Null}
      /\ a # Null => /\ a \in heap \ held
                     /\ \A u \in Threads : call[u].addr = a => u = t
                     /\ memData # "gone" => memItems[a] = Null
  BY FreesUnregistered
<1>1. /\ UNCHANGED <<guards, made, owner, life, tables, held, ends, proc>>
      /\ heap' = heap \ {a} /\ Turn(t, Idle)
      /\ \A b \in Addrs : origin'[b] = IF b = a THEN Null ELSE origin[b]
  BY TurnOf DEF Free
<1>2. Idle.at = "client" /\ Idle.op = "none" /\ Idle.addr = Null
  BY DEF Idle, Frame
<1>3. Holding'
  BY <1>1, <1>2, HoldingKept DEF SafeInv, Carries, MakeLabels, EndLabels
<1>4. Ownership'
  <2>1. IsFiniteSet(heap')
    BY <1>1, FS_Subset DEF SafeInv, Ownership
  <2>2. held' \subseteq heap' /\ \A b \in Addrs : origin'[b] # Null => b \in heap'
    BY <1>0, <1>1, LeakAssumption, Typed DEF SafeInv, Ownership
  <2>3. \A u \in Threads : call'[u].addr # Null =>
          /\ call'[u].addr \in heap' \ held'
          /\ \A v \in Threads : call'[v].addr = call'[u].addr => v = u
    BY <1>0, <1>1, <1>2 DEF SafeInv, Ownership, Turn
  <2> QED
    BY <2>1, <2>2, <2>3 DEF Ownership
<1>5. Phases'
  BY <1>0, <1>1, <1>2, PhasesKept DEF guards, life, ends
<1>6. Locked'
  <2>1. /\ OfCall(Idle) = OfCall(call[t]) /\ OfInit(Idle) = OfInit(call[t])
    BY <1>0, <1>2 DEF OfCall, OfInit
  <2> QED
    BY <1>0, <1>1, <1>2, <2>1, LockedKept DEF SafeInv, ends, guards
<1>7. Entries'
  <2>1. CASE memData = "gone"
    BY <1>1, <2>1 DEF Entries, life
  <2>2. CASE memData # "gone"
    <3>1. \A b \in held' : memItems'[b] = origin'[b]
      BY <1>0, <1>1, <2>2, LeakAssumption, Typed DEF SafeInv, Entries, tables
    <3>2. ASSUME NEW b \in Addrs, memItems'[b] # Null
          PROVE  /\ b \in heap' /\ memItems'[b] = origin'[b]
                 /\ \A u \in Threads : call'[u].addr = b => Knows(call'[u])
      <4>1. b # a /\ b # Null
        BY <1>0, <1>1, <2>2, <3>2, LeakAssumption DEF tables
      <4> QED
        BY <1>1, <1>2, <2>2, <3>2, <4>1 DEF SafeInv, Entries, tables, Turn
    <3>3. ASSUME NEW u \in Threads, call'[u].addr # Null, call'[u].op = "new"
          PROVE  IF call'[u].at = "leave"
                 THEN memItems'[call'[u].addr] = origin'[call'[u].addr]
                 ELSE origin'[call'[u].addr] = call'[u].stack
      <4>1. u # t
        BY <1>1, <1>2, <3>3 DEF Turn
      <4>2. call'[u] = call[u] /\ call[u].addr # a /\ call[u].addr \in Addrs
        BY <1>0, <1>1, <3>3, <4>1, Typed DEF Turn, CallType
      <4> QED
        BY <1>1, <2>2, <3>3, <4>2 DEF SafeInv, Entries, tables
    <3> QED
      BY <3>1, <3>2, <3>3 DEF Entries
  <2> QED
    BY <2>1, <2>2
<1>8. Counted'
  <2>1. call'[Main].at = "makeMem" <=> call[Main].at = "makeMem"
    BY <1>0, <1>1, <1>2 DEF Turn
  <2> QED
    BY <1>1, <2>1, CountedKept DEF SafeInv, tables, life, ends
<1>9. Few'
  <2>1. \A b \in held' : origin'[b] \in {origin[b], Null}
    BY <1>1, Typed
  <2> QED
    BY <1>1, <2>1, LeakAssumption, FewKept DEF SafeInv, ends
<1> QED
  BY <1>1, <1>3, <1>4, <1>5, <1>6, <1>7, <1>8, <1>9 DEF SafeInv, ends

-----------------------------------------------------------------------------
(* The end of the process. *)

LEMMA ExitSafe ==
  ASSUME Habits = {}, LeakInv, SafeInv, NEW t \in Threads, Exit(t)
  PROVE  SafeInv'
<1>1. /\ UNCHANGED <<guards, made, owner, life, tables, blocks, call, proc, reported>>
      /\ leaver' = Main /\ memData = "made" /\ Alone
  BY DEF Exit, Alone
<1>2. Phases'
  BY <1>1 DEF SafeInv, Phases, Alone, guards, life
<1> QED
  BY <1>1, <1>2 DEF SafeInv, Holding, Ownership, Locked, Entries, Counted, Registered,
       Few, HeldOf, guards, life, tables, blocks

LEMMA DestroySafe ==
  ASSUME LeakInv, SafeInv, NEW t \in Threads, Destroy(t)
  PROVE  SafeInv'
<1> DEFINE c == Frame("deleteMem", "none", Null, Null)
<1>1. /\ UNCHANGED <<ongoing, made, owner, once, tables, blocks, ends, proc>>
      /\ memData = "made" /\ memData' = "gone" /\ initOrExit' = TRUE
      /\ t = leaver /\ call[t].at = "client" /\ Turn(t, c)
  BY TurnOf DEF Destroy, At
<1>2. c.at = "deleteMem" /\ c.op = "none" /\ c.addr = Null
  BY DEF Frame
<1> HIDE DEF c
<1>3. Holding'
  BY <1>1, <1>2, HoldingKept DEF SafeInv, Carries, MakeLabels, EndLabels
<1>4. \A u \in Threads : call'[u].addr \in {call[u].addr, Null}
  BY <1>1, <1>2 DEF Turn
<1>5. Ownership'
  BY <1>1, <1>4, OwnershipKept DEF SafeInv, blocks
<1>6. Phases'
  <2>1. \A u \in Threads : call'[u].op # "construct"
    BY <1>1, <1>2 DEF SafeInv, Phases, Turn
  <2>2. ~reported => leaver = Main /\ Alone' /\ call'[Main].at = "deleteMem"
    BY <1>1, <1>2, LeakAssumption DEF SafeInv, Phases, Alone, Turn
  <2> QED
    BY <1>1, <2>1, <2>2 DEF Phases, ends, EndLabels
<1>7. Locked'
  <2>1. OfCall(c) = OfCall(call[t]) /\ OfInit(c) = OfInit(call[t])
    BY <1>1, <1>2, Typed DEF OfCall, OfInit, Counts, OpsAt
  <2> QED
    BY <1>1, <1>2, <2>1, LockedKept DEF SafeInv, ends
<1>8. Entries' /\ Counted'
  BY <1>1 DEF Entries, Counted
<1>9. Few'
  BY <1>1, LeakAssumption, FewKept DEF SafeInv, ends, blocks
<1> QED
  BY <1>1, <1>3, <1>5, <1>6, <1>7, <1>8, <1>9 DEF SafeInv, ends

LEMMA DeletePartSafe ==
  ASSUME LeakInv, SafeInv, NEW t \in Threads, NEW part, NEW here \in EndLabels,
         NEW next \in EndLabels \union {"client"}, DeletePart(t, part, here, next)
  PROVE  SafeInv'
<1>0. call[t].at = here /\ memData = "gone" /\ (~reported => t = Main)
  <2>1. call[t].at = here /\ call[t] # Idle /\ memData \in {"raw", "made", "gone"}
    BY Typed DEF DeletePart, At, Idle, Frame, EndLabels
  <2>2. memData # "raw"
    BY <2>1 DEF SafeInv, Phases, Alone, MadeAt
  <2>3. memData = "gone"
    BY <2>1, <2>2 DEF SafeInv, Phases
  <2> QED
    BY <2>1, <2>3, LeakAssumption DEF SafeInv, Phases, Alone
<1>1. CASE owner # Null
  <2>1. Stop("race")
    BY <1>1 DEF DeletePart
  <2>2. ~reported => owner = Null
    <3>1. ~reported => \A u \in Threads : call[u].at # "section"
      BY <1>0, LeakAssumption DEF SafeInv, Phases, Alone, Idle, Frame, EndLabels
    <3> QED
      BY <3>1, Typed DEF SafeInv, Locked
  <2> QED
    BY <1>1, <2>1, <2>2, StopSafe
<1>2. CASE owner = Null
  <2> DEFINE c == Frame(next, "none", Null, Null)
  <2>1. /\ UNCHANGED <<guards, owner, life, tables, blocks, ends, proc>>
        /\ Turn(t, c)
    BY <1>2, TurnOf DEF DeletePart
  <2>2. c.at = next /\ c.op = "none" /\ c.addr = Null
    BY DEF Frame
  <2> HIDE DEF c
  <2>3. Holding'
    BY <2>1, <2>2, HoldingKept DEF SafeInv, Carries, MakeLabels, EndLabels
  <2>4. \A u \in Threads : call'[u].addr \in {call[u].addr, Null}
    BY <2>1, <2>2 DEF Turn
  <2>5. Ownership'
    BY <2>1, <2>4, OwnershipKept DEF SafeInv, blocks
  <2>6. Phases'
    <3>1. \A u \in Threads : call'[u].op # "construct"
      BY <1>0, <2>1, <2>2 DEF SafeInv, Phases, Turn
    <3>2. ~reported => /\ leaver = Main /\ initOrExit /\ Alone'
                       /\ call'[Main].at \in {"client"} \union EndLabels
      BY <1>0, <2>1, <2>2, LeakAssumption DEF SafeInv, Phases, Alone, Turn
    <3> QED
      BY <1>0, <2>1, <3>1, <3>2 DEF Phases, ends, life, guards
  <2>7. Locked'
    <3>1. OfCall(c) = OfCall(call[t]) /\ OfInit(c) = OfInit(call[t])
      BY <1>0, <2>2, Typed DEF OfCall, OfInit, Counts, OpsAt, EndLabels
    <3> QED
      BY <1>0, <2>1, <2>2, <3>1, LockedKept DEF SafeInv, ends, guards, EndLabels
  <2>8. Entries' /\ Counted'
    BY <1>0, <2>1 DEF Entries, Counted, life
  <2>9. Few'
    BY <2>1, LeakAssumption, FewKept DEF SafeInv, ends, blocks
  <2> QED
    BY <2>1, <2>3, <2>5, <2>6, <2>7, <2>8, <2>9 DEF SafeInv, ends
<1> QED
  BY <1>1, <1>2

-----------------------------------------------------------------------------
(* The theorems. *)

LEMMA InitIsSafe == ASSUME Init PROVE SafeInv
<1>1. \A t \in Threads : call[t] = Idle
  BY DEF Init
<1>2. Idle.at = "client" /\ Idle.op = "none" /\ Idle.addr = Null
  BY DEF Idle, Frame
<1>3. Holding /\ Locked
  BY <1>1, <1>2, LeakAssumption DEF Init, Holding, Carries, Locked, OfCall, OfInit
<1>4. Ownership /\ Entries
  BY <1>1, <1>2, FS_EmptySet DEF Init, Ownership, Entries, NoItems
<1>5. Phases
  BY <1>1, <1>2, LeakAssumption DEF Init, Phases, Alone, MadeAt, EndLabels
<1>6. Counted /\ Few
  <2>1. \A s \in Stacks : Registered(s) = {} /\ HeldOf(s) = {} /\ stackItems[s] = 0
    BY LeakAssumption DEF Init, Registered, HeldOf, NoItems, NoStacks
  <2>2. call[Main].at # "makeMem"
    BY <1>1, <1>2, LeakAssumption
  <2> QED
    BY <2>1, <2>2, FS_EmptySet, LeakAssumption DEF Counted, Few
<1> QED
  BY <1>3, <1>4, <1>5, <1>6 DEF SafeInv, Init

LEMMA NextIsSafe ==
  ASSUME Habits = {}, LeakInv, SafeInv, [Next]_vars
  PROVE  SafeInv'
<1>1. CASE UNCHANGED vars
  BY <1>1 DEF vars, SafeInv, Holding, Ownership, Phases, Alone, MadeAt, Locked, Entries,
       Counted, Registered, Few, HeldOf
<1>2. ASSUME NEW t \in Threads, DeleteMem(t) \/ DeleteStack(t) \/ DeleteMutex(t)
      PROVE  SafeInv'
  BY <1>2, DeletePartSafe DEF DeleteMem, DeleteStack, DeleteMutex, EndLabels
<1>3. CASE Next
  BY <1>2, <1>3, ConstructSafe, InitSafe, MakeMutexSafe, MakeStackSafe, MakeMemSafe,
     PassNewSafe, CallNewSafe, MallocSafe, CallDeleteSafe, LockSafe, RegisterBlockSafe,
     TakeBlockSafe, LeaveSafe, FreeSafe, ExitSafe, DestroySafe DEF Next
<1> QED
  BY <1>1, <1>3

\* A step that reports: what it registers and what was registered are allocated.
LEMMA ReportsALeak ==
  ASSUME LeakInv, SafeInv, Next, reported', ~reported
  PROVE  \E s \in Stacks : Cardinality({a \in heap : origin[a] = s}) > Limit
<1>1. PICK t \in Threads : RegisterBlock(t)
  BY DEF Next, Construct, SkipInit, CallOnce, MakeMutex, MakeStack, MakeMem, PassNew,
     CallNew, Malloc, CallDelete, Lock, TakeBlock, Leave, Free, Exit, Destroy, DeleteMem,
     DeleteStack, DeleteMutex, DeletePart, Stop, ends
<1> DEFINE a == call[t].addr
           s == call[t].stack
           n == stackItems[s] + 1
<1>2. n > Limit
  <2>1. TooMany(n)
    BY <1>1 DEF RegisterBlock, Stop, ends
  <2> QED
    BY <2>1 DEF TooMany
<1>3. call[t].at = "section" /\ call[t].op = "new" /\ memData # "gone"
  BY <1>1, TablesThere DEF RegisterBlock, At
<1>4. a # Null /\ a \in heap /\ s \in Stacks /\ a \in Addrs
  BY <1>3, Typed DEF SafeInv, Holding, Carries, Ownership
<1>5. memItems[a] = Null /\ origin[a] = s
  BY <1>3, <1>4 DEF SafeInv, Entries, Knows
<1>6. IsFiniteSet(Registered(s)) /\ stackItems[s] = Cardinality(Registered(s))
  BY <1>3, <1>4, InCall DEF SafeInv, Counted
<1> DEFINE S == {b \in heap : origin[b] = s}
<1>7. Registered(s) \union {a} \in SUBSET S
  BY <1>3, <1>4, <1>5, LeakAssumption DEF SafeInv, Entries, Registered
<1>8. a \notin Registered(s)
  BY <1>4, <1>5, LeakAssumption DEF Registered
<1>9. Cardinality(Registered(s) \union {a}) = n
  BY <1>6, <1>8, FS_AddElement
<1>10. IsFiniteSet(S)
  <2>1. S \in SUBSET heap
    OBVIOUS
  <2> QED
    BY <2>1, FS_Subset DEF SafeInv, Ownership
<1>11. n <= Cardinality(S)
  <2> HIDE DEF S, n
  <2> QED
    BY <1>7, <1>9, <1>10, FS_Subset
<1>12. Cardinality(S) > Limit
  <2>1. n \in Nat /\ Cardinality(S) \in Nat
    <3> HIDE DEF S
    <3>1. stackItems[s] \in Nat
      BY <1>4, Typed
    <3> QED
      BY <1>10, <3>1, FS_CardinalityType
  <2> HIDE DEF S, n
  <2> QED
    BY <1>2, <1>11, <2>1, LeakAssumption
<1> QED
  BY <1>4, <1>12

LEMMA AlwaysSafe ==
  ASSUME Habits = {}
  PROVE  Spec => [](LeakInv /\ SafeInv)
<1>1. Init => LeakInv /\ SafeInv
  BY InitLeak, InitIsSafe
<1>2. LeakInv /\ SafeInv /\ [Next]_vars => LeakInv' /\ SafeInv'
  BY NextLeak, NextIsSafe
<1> QED
  BY <1>1, <1>2, PTL DEF Spec

LEMMA InUseIsNotGone ==
  ASSUME InUse
  PROVE  memData # "gone" /\ call[Main].at # "makeMem"
BY LeakAssumption DEF InUse

\* FreeMem takes a block out of the tables before it frees it, and AllocMem puts one
\* in only after malloc gave it: where both tables are in use, what is registered is
\* allocated and nobody is about to free it, for any number of threads, blocks and
\* stacks.
THEOREM RegisteredBlocksAreAllocated ==
  ASSUME Habits = {}
  PROVE  Spec => []RegisteredIsAllocated
<1>1. LeakInv /\ SafeInv => RegisteredIsAllocated
  <2> SUFFICES ASSUME LeakInv, SafeInv, InUse, NEW a \in Addrs, memItems[a] # Null
               PROVE  /\ a \in heap
                      /\ \A t \in Threads : ~(call[t].at = "free" /\ call[t].addr = a)
    BY DEF RegisteredIsAllocated
  <2>1. memData # "gone"
    BY InUseIsNotGone
  <2> QED
    BY <2>1, LeakAssumption DEF SafeInv, Entries, Knows
<1> QED
  BY <1>1, AlwaysSafe, PTL

\* AllocMem and TakeStackOut keep s_pStack in step with s_pMem: wherever both are in
\* use, the count of a stack is the number of blocks registered with it.
THEOREM CountsAreExact ==
  ASSUME Habits = {}
  PROVE  Spec => []CountsExact
<1>1. LeakInv /\ SafeInv => CountsExact
  <2> SUFFICES ASSUME LeakInv, SafeInv, InUse, NEW s \in Stacks
               PROVE  stackItems[s] = Cardinality(Registered(s))
    BY DEF CountsExact, Registered
  <2> QED
    BY InUseIsNotGone DEF SafeInv, Counted
<1> QED
  BY <1>1, AlwaysSafe, PTL

\* The assertions of TakeStackOut and AllocMem (lines 310 and 360) hold until a
\* report calls exit(1).
THEOREM LeakAssertsHold ==
  ASSUME Habits = {}
  PROVE  Spec => []NoLeakAssertFails
<1>1. LeakInv /\ SafeInv => NoLeakAssertFails
  BY DEF SafeInv, NoLeakAssertFails
<1> QED
  BY <1>1, AlwaysSafe, PTL

\* A process of one thread, whatever was reported: the tables are all there where a
\* call comes to them, and once they are being deleted no call does.
Solo ==
  /\ proc \notin {"segv", "race"}
  /\ owner # Null => owner = Main /\ call[Main].at = "section"
  /\ memData # "gone" => MadeAt(call[Main].at)
  /\ memData = "made" => made = Parts /\ call[Main].at \notin MakeLabels
  /\ memData = "gone" => /\ initOrExit
                        /\ call[Main].at \in {"client", "free"} \union EndLabels

\* InitRaw, by the constructor or by the first allocation.
LEMMA SoloMakes ==
  ASSUME Threads = {Main}, LeakInv, Solo,
         \/ Construct(Main) \/ SkipInit(Main) \/ CallOnce(Main)
         \/ MakeMutex(Main) \/ MakeStack(Main) \/ MakeMem(Main)
  PROVE  Solo'
<1>1. /\ call \in [Threads -> CallType] /\ made \subseteq Parts
      /\ memData \in {"raw", "made", "gone"}
  BY LeakAssumption, Typed
<1>2. ASSUME NEW c, call' = [call EXCEPT ![Main] = c]
      PROVE  call'[Main] = c
  BY <1>1, <1>2, LeakAssumption
<1>3. ASSUME NEW l, Goto(Main, l)
      PROVE  call'[Main].at = l
  BY <1>1, <1>3, LeakAssumption DEF Goto, CallType
<1>4. CASE Construct(Main)
  <2>1. call'[Main].at = "makeMutex"
    BY <1>2, <1>4 DEF Construct, Frame
  <2> QED
    BY <1>4, <2>1 DEF Construct, At, Solo, MadeAt, MakeLabels, EndLabels, guards, life
<1>5. CASE SkipInit(Main)
  <2>1. call'[Main].at = "malloc" /\ memData # "gone"
    BY <1>3, <1>5 DEF SkipInit, At, Solo, EndLabels
  <2>2. made = Parts
    BY <1>5, <2>1 DEF SkipInit, At, Solo, MadeAt
  <2> QED
    BY <1>5, <2>1, <2>2
       DEF SkipInit, At, Solo, MadeAt, MakeLabels, EndLabels, guards, life
<1>6. CASE CallOnce(Main)
  <2>1. call'[Main].at = "makeMutex" /\ memData # "gone"
    BY <1>3, <1>6 DEF CallOnce, At, Solo, EndLabels
  <2>2. memData # "made"
    BY <1>6 DEF CallOnce, Solo, Parts
  <2> QED
    BY <1>6, <2>1, <2>2 DEF CallOnce, At, Solo, MadeAt, MakeLabels, EndLabels, guards
<1>7. CASE MakeMutex(Main) \/ MakeStack(Main)
  <2>1. memData = "raw"
    BY <1>1, <1>7 DEF MakeMutex, MakeStack, At, Solo, MakeLabels, EndLabels
  <2>2. CASE MakeMutex(Main)
    <3>1. call'[Main].at = "makeStack"
      BY <1>3, <2>2 DEF MakeMutex
    <3> QED
      BY <2>1, <2>2, <3>1 DEF MakeMutex, Solo, MadeAt, EndLabels, life
  <2>3. CASE MakeStack(Main)
    <3>1. call'[Main].at = "makeMem"
      BY <1>3, <2>3 DEF MakeStack
    <3> QED
      BY <2>1, <2>3, <3>1 DEF MakeStack, At, Solo, MadeAt, EndLabels, life
  <2> QED
    BY <1>7, <2>2, <2>3
<1>8. CASE MakeMem(Main)
  <2>1. memData = "raw" /\ {"mutex", "stack"} \subseteq made
    BY <1>1, <1>8 DEF MakeMem, At, Solo, MadeAt, MakeLabels, EndLabels
  <2>2. made' = Parts
    BY <1>1, <1>8, <2>1 DEF MakeMem, Parts
  <2>3. call'[Main].at \in {"client", "malloc"} /\ memData' # "gone"
    BY <1>2, <1>3, <1>8, <2>1 DEF MakeMem, Idle, Frame
  <2>4. owner' = Null /\ proc' = "running"
    BY <1>8 DEF MakeMem, At, Solo
  <2> QED
    BY <2>2, <2>3, <2>4 DEF Solo, MadeAt, MakeLabels, EndLabels
<1> QED
  BY <1>4, <1>5, <1>6, <1>7, <1>8

\* A step that ends where it cannot reach the tables, or where they are.
LEMMA SoloGoes ==
  ASSUME Solo, made' = made, memData' = memData, once' = once, proc' = proc,
         memData # "gone" => made = Parts,
         memData = "gone" => initOrExit',
         owner' = Null,
         call'[Main].at \in {"client", "free"}
           \/ (memData # "gone" /\ call'[Main].at \in {"malloc", "lock", "leave"})
  PROVE  Solo'
BY DEF Solo, MadeAt, MakeLabels, EndLabels

LEMMA SoloCalls ==
  ASSUME Threads = {Main}, LeakInv, Solo, "deleteFirst" \notin Habits,
         \/ PassNew(Main) \/ CallNew(Main) \/ Malloc(Main) \/ CallDelete(Main)
         \/ Leave(Main) \/ Free(Main)
  PROVE  Solo'
<1>1. /\ call \in [Threads -> CallType] /\ made \subseteq Parts
      /\ memData \in {"raw", "made", "gone"} /\ owner \in {Main, Null}
  BY LeakAssumption, Typed
<1>2. ASSUME NEW c, call' = [call EXCEPT ![Main] = c]
      PROVE  call'[Main] = c
  BY <1>1, <1>2, LeakAssumption
<1>3. ASSUME NEW l, Goto(Main, l)
      PROVE  call'[Main].at = l
  BY <1>1, <1>3, LeakAssumption DEF Goto, CallType
<1>4. CASE PassNew(Main)
  BY <1>4 DEF PassNew, Solo, MadeAt, guards, life
<1>5. CASE CallNew(Main)
  <2>0. PICK s \in Stacks : call' = [call EXCEPT ![Main] = Frame("init", "new", Null, s)]
    BY <1>5 DEF CallNew
  <2>1. call'[Main].at = "init" /\ call[Main].at = "client" /\ memData # "gone"
    <3>1. call'[Main] = Frame("init", "new", Null, s)
      BY <1>2, <2>0
    <3> QED
      BY <1>5, <3>1 DEF CallNew, Frame, At, Bypasses, Solo
  <2>2. UNCHANGED <<made, owner, memData, once, proc>>
    BY <1>5 DEF CallNew, life
  <2>3. owner = Null /\ (made = Parts \/ (made = {} /\ once = "never"))
    BY <1>1, <2>1 DEF Solo, MadeAt
  <2> QED
    BY <2>1, <2>2, <2>3 DEF Solo, MadeAt, MakeLabels, EndLabels
<1>6. CASE Malloc(Main)
  <2>1. call[Main].at = "malloc" /\ call'[Main].at \in {"lock", "leave"}
    <3>1. CASE Goto(Main, "leave")
      BY <1>3, <1>6, <3>1 DEF Malloc, At
    <3>2. CASE ~Goto(Main, "leave")
      <4>1. PICK a \in Addrs, l \in {"lock", "leave"} :
              call' = [call EXCEPT ![Main].addr = a, ![Main].at = l]
        BY <1>6, <3>2 DEF Malloc
      <4>2. call'[Main] = [[call[Main] EXCEPT !.addr = a] EXCEPT !.at = l]
        BY <1>1, <4>1, LeakAssumption
      <4>3. call'[Main].at = l
        BY <1>1, <4>2, LeakAssumption DEF CallType
      <4> QED
        BY <1>6, <4>3 DEF Malloc, At
    <3> QED
      BY <3>1, <3>2
  <2>2. memData # "gone" /\ made = Parts /\ owner = Null
    BY <1>1, <2>1 DEF Solo, MadeAt, EndLabels
  <2>3. UNCHANGED <<made, owner, memData, once, proc>>
    BY <1>6 DEF Malloc, life
  <2> QED
    BY <2>1, <2>2, <2>3, SoloGoes
<1>7. CASE CallDelete(Main)
  <2>1. /\ call[Main].at = "client"
        /\ made # {} \/ memData # "raw"
        /\ UNCHANGED <<initOrExit, made, owner, memData, once, proc>>
    BY <1>7 DEF CallDelete, At, life
  <2>2. call'[Main].at = IF initOrExit THEN "free" ELSE "lock"
    <3>1. PICK a : call' = [call EXCEPT ![Main] =
                     Frame(IF initOrExit THEN "free" ELSE "lock", "delete", a, Null)]
      BY <1>7 DEF CallDelete
    <3>2. call'[Main] = Frame(IF initOrExit THEN "free" ELSE "lock", "delete", a, Null)
      BY <1>2, <3>1
    <3> QED
      BY <3>2 DEF Frame
  <2>3. owner = Null /\ (memData # "gone" => made = Parts)
    BY <1>1, <2>1 DEF Solo, MadeAt
  <2>4. memData = "gone" => initOrExit
    BY DEF Solo
  <2> QED
    BY <2>1, <2>2, <2>3, <2>4, SoloGoes
<1>8. CASE Leave(Main)
  <2>1. call[Main].at = "leave" /\ UNCHANGED <<made, owner, memData, once, proc>>
    BY <1>8 DEF Leave, At, life
  <2>2. call'[Main].at \in {"client", "free"}
    BY <1>2, <1>3, <1>8 DEF Leave, Idle, Frame
  <2>3. memData # "gone" /\ made = Parts /\ owner = Null
    BY <1>1, <2>1 DEF Solo, MadeAt, EndLabels
  <2> QED
    BY <2>1, <2>2, <2>3, SoloGoes
<1>9. CASE Free(Main)
  <2>1. /\ call[Main].at = "free"
        /\ UNCHANGED <<initOrExit, made, owner, memData, once, proc>>
    BY <1>9 DEF Free, At, life, guards
  <2>2. call'[Main].at = "client"
    BY <1>2, <1>9 DEF Free, Idle, Frame
  <2>3. owner = Null /\ (memData # "gone" => made = Parts) /\ (memData = "gone" => initOrExit)
    BY <1>1, <2>1 DEF Solo, MadeAt
  <2> QED
    BY <2>1, <2>2, <2>3, SoloGoes
<1> QED
  BY <1>4, <1>5, <1>6, <1>7, <1>8, <1>9

LEMMA SoloSections ==
  ASSUME Threads = {Main}, LeakInv, Solo,
         Lock(Main) \/ RegisterBlock(Main) \/ TakeBlock(Main)
  PROVE  Solo'
<1>1. /\ call \in [Threads -> CallType] /\ owner \in {Main, Null}
  BY LeakAssumption, Typed
<1>2. ASSUME NEW l, Goto(Main, l)
      PROVE  call'[Main].at = l
  BY <1>1, <1>2, LeakAssumption DEF Goto, CallType
<1>3. /\ call[Main].at \in {"lock", "section"} /\ proc = "running"
      /\ memData # "gone" /\ made = Parts
  BY DEF Lock, RegisterBlock, TakeBlock, At, Solo, MadeAt, EndLabels
<1>4. \A found \in BOOLEAN : Fate(Main, found) \in {"reentered", "running"}
  BY <1>1, <1>3 DEF Fate, Parts
<1>5. ASSUME NEW f \in {"assertFailed", "reentered"}, Stop(f)
      PROVE  Solo'
  BY <1>5 DEF Stop, Solo, MadeAt, guards, life
<1>6. CASE Lock(Main)
  <2>1. call'[Main].at = "section" /\ owner' \in {Main, Null}
        /\ UNCHANGED <<made, memData, once, proc>>
    BY <1>1, <1>2, <1>3, <1>6 DEF Lock, Parts, life
  <2> QED
    BY <1>3, <2>1 DEF Solo, MadeAt, MakeLabels, EndLabels
<1>7. Unlocked(Main) = Null
  BY <1>1 DEF Unlocked
<1>8. ASSUME call'[Main].at \in {"client", "leave"}, owner' = Null,
             UNCHANGED <<made, memData, once, proc>>
      PROVE  Solo'
  BY <1>3, <1>8, SoloGoes
<1>9. CASE RegisterBlock(Main)
  <2>1. CASE Fate(Main, TRUE) # "running"
    BY <1>4, <1>5, <1>9, <2>1 DEF RegisterBlock
  <2>2. CASE Stop("assertFailed")
    BY <1>5, <2>2
  <2>3. CASE Fate(Main, TRUE) = "running" /\ ~Stop("assertFailed")
    <3>1. /\ owner' = Null /\ UNCHANGED <<made, memData, once, proc>>
          /\ \/ call' = [call EXCEPT ![Main] = Idle]
             \/ call' = [call EXCEPT ![Main] = [@ EXCEPT !.at = "leave"]]
      BY <1>7, <1>9, <2>3 DEF RegisterBlock, life
    <3>2. call'[Main].at \in {"client", "leave"}
      BY <1>1, <3>1, LeakAssumption DEF Idle, Frame, CallType
    <3> QED
      BY <1>8, <3>1, <3>2
  <2> QED
    BY <2>1, <2>2, <2>3
<1>10. CASE TakeBlock(Main)
  <2> DEFINE found == call[Main].addr # Null /\ memItems[call[Main].addr] # Null
  <2>1. CASE Fate(Main, found) # "running"
    <3>1. Stop(Fate(Main, found))
      BY <1>10, <2>1 DEF TakeBlock
    <3>2. Fate(Main, found) = "reentered"
      BY <1>4, <2>1
    <3> QED
      BY <1>5, <3>1, <3>2
  <2>2. CASE Stop("assertFailed")
    BY <1>5, <2>2
  <2>3. CASE Fate(Main, found) = "running" /\ ~Stop("assertFailed")
    <3>1. /\ owner' = Null /\ UNCHANGED <<made, memData, once, proc>>
          /\ Goto(Main, "leave")
      BY <1>7, <1>10, <2>3 DEF TakeBlock, life
    <3> QED
      BY <1>2, <1>8, <3>1
  <2> QED
    BY <2>1, <2>2, <2>3
<1> QED
  BY <1>6, <1>9, <1>10

LEMMA SoloEnds ==
  ASSUME Threads = {Main}, LeakInv, Solo,
         \/ Exit(Main) \/ Destroy(Main)
         \/ DeleteMem(Main) \/ DeleteStack(Main) \/ DeleteMutex(Main)
  PROVE  Solo'
<1>1. call \in [Threads -> CallType] /\ owner \in {Main, Null}
  BY LeakAssumption, Typed
<1>2. ASSUME NEW c, call' = [call EXCEPT ![Main] = c]
      PROVE  call'[Main] = c
  BY <1>1, <1>2, LeakAssumption
<1>3. CASE Exit(Main)
  BY <1>3 DEF Exit, Solo, MadeAt, guards, life
<1>4. CASE Destroy(Main)
  <2>1. call'[Main].at = "deleteMem" /\ call[Main].at = "client"
    BY <1>2, <1>4 DEF Destroy, Frame, At
  <2> QED
    BY <1>4, <2>1 DEF Destroy, Solo, EndLabels
<1>5. ASSUME NEW part, NEW here \in EndLabels, NEW next \in EndLabels \union {"client"},
             DeletePart(Main, part, here, next)
      PROVE  Solo'
  <2>1. call[Main].at = here /\ proc = "running"
    BY <1>5 DEF DeletePart, At
  <2>2. owner = Null /\ memData = "gone" /\ initOrExit
    BY <1>1, <2>1 DEF Solo, MadeAt, EndLabels
  <2>3. /\ call' = [call EXCEPT ![Main] = Frame(next, "none", Null, Null)]
        /\ UNCHANGED <<guards, owner, life, proc>>
    BY <1>5, <2>2 DEF DeletePart
  <2>4. call'[Main].at = next
    BY <1>2, <2>3 DEF Frame
  <2> QED
    BY <2>1, <2>2, <2>3, <2>4 DEF Solo, guards, life
<1>6. CASE DeleteMem(Main) \/ DeleteStack(Main) \/ DeleteMutex(Main)
  BY <1>5, <1>6 DEF DeleteMem, DeleteStack, DeleteMutex, EndLabels
<1> QED
  BY <1>3, <1>4, <1>6

LEMMA SoloNext ==
  ASSUME Threads = {Main}, "deleteFirst" \notin Habits, LeakInv, Solo, [Next]_vars
  PROVE  Solo'
<1>1. CASE UNCHANGED vars
  BY <1>1 DEF vars, Solo, MadeAt
<1>2. CASE Next
  BY <1>2, SoloMakes, SoloCalls, SoloSections, SoloEnds DEF Next
<1> QED
  BY <1>1, <1>2

LEMMA SoloInit == ASSUME Init PROVE Solo
BY LeakAssumption DEF Init, Solo, MadeAt, Idle, Frame, EndLabels

\* No call of AllocMem or FreeMem uses a table that InitRaw has not made or ~Mem-
\* AnalyzeData has deleted, nor one that another thread is using.  With several
\* threads, joined before main returns, that holds until a report calls exit(1);
\* with one thread it holds to the end, through the exit of a report, too.
THEOREM TablesAreUsedSafely ==
  ASSUME Habits = {} \/ (Threads = {Main} /\ "deleteFirst" \notin Habits)
  PROVE  Spec => [](TablesUsedSafely /\ (Threads = {Main} => proc \notin {"segv", "race"}))
<1> DEFINE Inv == /\ LeakInv
                  /\ Habits = {} => SafeInv
                  /\ Threads = {Main} /\ "deleteFirst" \notin Habits => Solo
           Safe == TablesUsedSafely /\ (Threads = {Main} => proc \notin {"segv", "race"})
<1>1. Init => Inv
  BY InitLeak, InitIsSafe, SoloInit
<1>2. Inv /\ [Next]_vars => Inv'
  BY NextLeak, NextIsSafe, SoloNext
<1>3. Inv => Safe
  <2>1. SafeInv => TablesUsedSafely
    BY DEF SafeInv, TablesUsedSafely
  <2>2. Solo => TablesUsedSafely /\ proc \notin {"segv", "race"}
    BY DEF Solo, TablesUsedSafely
  <2>3. "deleteFirst" \notin Habits
    OBVIOUS
  <2> QED
    BY <2>1, <2>2, <2>3
<1> HIDE DEF Inv, Safe
<1>4. Spec => []Safe
  BY <1>1, <1>2, <1>3, PTL DEF Spec
<1> QED
  BY <1>4 DEF Safe

\* AllocMem's test of the limit misses nothing: without a report, the program never
\* holds more blocks of one stack than g_unMaxNumberOfAllocInTheStack, provided that
\* is not 0 (the first block of a stack is never compared with it).
THEOREM LeaksAreReported ==
  ASSUME Habits = {}, Limit > 0
  PROVE  Spec => []NoLeakMissed
<1>1. LeakInv /\ SafeInv => NoLeakMissed
  BY DEF SafeInv, Few, HeldOf, NoLeakMissed
<1> QED
  BY <1>1, AlwaysSafe, PTL

\* AllocMem reports no leak that is none: a step that makes the report is taken only
\* where more blocks of one stack are allocated than the limit allows.
THEOREM ReportsAreRight ==
  ASSUME Habits = {}
  PROVE  Spec => NoFalseLeak
<1>1. LeakInv /\ SafeInv /\ [Next]_vars =>
        (reported' /\ ~reported =>
           \E s \in Stacks : Cardinality({a \in heap : origin[a] = s}) > Limit)
  BY ReportsALeak DEF vars
<1> QED
  BY <1>1, AlwaysSafe, PTL DEF Spec, NoFalseLeak

-----------------------------------------------------------------------------
(* LeakOnly implements LeakWatch, step by step. *)

\* A step that changes neither libc's blocks nor what is known of them.
LEMMA QuietWatch ==
  ASSUME UNCHANGED <<heap, reported, memItems, memData>>
  PROVE  UNCHANGED Watcher!watchVars
BY DEF Watcher!watchVars, WatchedFrom

LEMMA StepsAreQuiet ==
  ASSUME NEW t \in Threads,
         \/ Construct(t) \/ SkipInit(t) \/ CallOnce(t) \/ MakeMutex(t) \/ MakeStack(t)
         \/ CallNew(t) \/ CallDelete(t) \/ Lock(t) \/ Leave(t) \/ Exit(t)
         \/ DeleteMem(t) \/ DeleteStack(t) \/ DeleteMutex(t) \/ \E o : Stop(o)
  PROVE  UNCHANGED Watcher!watchVars
<1>1. UNCHANGED <<heap, reported, memItems, memData>>
  BY DEF Construct, SkipInit, CallOnce, MakeMutex, MakeStack, CallNew, CallDelete, Lock,
         Leave, Exit, DeleteMem, DeleteStack, DeleteMutex, DeletePart, Stop, tables, life,
         blocks, ends
<1> QED
  BY <1>1, QuietWatch

\* What libc hands out is a block it did not have out, whoever asks.
LEMMA ObtainWatch ==
  ASSUME NEW a \in Addrs \ heap, heap' = heap \union {a},
         UNCHANGED <<reported, memItems, memData>>
  PROVE  Watcher!WatchNext
BY DEF Watcher!WatchNext, Watcher!Obtain, WatchedFrom

LEMMA MallocWatch ==
  ASSUME NEW t \in Threads, PassNew(t) \/ Malloc(t)
  PROVE  [Watcher!WatchNext]_Watcher!watchVars
<1>1. UNCHANGED <<reported, memItems, memData>>
  BY DEF PassNew, Malloc, tables, life, ends
<1>2. heap' = heap \/ \E a \in Addrs \ heap : heap' = heap \union {a}
  BY DEF PassNew, Malloc
<1> QED
  BY <1>1, <1>2, ObtainWatch, QuietWatch

\* The constructor and the destructor of s_memData forget what was registered.
LEMMA ForgetWatch ==
  ASSUME NEW t \in Threads, MakeMem(t) \/ Destroy(t)
  PROVE  Watcher!WatchNext
<1>1. WatchedFrom' = NoItems /\ UNCHANGED <<heap, reported>>
  BY DEF MakeMem, Destroy, WatchedFrom, blocks, ends
<1> QED
  BY <1>1 DEF Watcher!WatchNext, Watcher!Forget, Watcher!Unwatched, NoItems

\* The block of a call to operator new that has the lock, and the count it is to raise.
LEMMA RegistersNew ==
  ASSUME LeakInv, SafeInv, NEW t \in Threads, call[t].at = "section",
         call[t].op = "new", memData # "gone"
  PROVE  /\ call[t].addr \in Addrs \intersect heap /\ memItems[call[t].addr] = Null
         /\ call[t].stack \in Stacks /\ IsFiniteSet(Registered(call[t].stack))
         /\ stackItems[call[t].stack] = Cardinality(Registered(call[t].stack))
<1>1. call[t].addr \in Addrs \intersect heap /\ call[t].addr # Null
  BY Typed DEF SafeInv, Holding, Carries, Ownership, LeakInv, LeakTypeOK
<1>2. memItems[call[t].addr] = Null
  BY <1>1 DEF SafeInv, Entries, Knows
<1>3. call[t].stack \in Stacks
  BY DEF SafeInv, Holding, Carries
<1> QED
  BY <1>1, <1>2, <1>3, InCall DEF SafeInv, Counted

LEMMA RegisterWatch ==
  ASSUME LeakInv, SafeInv, NEW t \in Threads, RegisterBlock(t)
  PROVE  [Watcher!WatchNext]_Watcher!watchVars
<1> DEFINE a == call[t].addr
           s == call[t].stack
           n == stackItems[s] + 1
<1>1. call[t].at = "section" /\ call[t].op = "new"
  BY DEF RegisterBlock, At
<1>2. CASE \E o : Stop(o)
  BY <1>2, StepsAreQuiet
<1>3. CASE ~\E o : Stop(o)
  <2>1. /\ memItems' = [memItems EXCEPT ![a] = s]
        /\ reported' = (reported \/ TooMany(n))
        /\ UNCHANGED <<heap, memData>>
    BY <1>3 DEF RegisterBlock, life, blocks
  <2>2. CASE memData = "gone"
    <3>1. reported
      BY <1>1, <2>2, TablesThere
    <3> QED
      BY <2>1, <2>2, <3>1 DEF Watcher!watchVars, WatchedFrom
  <2>3. CASE memData # "gone"
    <3>1. /\ a \in Addrs /\ a \in heap /\ memItems[a] = Null /\ s \in Stacks
          /\ IsFiniteSet(Registered(s)) /\ stackItems[s] = Cardinality(Registered(s))
      BY <1>1, <2>3, RegistersNew
    <3>2. TooMany(n) <=> Registered(s) # {} /\ Cardinality(Registered(s)) >= Limit
      <4>1. /\ Cardinality(Registered(s)) \in Nat
            /\ Cardinality(Registered(s)) = 0 <=> Registered(s) = {}
        BY <3>1, FS_CardinalityType, FS_EmptySet
      <4> QED
        BY <3>1, <4>1, LeakAssumption DEF TooMany
    <3>3. Watcher!Of(s) = Registered(s)
      BY <2>3 DEF Watcher!Of, WatchedFrom, Registered
    <3>4. \A S : Watcher!Cardinality(S) = Cardinality(S)
      BY DEF Watcher!Cardinality, Cardinality
    <3> HIDE DEF a, s, n
    <3>5. Watcher!Watch(a, s)
      BY <2>1, <2>3, <3>1, <3>2, <3>3, <3>4 DEF Watcher!Watch, WatchedFrom
    <3> QED
      BY <3>1, <3>5 DEF Watcher!WatchNext
  <2> QED
    BY <2>2, <2>3
<1> QED
  BY <1>2, <1>3

LEMMA TakeWatch ==
  ASSUME LeakInv, SafeInv, NEW t \in Threads, TakeBlock(t)
  PROVE  [Watcher!WatchNext]_Watcher!watchVars
<1> DEFINE a     == call[t].addr
           found == a # Null /\ memItems[a] # Null
<1>1. CASE \E o : Stop(o)
  BY <1>1, StepsAreQuiet
<1>2. CASE ~\E o : Stop(o)
  <2>1. /\ memItems' = IF found THEN [memItems EXCEPT ![a] = Null] ELSE memItems
        /\ UNCHANGED <<heap, reported, memData>>
    BY <1>2 DEF TakeBlock, Removed, life, blocks, ends
  <2>2. CASE memData = "gone"
    BY <2>1, <2>2 DEF Watcher!watchVars, WatchedFrom
  <2>3. CASE ~found
    BY <2>1, <2>3, QuietWatch
  <2>4. CASE memData # "gone" /\ found
    <3>1. a \in Addrs
      BY <2>4, Typed DEF CallType
    <3>2. Watcher!Unwatch(a)
      BY <2>1, <2>4 DEF Watcher!Unwatch, WatchedFrom
    <3> QED
      BY <3>1, <3>2 DEF Watcher!WatchNext
  <2> QED
    BY <2>2, <2>3, <2>4
<1> QED
  BY <1>1, <1>2

LEMMA FreeWatch ==
  ASSUME LeakInv, SafeInv, NEW t \in Threads, Free(t)
  PROVE  [Watcher!WatchNext]_Watcher!watchVars
<1> DEFINE a == call[t].addr
<1>1. heap' = heap \ {a} /\ UNCHANGED <<reported, memItems, memData>>
  BY DEF Free, tables, life, ends
<1>2. CASE a = Null
  <2>1. heap' = heap
    BY <1>1, <1>2, LeakAssumption DEF LeakInv, LeakTypeOK
  <2> QED
    BY <1>1, <2>1, QuietWatch
<1>3. CASE a # Null
  <2>1. a \in Addrs /\ a \in heap /\ (memData # "gone" => memItems[a] = Null)
    BY <1>3, FreesUnregistered
  <2>2. Watcher!GiveBack(a)
    BY <1>1, <2>1 DEF Watcher!GiveBack, WatchedFrom, NoItems
  <2> QED
    BY <2>1, <2>2 DEF Watcher!WatchNext
<1> QED
  BY <1>2, <1>3

LEMMA NextWatch ==
  ASSUME LeakInv, SafeInv, [Next]_vars
  PROVE  [Watcher!WatchNext]_Watcher!watchVars
<1>1. CASE UNCHANGED vars
  BY <1>1, QuietWatch DEF vars
<1>2. CASE Next
  BY <1>2, StepsAreQuiet, MallocWatch, ForgetWatch, RegisterWatch, TakeWatch, FreeWatch
     DEF Next
<1> QED
  BY <1>1, <1>2

\* LeakOnly implements LeakWatch for any number of threads, blocks and stacks, any
\* limit and whatever malloc refuses, before, during and after a report: AllocMem
\* registers a block once and after malloc, FreeMem frees it unregistered, and the
\* report comes exactly with the block that is one too many.
THEOREM WatchImplemented ==
  ASSUME Habits = {}
  PROVE  Spec => ImplementsWatch
<1>1. Init => Watcher!WatchInit
  BY DEF Init, Watcher!WatchInit, Watcher!Unwatched, WatchedFrom, NoItems
<1>2. LeakInv /\ SafeInv /\ [Next]_vars => [Watcher!WatchNext]_Watcher!watchVars
  BY NextWatch
<1> QED
  BY <1>1, <1>2, AlwaysSafe, PTL DEF Spec, ImplementsWatch, Watcher!WatchSpec
=============================================================================
