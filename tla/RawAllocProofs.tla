--------------------------- MODULE RawAllocProofs ---------------------------
(* Theorems about RawAlloc: the pool stays sound in the setting it is used    *)
(* in, no call goes through a null pointer, every pointer goes back to where  *)
(* it came from, and the aligned operator new keeps what it promises.         *)
EXTENDS RawAlloc, MemoryPoolProofs, FiniteSetTheorems, WellFoundedInduction

-----------------------------------------------------------------------------
(* No null s_orig_ pointer is called: the three that InitFunction tests are   *)
(* there when it goes on, and calloc, which it does not test, was asked for   *)
(* before and is in every libc.                                               *)

Resolved ==
  /\ asking \in {"realloc", "free", "test"} => "calloc" \in orig
  /\ ~isNotInited => Functions \subseteq orig
  /\ fate # "nullCall"

LEMMA ResolvedInit == ASSUME RawInit PROVE Resolved
BY DEF RawInit, Resolved

LEMMA ResolvedDlsym ==
  ASSUME Resolved, Dlsym
  PROVE  Resolved'
<1>1. /\ asking \in Functions /\ asking' = After(asking) /\ orig \subseteq orig'
      /\ asking \notin Missing => orig' = orig \union {asking}
      /\ isNotInited' = isNotInited /\ fate' = fate
  BY DEF Dlsym
<1>2. asking' \in {"realloc", "free", "test"} => "calloc" \in orig'
  <2>1. CASE asking = "malloc"
    BY <1>1, <2>1 DEF After
  <2>2. CASE asking = "calloc"
    BY <1>1, <2>2, RawAssumption
  <2>3. CASE asking \in {"realloc", "free"}
    BY <1>1, <2>3 DEF Resolved
  <2> QED
    BY <1>1, <2>1, <2>2, <2>3 DEF Functions
<1> QED
  BY <1>1, <1>2 DEF Resolved

LEMMA ResolvedDecide ==
  ASSUME Resolved, Decide
  PROVE  Resolved'
BY DEF Resolved, Decide, Enough, Functions

\* An answer neither asks dlsym nor finds a null pointer.
LEMMA ResolvedAnswer ==
  ASSUME Resolved, Answer
  PROVE  Resolved'
<1>1. ~isNotInited /\ Functions \subseteq orig
  BY DEF Answer, AnswerAlloc, AnswerPoolFree, AnswerFree, AnswerPoolRealloc,
         AnswerRealloc, AnswerAligned, Inited, Resolved
<1>2. fate # "nullCall"
  BY DEF Resolved
<1>3. UNCHANGED flags /\ fate' # "nullCall"
  <2>1. ASSUME NEW op \in {"malloc", "calloc"}, AnswerAlloc(op)
        PROVE  UNCHANGED flags /\ fate' # "nullCall"
    BY <1>1, <1>2, <2>1 DEF AnswerAlloc, Functions
  <2>2. CASE AnswerFree
    BY <1>1, <1>2, <2>2 DEF AnswerFree, LibcFree, End, Functions
  <2>3. CASE AnswerPoolFree \/ AnswerPoolRealloc
    BY <1>2, <2>3 DEF AnswerPoolFree, AnswerPoolRealloc, PoolRace, End
  <2>4. CASE AnswerRealloc
    BY <1>1, <1>2, <2>4 DEF AnswerRealloc, End, Functions
  <2>5. CASE AnswerAligned
    BY <1>1, <1>2, <2>5 DEF AnswerAligned, Functions
  <2> QED
    BY <2>1, <2>2, <2>3, <2>4, <2>5 DEF Answer
<1> QED
  BY <1>1, <1>3 DEF Resolved, flags

LEMMA ResolvedNext ==
  ASSUME Resolved, [RawNext]_rawVars
  PROVE  Resolved'
<1>1. CASE UNCHANGED <<isNotInited, orig, asking, fate>>
  BY <1>1 DEF Resolved
<1>2. ASSUME ConstructPool \/ ConstructTables \/ PoolTrims \/ Call \/ CallAligned
      PROVE  UNCHANGED <<isNotInited, orig, asking, fate>>
  BY <1>2 DEF ConstructPool, ConstructTables, PoolTrims, Call, CallAligned, Begin, flags
<1>3. CASE EnterOnce
  BY <1>3 DEF EnterOnce, Resolved
<1>4. CASE Nested
  BY <1>4 DEF Nested, End, flags, Resolved
<1>5. CASE UNCHANGED rawVars
  BY <1>1, <1>5 DEF rawVars, flags
<1> QED
  BY <1>1, <1>2, <1>3, <1>4, <1>5, ResolvedDlsym, ResolvedDecide, ResolvedAnswer
     DEF RawNext

\* While pthread_once runs, the flag that sends nested calls to the pool is up.
Flagged == fate # "selfWait" /\ (once = "running" => isInitFunction)

LEMMA FlaggedNext ==
  ASSUME Flagged, [RawNext]_rawVars
  PROVE  Flagged'
<1>1. CASE UNCHANGED <<once, isInitFunction, fate>>
  BY <1>1 DEF Flagged
<1>2. CASE EnterOnce
  BY <1>2 DEF EnterOnce, Raised, Flagged
<1>3. CASE Decide
  BY <1>3 DEF Decide, Flagged
<1>4. ASSUME \/ ConstructPool \/ ConstructTables \/ Dlsym \/ Nested \/ PoolTrims
             \/ Call \/ CallAligned \/ UNCHANGED rawVars
      PROVE  UNCHANGED <<once, isInitFunction, fate>>
  BY <1>4 DEF ConstructPool, ConstructTables, Dlsym, Nested, End, PoolTrims, Call,
              CallAligned, Begin, flags, rawVars, Flagged
<1>5. CASE Answer
  <2>1. UNCHANGED flags /\ fate' \in {fate, "nullCall", "foreign", "poolRace"}
    BY <1>5 DEF Answer, AnswerAlloc, AnswerPoolFree, AnswerFree, LibcFree,
                AnswerPoolRealloc, PoolRace, AnswerRealloc, AnswerAligned, End
  <2> QED
    BY <2>1 DEF flags, Flagged
<1> QED
  BY <1>1, <1>2, <1>3, <1>4, <1>5 DEF RawNext

-----------------------------------------------------------------------------
(* Where pointers come from.  Nothing is in the pool before its constructor or  *)
(* before the first call; a call that gives a pointer back gives a block of     *)
(* libc's or one of the pool's, which waits for the call because nobody else    *)
(* gives it back.  A client that deletes pointers into its blocks may free      *)
(* anything; libc's blocks and the pool stay as they are then.                  *)

Starts == {Start(a) : a \in heap}

Phases ==
  /\ pool = "made" \/ (pool = "raw" /\ live = {})
  /\ once = "never" => live = {} /\ asking = "nothing" /\ isNotInited
  /\ asking # "nothing" => isNotInited /\ call # Null
  /\ isNotInited => /\ held = {} /\ (once = "never" \/ call # Null)
                    /\ call # Null => call.op \notin {"free", "realloc"}

Claims ==
  call # Null /\ call.op \in {"free", "realloc"} =>
    \/ call.ptr \in Starts
    \/ /\ pool = "made" /\ \E b \in live : call.ptr = Start(b.at)
       /\ call.op = "realloc" => call.count \in Requests \ {0}
    \/ call.op = "free" /\ "deletesMoved" \in Habits

Homes ==
  /\ fate = "foreign" => "deletesMoved" \in Habits
  /\ heap \subseteq Libc /\ known \subseteq Starts
  /\ \A p \in held : p.shift = 0 => p \in Starts

RawInv == PoolInv /\ Phases /\ Claims /\ Homes

\* A block of the pool's lies in the buffer, and none of libc's does.
LEMMA PoolApart ==
  ASSUME PoolInv, Homes, NEW b \in live
  PROVE  b.at \in Offsets /\ Start(b.at).block = b.at /\ Start(b.at) \notin Starts
<1>1. b.at \in Offsets /\ b.at \in Nat
  BY DEF PoolInv, Sound, Walk, Owners, Offsets
<1>2. \A a \in heap : a \notin Nat
  BY RawAssumption DEF Homes
<1>3. \A a : Start(a).block = a
  BY DEF Start
<1> QED
  BY <1>1, <1>2, <1>3 DEF Starts

LEMMA RawInitInv == ASSUME RawInit PROVE RawInv
<1>1. PoolInv
  BY InitInv DEF RawInit
<1> QED
  BY <1>1 DEF RawInit, Init, RawInv, Phases, Claims, Homes, Starts

-----------------------------------------------------------------------------
(* The steps with the pool. *)

LEMMA ConstructPoolKeeps ==
  ASSUME RawInv, ConstructPool
  PROVE  RawInv'
<1>1. /\ live = {} /\ live' = {} /\ call = Null /\ call' = Null
      /\ asserted' = FALSE /\ real' = Null /\ cursor' = Null
  BY IdleIsSound DEF RawInv, Phases, ConstructPool, Ready, Idle, PoolInv
<1>2. item' = << >> /\ first' = Null /\ last' = Null /\ offset' = 0
  BY DEF ConstructPool
<1>3. DOMAIN item' = {} /\ item' \in [DOMAIN item' -> Header]
  BY <1>2
<1>4. Sound(item', first', last', offset', live')
  BY <1>1, <1>2, <1>3, EmptySound
<1>5. PoolInv'
  BY <1>1, <1>4, SoundIsIdle
<1> QED
  BY <1>1, <1>5 DEF RawInv, ConstructPool, Phases, Claims, Homes, Starts, flags, clients

\* What the pool's serving the nested calls keeps.
LEMMA NestedKeeps ==
  ASSUME Small, RawInv, Nested
  PROVE  RawInv'
<1>0. asking # "nothing"
  BY DEF Nested
<1>1. CASE fate' = "selfWait" /\ UNCHANGED <<vars, flags, lives, clients, call>>
  <2>1. PoolInv'
    BY <1>1, StutterInv DEF RawInv
  <2> QED
    BY <1>1, <2>1 DEF RawInv, Phases, Claims, Homes, Starts, vars, flags, lives, clients
<1>2. CASE /\ Serves
           /\ Alloc \/ Calloc \/ Dealloc \/ Realloc
           /\ known' = known /\ UNCHANGED <<flags, lives, heap, held, call, fate>>
  <2>1. PoolInv'
    BY <1>2, AllocInv, CallocInv, DeallocInv, ReallocInv DEF RawInv
  <2>2. isNotInited /\ once # "never"
    BY <1>0 DEF RawInv, Phases
  <2>3. pool = "made"
    BY <1>2 DEF Serves
  <2> QED
    BY <1>0, <1>2, <2>1, <2>2, <2>3 DEF RawInv, Phases, Claims, Homes, Starts, flags, lives
<1> QED
  BY <1>1, <1>2 DEF Nested, End, KnownAfter

LEMMA PoolTrimsKeeps ==
  ASSUME RawInv, PoolTrims
  PROVE  RawInv'
<1>1. PoolInv'
  BY TrimInv DEF RawInv, PoolTrims
<1>2. UNCHANGED <<live, flags, lives, clients, call, fate>>
  BY DEF PoolTrims, Trim
<1> QED
  BY <1>1, <1>2 DEF RawInv, Phases, Claims, Homes, Starts, flags, lives, clients

-----------------------------------------------------------------------------
(* The initialisation, and the calls as they begin. *)

LEMMA InitFunctionKeeps ==
  ASSUME RawInv, ConstructTables \/ EnterOnce \/ Dlsym \/ Decide
  PROVE  RawInv'
<1>1. UNCHANGED <<vars, pool, heap, held, call, fate>> /\ known' \subseteq known
  BY DEF ConstructTables, EnterOnce, Dlsym, Decide, lives, clients
<1>2. PoolInv' /\ live' = live
  BY <1>1, StutterInv DEF RawInv, vars
<1>3. Claims' /\ Homes'
  BY <1>1, <1>2 DEF RawInv, Claims, Homes, Starts
<1>4. Phases'
  <2>1. CASE ConstructTables
    BY <1>1, <1>2, <2>1 DEF RawInv, Phases, ConstructTables, flags
  <2>2. CASE EnterOnce
    BY <1>1, <1>2, <2>2 DEF RawInv, Phases, EnterOnce
  <2>3. CASE Dlsym
    BY <1>1, <1>2, <2>3 DEF RawInv, Phases, Dlsym, Functions
  <2>4. CASE Decide
    BY <1>1, <1>2, <2>4 DEF RawInv, Phases, Decide
  <2> QED
    BY <2>1, <2>2, <2>3, <2>4
<1> QED
  BY <1>2, <1>3, <1>4 DEF RawInv

LEMMA BeginKeeps ==
  ASSUME RawInv, call = Null, NEW op, NEW p, NEW c, NEW al, Begin(op, p, c, al),
         op \in {"free", "realloc"} =>
           \/ p \in held /\ p \in Starts
           \/ /\ \E b \in live : p = Start(b.at)
              /\ op = "realloc" => c \in Requests \ {0}
           \/ op = "free" /\ p \in held /\ "deletesMoved" \in Habits
  PROVE  RawInv'
<1>1. /\ UNCHANGED <<vars, flags, lives, clients, fate>>
      /\ call' = [op |-> op, ptr |-> p, count |-> c, align |-> al]
  BY DEF Begin
<1>2. PoolInv'
  BY <1>1, StutterInv DEF RawInv
<1>3. call'.op = op /\ call'.ptr = p /\ call'.count = c
  BY <1>1
<1>4. UNCHANGED <<live, pool, heap, held, known, once, asking, isNotInited>>
  BY <1>1 DEF vars, flags, lives, clients
<1>5. Claims'
  <2>1. live # {} => pool = "made"
    BY DEF RawInv, Phases
  <2> QED
    BY <1>3, <1>4, <2>1 DEF Claims, Starts
<1>6. Phases'
  <2>1. asking = "nothing" /\ (isNotInited => once = "never")
    BY DEF RawInv, Phases
  <2>2. isNotInited => op \notin {"free", "realloc"}
    BY <2>1 DEF RawInv, Phases
  <2> QED
    BY <1>3, <1>4, <2>1, <2>2 DEF RawInv, Phases
<1>7. Homes'
  BY <1>1, <1>4 DEF RawInv, Homes, Starts
<1> QED
  BY <1>2, <1>5, <1>6, <1>7 DEF RawInv

-----------------------------------------------------------------------------
(* The answers.  They come after the initialisation. *)

\* What an answer leaves alone, and what it may do with libc's blocks.
LEMMA AnswerKeeps ==
  ASSUME RawInv, ~isNotInited, UNCHANGED flags, pool' = pool, PoolInv',
         pool = "made", call' = Null, Homes'
  PROVE  RawInv'
BY DEF RawInv, Phases, Claims, flags

\* A block of the pool's goes back to the pool.
LEMMA PoolAnswerKeeps ==
  ASSUME RawInv, ~isNotInited, call # Null, pool = "made", PoolInv', call' = Null,
         UNCHANGED <<flags, lives, clients, fate>>
  PROVE  RawInv'
<1>1. Homes'
  BY DEF RawInv, Homes, Starts, clients
<1> QED
  BY <1>1, AnswerKeeps DEF lives

\* A block of libc's comes or goes.
LEMMA LibcAnswerKeeps ==
  ASSUME RawInv, ~isNotInited, call # Null,
         UNCHANGED <<vars, flags, lives>>, call' = Null, Homes'
  PROVE  RawInv'
<1>1. PoolInv' /\ live' = live
  BY StutterInv DEF RawInv, vars
<1> QED
  BY <1>1 DEF RawInv, Phases, Claims, flags, lives

\* The process ends, by a pointer libc does not know only if the client is unusual.
LEMMA EndKeeps ==
  ASSUME RawInv, NEW f, f = "foreign" => "deletesMoved" \in Habits, End(f)
  PROVE  RawInv'
<1>1. UNCHANGED <<vars, flags, lives, clients, call>> /\ fate' = f
  BY DEF End
<1>2. PoolInv'
  BY <1>1, StutterInv DEF RawInv
<1> QED
  BY <1>1, <1>2 DEF RawInv, Phases, Claims, Homes, Starts, vars, flags, lives, clients

LEMMA AnswerAllocKeeps ==
  ASSUME RawInv, NEW op, AnswerAlloc(op)
  PROVE  RawInv'
<1>1. ~isNotInited /\ call # Null
  BY DEF AnswerAlloc, Inited
<1>2. CASE End("nullCall")
  BY <1>2, EndKeeps
<1>3. CASE /\ call' = Null /\ UNCHANGED <<vars, flags, lives, fate>>
           /\ \E a \in Libc \ heap :
                /\ heap' = heap \union {a}
                /\ held' = held \union {Start(a)}
                /\ known' = known \union {Start(a)}
  <2>1. PICK a \in Libc \ heap : /\ heap' = heap \union {a}
                                /\ held' = held \union {Start(a)}
                                /\ known' = known \union {Start(a)}
    BY <1>3
  <2>2. Starts' = Starts \union {Start(a)}
    BY <2>1 DEF Starts
  <2>3. Homes'
    BY <1>3, <2>1, <2>2 DEF RawInv, Homes
  <2> QED
    BY <1>1, <1>3, <2>3, LibcAnswerKeeps
<1>4. CASE call' = Null /\ UNCHANGED <<vars, flags, lives, fate, heap, held, known>>
  <2>1. Homes'
    BY <1>4 DEF RawInv, Homes, Starts
  <2> QED
    BY <1>1, <1>4, <2>1, LibcAnswerKeeps
<1> QED
  BY <1>2, <1>3, <1>4 DEF AnswerAlloc, Return

\* libc's free of the start of one of its blocks, or of what an unusual client has.
LEMMA LibcFreeKeeps ==
  ASSUME RawInv, ~isNotInited, call # Null, NEW p, p \in Starts \/ "deletesMoved" \in Habits,
         LibcFree(p)
  PROVE  RawInv'
<1>1. CASE End("nullCall")
  BY <1>1, EndKeeps
<1>3. CASE p \notin Starts /\ End("foreign")
  BY <1>3, EndKeeps
<1>2. CASE /\ p \in Starts
           /\ heap' = heap \ {p.block} /\ held' = held \ {p} /\ known' = known \ {p}
           /\ call' = Null /\ UNCHANGED <<vars, flags, lives, fate>>
  <2>1. PICK a \in heap : p = Start(a)
    BY <1>2 DEF Starts
  <2>2. p.block = a
    BY <2>1 DEF Start
  <2>3. Starts \ {p} \subseteq Starts'
    BY <1>2, <2>1, <2>2 DEF Starts
  <2>4. Homes'
    BY <1>2, <2>3 DEF RawInv, Homes
  <2> QED
    BY <1>2, <2>4, LibcAnswerKeeps
<1> QED
  BY <1>1, <1>2, <1>3 DEF LibcFree, Return, Starts

LEMMA AnswerPoolFreeKeeps ==
  ASSUME RawInv, AnswerPoolFree
  PROVE  RawInv'
<1>1. ~isNotInited /\ call # Null /\ pool = "made"
  BY DEF AnswerPoolFree, Inited, InPool
<1>2. CASE Idle /\ (\E b \in live : GiveBack(b)) /\ call' = Null
           /\ UNCHANGED <<flags, lives, clients, fate>>
  <2>1. PoolInv'
    BY <1>2, GiveBackInv DEF RawInv
  <2> QED
    BY <1>1, <1>2, <2>1, PoolAnswerKeeps
<1>3. CASE PoolRace
  BY <1>3, EndKeeps DEF PoolRace
<1> QED
  BY <1>2, <1>3 DEF AnswerPoolFree, Return

LEMMA AnswerFreeKeeps ==
  ASSUME RawInv, AnswerFree
  PROVE  RawInv'
<1>1. /\ ~isNotInited /\ call # Null /\ call.op = "free"
      /\ call.ptr \in known \/ ~InPool(call.ptr)
      /\ LibcFree(call.ptr)
  BY DEF AnswerFree, Inited
<1>2. call.ptr \in Starts \/ "deletesMoved" \in Habits
  <2>1. \/ call.ptr \in Starts
        \/ pool = "made" /\ \E b \in live : call.ptr = Start(b.at)
        \/ "deletesMoved" \in Habits
    BY <1>1 DEF RawInv, Claims
  <2>2. ASSUME pool = "made", NEW b \in live, call.ptr = Start(b.at)
        PROVE  FALSE
    <3>1. InPool(call.ptr) /\ call.ptr \notin known
      BY <2>2, PoolApart DEF InPool, RawInv, Homes
    <3> QED
      BY <1>1, <3>1
  <2> QED
    BY <2>1, <2>2
<1> QED
  BY <1>1, <1>2, LibcFreeKeeps

\* A block of the pool's is resized to a size the pool may be asked for.
LEMMA ResizedAsAsked ==
  ASSUME RawInv, AnswerPoolRealloc
  PROVE  call.count \in Requests \ {0}
<1>1. pool = "made" /\ call.ptr.block \in Offsets /\ call # Null /\ call.op = "realloc"
  BY DEF AnswerPoolRealloc, Inited, InPool
<1>2. call.ptr \notin Starts
  <2>1. \A a \in heap : Start(a).block = a /\ a \notin Nat
    BY RawAssumption DEF RawInv, Homes, Start
  <2>2. call.ptr.block \in Nat
    BY <1>1 DEF Offsets
  <2> QED
    BY <2>1, <2>2 DEF Starts
<1> QED
  BY <1>1, <1>2 DEF RawInv, Claims

LEMMA AnswerPoolReallocKeeps ==
  ASSUME Small, RawInv, AnswerPoolRealloc
  PROVE  RawInv'
<1>1. ~isNotInited /\ call # Null /\ pool = "made"
  BY DEF AnswerPoolRealloc, Inited, InPool
<1>2. call.count \in Nat /\ call.count + HeaderSize + BufferSize <= W
  <2>1. call.count \in Sizes
    BY ResizedAsAsked DEF Sizes
  <2> QED
    BY <2>1 DEF Small
<1>3. CASE PoolRace
  BY <1>3, EndKeeps DEF PoolRace
<1>4. CASE /\ Idle /\ call' = Null /\ UNCHANGED <<flags, lives, clients, fate>>
           /\ \E b \in live :
                Resize(b, call.count) \/ (Refuses(b, call.count) /\ UNCHANGED vars)
  <2>1. PICK b \in live :
          Resize(b, call.count) \/ (Refuses(b, call.count) /\ UNCHANGED vars)
    BY <1>4
  <2>2. PoolInv'
    BY <1>2, <1>4, <2>1, ResizeInv, StutterInv DEF RawInv
  <2> QED
    BY <1>1, <1>4, <2>2, PoolAnswerKeeps
<1> QED
  BY <1>3, <1>4 DEF AnswerPoolRealloc, Return

LEMMA AnswerReallocKeeps ==
  ASSUME RawInv, AnswerRealloc
  PROVE  RawInv'
<1> DEFINE p == call.ptr
<1>1. ~isNotInited /\ call # Null /\ call.op = "realloc"
  BY DEF AnswerRealloc, Inited
<1>2. p \in Starts
  <2>1. \/ p \in Starts
        \/ pool = "made" /\ \E b \in live : p = Start(b.at)
    BY <1>1 DEF RawInv, Claims
  <2>2. ASSUME pool = "made", NEW b \in live, p = Start(b.at)
        PROVE  FALSE
    <3>1. InPool(p) /\ p \notin known
      BY <2>2, PoolApart DEF InPool, RawInv, Homes
    <3> QED
      BY <3>1 DEF AnswerRealloc
  <2> QED
    BY <2>1, <2>2
<1>3. CASE End("nullCall")
  BY <1>3, EndKeeps
<1>4. CASE /\ call' = Null /\ UNCHANGED <<vars, flags, lives, fate>>
           /\ \E a \in (Libc \ heap) \union {p.block} :
                /\ heap' = (heap \ {p.block}) \union {a}
                /\ held' = (held \ {p}) \union {Start(a)}
                /\ known' = IF p \in known THEN (known \ {p}) \union {Start(a)}
                            ELSE known
  <2>1. PICK a \in (Libc \ heap) \union {p.block} :
          /\ heap' = (heap \ {p.block}) \union {a}
          /\ held' = (held \ {p}) \union {Start(a)}
          /\ known' = IF p \in known THEN (known \ {p}) \union {Start(a)} ELSE known
    BY <1>4
  <2>2. PICK o \in heap : p = Start(o)
    BY <1>2 DEF Starts
  <2>3. p.block = o
    BY <2>2 DEF Start
  <2>4. (Starts \ {p}) \union {Start(a)} \subseteq Starts'
    BY <2>1, <2>2, <2>3 DEF Starts
  <2>5. known' \subseteq Starts' /\ heap' \subseteq Libc
    BY <2>1, <2>2, <2>3, <2>4 DEF RawInv, Homes
  <2>6. Homes'
    BY <1>4, <2>1, <2>4, <2>5 DEF RawInv, Homes
  <2> QED
    BY <1>1, <1>4, <2>6, LibcAnswerKeeps
<1> QED
  BY <1>2, <1>3, <1>4 DEF AnswerRealloc, Return, Starts

\* The aligned operator new gives out a pointer that is not the start of its block.
LEMMA AnswerAlignedKeeps ==
  ASSUME RawInv, AnswerAligned
  PROVE  RawInv'
<1>1. ~isNotInited /\ call # Null
  BY DEF AnswerAligned, Inited
<1>2. CASE End("nullCall")
  BY <1>2, EndKeeps
<1>3. CASE /\ call' = Null /\ UNCHANGED <<vars, flags, lives, fate>>
           /\ UNCHANGED <<heap, held, known>>
  <2>1. Homes'
    BY <1>3 DEF RawInv, Homes, Starts
  <2> QED
    BY <1>1, <1>3, <2>1, LibcAnswerKeeps
<1>4. CASE /\ call' = Null /\ UNCHANGED <<vars, flags, lives, fate>>
           /\ \E a \in Libc \ heap : \E d :
                /\ heap' = heap \union {a}
                /\ \/ /\ held' = held \union {[block |-> a, shift |-> d]}
                      /\ known' = known \union {Start(a)}
                   \/ UNCHANGED <<held, known>>
  <2>0. PICK a \in Libc \ heap :
          \E d : /\ heap' = heap \union {a}
                 /\ \/ /\ held' = held \union {[block |-> a, shift |-> d]}
                       /\ known' = known \union {Start(a)}
                    \/ UNCHANGED <<held, known>>
    BY <1>4
  <2>1. PICK d :
          /\ heap' = heap \union {a}
          /\ \/ /\ held' = held \union {[block |-> a, shift |-> d]}
                /\ known' = known \union {Start(a)}
             \/ UNCHANGED <<held, known>>
    BY <2>0
  <2>2. Starts' = Starts \union {Start(a)}
    BY <2>1 DEF Starts
  <2>3. ASSUME NEW q \in held', q.shift = 0
        PROVE  q \in Starts'
    <3>1. CASE q \in held
      BY <2>2, <2>3, <3>1 DEF RawInv, Homes
    <3>2. CASE q = [block |-> a, shift |-> d]
      <4>1. q.shift = d
        BY <3>2
      <4>2. q = Start(a)
        BY <2>3, <3>2, <4>1 DEF Start
      <4> QED
        BY <2>2, <4>2
    <3> QED
      BY <2>1, <3>1, <3>2
  <2>4. known' \subseteq Starts' /\ heap' \subseteq Libc
    BY <2>1, <2>2 DEF RawInv, Homes
  <2>5. Homes'
    BY <1>4, <2>3, <2>4 DEF RawInv, Homes
  <2> QED
    BY <1>1, <1>4, <2>5, LibcAnswerKeeps
<1> QED
  <2>1. CASE "malloc" \notin orig
    BY <1>2, <2>1 DEF AnswerAligned
  <2>2. CASE "malloc" \in orig
    BY <1>3, <1>4, <2>2 DEF AnswerAligned, Return
  <2> QED
    BY <2>1, <2>2

-----------------------------------------------------------------------------
\* A client that does not delete moved pointers gives back starts of blocks only.
LEMMA CallKeeps ==
  ASSUME RawInv, Call \/ CallAligned
  PROVE  RawInv'
<1>1. call = Null
  BY DEF Call, CallAligned
<1>2. \A p \in held : MayFree(p) => p.shift = 0 \/ "deletesMoved" \in Habits
  BY DEF MayFree
<1>3. PICK op, p, c, al :
        /\ Begin(op, p, c, al)
        /\ op \in {"free", "realloc"} =>
             \/ p \in held /\ p.shift = 0
             \/ /\ \E b \in live : p = Start(b.at)
                /\ op = "realloc" => c \in Requests \ {0}
             \/ op = "free" /\ p \in held /\ "deletesMoved" \in Habits
  <2>1. CASE CallAligned
    BY <2>1 DEF CallAligned
  <2>2. CASE Call
    BY <1>2, <2>2 DEF Call
  <2> QED
    BY <2>1, <2>2
<1>4. p \in held /\ p.shift = 0 => p \in Starts
  BY DEF RawInv, Homes
<1> QED
  BY <1>1, <1>3, <1>4, BeginKeeps

LEMMA RawNextInv ==
  ASSUME Small, RawInv, [RawNext]_rawVars
  PROVE  RawInv'
<1>1. CASE Answer
  BY <1>1, AnswerAllocKeeps, AnswerPoolFreeKeeps, AnswerFreeKeeps, AnswerPoolReallocKeeps,
     AnswerReallocKeeps, AnswerAlignedKeeps DEF Answer
<1>2. CASE UNCHANGED rawVars
  <2>1. PoolInv'
    BY <1>2, StutterInv DEF RawInv, rawVars
  <2> QED
    BY <1>2, <2>1 DEF RawInv, Phases, Claims, Homes, Starts, rawVars, vars, flags,
                      lives, clients
<1> QED
  BY <1>1, <1>2, ConstructPoolKeeps, NestedKeeps, PoolTrimsKeeps, InitFunctionKeeps,
     CallKeeps DEF RawNext

-----------------------------------------------------------------------------
(* The arithmetic of the aligned operator new.  Power and the sum that Number   *)
(* takes of a set's bits are recursions; that they end, and what comes out, is  *)
(* shown by looking at the first number for which it would not hold.            *)

\* A set of numbers has a least one.
LEMMA LeastOf ==
  ASSUME NEW T, T \subseteq Nat, T # {}
  PROVE  \E n \in T : \A m \in T : n <= m
<1>1. PICK n \in T : \A m \in T : ~(<<m, n>> \in OpToRel(<, Nat))
  BY NatLessThanWellFounded, WFMin
<1>2. \A m \in T : ~(m < n)
  BY <1>1 DEF OpToRel
<1> QED
  BY <1>2

\* What holds of 0 and of every number after one of which it holds, holds of all.
LEMMA AllOf ==
  ASSUME NEW T, 0 \in T, \A n \in Nat : n \in T => n + 1 \in T
  PROVE  Nat \subseteq T
<1> SUFFICES ASSUME Nat \ T # {}
             PROVE  FALSE
  OBVIOUS
<1>1. PICK n \in Nat \ T : \A m \in Nat \ T : n <= m
  BY LeastOf
<1>2. n # 0 /\ n - 1 \in Nat /\ n - 1 \in T /\ (n - 1) + 1 = n
  BY <1>1
<1> QED
  BY <1>1, <1>2

\* f doubles up to n.
Doubles(f, n) ==
  /\ f \in [0..n -> Nat \ {0}] /\ f[0] = 1
  /\ \A i \in 1..n : f[i] = 2 * f[i - 1]

LEMMA DoublesExist == \A n \in Nat : \E f : Doubles(f, n)
<1> DEFINE T == {n \in Nat : \E f : Doubles(f, n)}
<1>1. 0 \in T
  <2>1. Doubles([i \in 0..0 |-> 1], 0)
    BY DEF Doubles
  <2> QED
    BY <2>1
<1>2. ASSUME NEW n \in Nat, n \in T
      PROVE  n + 1 \in T
  <2>1. PICK f : Doubles(f, n)
    BY <1>2
  <2> DEFINE g == [i \in 0..(n + 1) |-> IF i <= n THEN f[i] ELSE 2 * f[n]]
  <2>2. g \in [0..(n + 1) -> Nat \ {0}]
    BY <2>1 DEF Doubles
  <2>3. g[0] = 1
    BY <2>1 DEF Doubles
  <2>4. ASSUME NEW i \in 1..(n + 1)
        PROVE  g[i] = 2 * g[i - 1]
    <3>1. CASE i <= n
      BY <2>1, <3>1 DEF Doubles
    <3>2. CASE i = n + 1
      BY <3>2
    <3> QED
      BY <3>1, <3>2
  <2>5. Doubles(g, n + 1)
    BY <2>2, <2>3, <2>4 DEF Doubles
  <2> QED
    BY <2>5
<1>3. Nat \subseteq T
  <2> HIDE DEF T
  <2> QED
    BY <1>1, <1>2, AllOf
<1> QED
  BY <1>3

\* Two such functions agree.
LEMMA DoublesAgree ==
  ASSUME NEW n \in Nat, NEW m \in Nat, NEW f, NEW g, Doubles(f, n), Doubles(g, m)
  PROVE  \A i \in Nat : i <= n /\ i <= m => f[i] = g[i]
<1> DEFINE T == {i \in Nat : i <= n /\ i <= m => f[i] = g[i]}
<1>1. 0 \in T
  BY DEF Doubles
<1>2. ASSUME NEW i \in Nat, i \in T
      PROVE  i + 1 \in T
  <2>1. CASE i + 1 <= n /\ i + 1 <= m
    <3>1. f[i] = g[i] /\ i + 1 \in 1..n /\ i + 1 \in 1..m /\ (i + 1) - 1 = i
      BY <1>2, <2>1
    <3>2. f[i + 1] = 2 * f[i] /\ g[i + 1] = 2 * g[i]
      BY <3>1 DEF Doubles
    <3> QED
      BY <3>1, <3>2
  <2> QED
    BY <2>1
<1>3. Nat \subseteq T
  <2> HIDE DEF T
  <2> QED
    BY <1>1, <1>2, AllOf
<1> QED
  BY <1>3

\* The powers are what they are defined to be.
LEMMA PowerIs ==
  /\ Power \in [Nat -> Nat \ {0}]
  /\ Power[0] = 1 /\ \A n \in Nat : Power[n + 1] = 2 * Power[n]
<1> DEFINE F(n) == CHOOSE f : Doubles(f, n)
           g == [n \in Nat |-> F(n)[n]]
           Eq(it) == it = [i \in Nat |-> IF i = 0 THEN 1 ELSE 2 * it[i - 1]]
<1>1. \A n \in Nat : Doubles(F(n), n)
  BY DoublesExist
<1> HIDE DEF F
<1>2. g \in [Nat -> Nat \ {0}] /\ g[0] = 1
  <2>1. ASSUME NEW n \in Nat
        PROVE  F(n)[n] \in Nat \ {0}
    BY <1>1 DEF Doubles
  <2> QED
    BY <1>1, <2>1 DEF Doubles
<1>3. ASSUME NEW n \in Nat
      PROVE  g[n + 1] = 2 * g[n]
  <2>1. F(n + 1)[n + 1] = 2 * F(n + 1)[n]
    <3>1. Doubles(F(n + 1), n + 1) /\ n + 1 \in 1..(n + 1) /\ (n + 1) - 1 = n
      BY <1>1
    <3> QED
      BY <3>1 DEF Doubles
  <2>2. F(n + 1)[n] = F(n)[n]
    <3>1. Doubles(F(n + 1), n + 1) /\ Doubles(F(n), n) /\ n + 1 \in Nat
      BY <1>1
    <3> QED
      BY <3>1, DoublesAgree
  <2> QED
    BY <2>1, <2>2
<1>4. Eq(g)
  <2> HIDE DEF g
  <2>1. \A i \in Nat : i # 0 => i - 1 \in Nat /\ (i - 1) + 1 = i
    OBVIOUS
  <2>2. \A i \in Nat : g[i] = IF i = 0 THEN 1 ELSE 2 * g[i - 1]
    BY <1>2, <1>3, <2>1
  <2> QED
    BY <1>2, <2>2
<1>5. Eq(Power)
  <2>1. Power = CHOOSE it : Eq(it)
    BY DEF Power
  <2> HIDE DEF Eq, g
  <2> QED
    BY <1>4, <2>1
<1> DEFINE T == {i \in Nat : Power[i] = g[i]}
<1> HIDE DEF g
<1>6. 0 \in T
  BY <1>2, <1>5
<1>7. ASSUME NEW i \in Nat, i \in T
      PROVE  i + 1 \in T
  <2>1. Power[i + 1] = 2 * Power[i]
    <3>1. i + 1 \in Nat /\ i + 1 # 0 /\ (i + 1) - 1 = i
      OBVIOUS
    <3> QED
      BY <1>5, <3>1
  <2> QED
    BY <1>3, <1>7, <2>1
<1>8. Nat \subseteq T
  <2> HIDE DEF T
  <2> QED
    BY <1>6, <1>7, AllOf
<1>9. DOMAIN Power = Nat /\ Power = [i \in Nat |-> Power[i]]
  BY <1>5
<1>10. \A i \in Nat : Power[i] = g[i]
  BY <1>8
<1> QED
  BY <1>2, <1>3, <1>9, <1>10

\* A higher power is at least twice a lower one.
LEMMA PowerGrows ==
  \A i, j \in Nat : /\ Power[i] \in Nat /\ Power[i] >= 1
                    /\ i < j => 2 * Power[i] <= Power[j]
<1> SUFFICES ASSUME NEW i \in Nat
             PROVE  \A d \in Nat : 2 * Power[i] <= Power[i + d + 1]
  <2>1. \A k \in Nat : Power[k] \in Nat /\ Power[k] >= 1
    BY PowerIs
  <2>2. \A k, j \in Nat : k < j => j - k - 1 \in Nat /\ k + (j - k - 1) + 1 = j
    OBVIOUS
  <2> QED
    BY <2>1, <2>2
<1> DEFINE T == {d \in Nat : 2 * Power[i] <= Power[i + d + 1]}
<1>1. 0 \in T
  <2>1. i + 0 + 1 = i + 1 /\ Power[i + 1] = 2 * Power[i] /\ Power[i] \in Nat
    BY PowerIs
  <2> QED
    BY <2>1
<1>2. ASSUME NEW d \in Nat, d \in T
      PROVE  d + 1 \in T
  <2>1. i + d + 1 \in Nat /\ i + (d + 1) + 1 = (i + d + 1) + 1
    OBVIOUS
  <2>2. /\ Power[i + (d + 1) + 1] = 2 * Power[i + d + 1]
        /\ Power[i + d + 1] \in Nat /\ Power[i] \in Nat
    BY <2>1, PowerIs
  <2> QED
    BY <1>2, <2>2
<1>3. Nat \subseteq T
  <2> HIDE DEF T
  <2> QED
    BY <1>1, <1>2, AllOf
<1> QED
  BY <1>3

\* The word and the default alignment.
LEMMA WordIs ==
  /\ W \in Nat /\ W > 1 /\ W = 2 * Power[WordBits - 1] /\ W \div 2 = Power[WordBits - 1]
  /\ WordBits - 1 \in Nat /\ Power[WordBits - 1] \in Nat
  /\ DefaultAlign \in 1..(W - 1)
  /\ \A i \in Bits : i \in Nat /\ Power[i] \in 1..(W - 1)
<1>1. WordBits - 1 \in Nat /\ (WordBits - 1) + 1 = WordBits
  BY RawAssumption
<1>2. W = 2 * Power[WordBits - 1]
  BY <1>1, PowerIs, RawAssumption
<1>3. Power[WordBits - 1] \in Nat /\ Power[WordBits - 1] >= 1
  BY <1>1, PowerGrows
<1>4. ASSUME NEW i \in Bits
      PROVE  i \in Nat /\ Power[i] \in 1..(W - 1)
  <2>1. i \in Nat /\ i <= WordBits - 1
    BY <1>1 DEF Bits
  <2>2. Power[i] \in Nat /\ Power[i] >= 1 /\ Power[i] <= Power[WordBits - 1]
    BY <1>1, <2>1, PowerGrows
  <2> QED
    BY <1>2, <1>3, <2>1, <2>2
<1>5. W \in Nat /\ W > 1 /\ W \div 2 = Power[WordBits - 1]
  BY <1>2, <1>3
<1>6. DefaultAlign \in 1..(W - 1)
  BY <1>4, RawAssumption DEF Bits
<1> QED
  BY <1>1, <1>2, <1>3, <1>4, <1>5, <1>6

One(s) == CHOOSE x \in s : TRUE

\* f sums up the sets in D.
Sums(f, D) ==
  /\ f \in [D -> Int]
  /\ \A s \in D : f[s] = IF s = {} THEN 0 ELSE Power[One(s)] + f[s \ {One(s)}]

\* The sets of at most n bits.
UpTo(n) == {s \in SUBSET Bits : Cardinality(s) <= n}

LEMMA BitsType == WordBits \in Nat /\ Bits \subseteq Nat /\ IsFiniteSet(Bits)
<1>1. WordBits \in Nat
  BY RawAssumption
<1>2. IsFiniteSet(0..(WordBits - 1))
  BY <1>1, FS_Interval
<1> QED
  BY <1>1, <1>2 DEF Bits

LEMMA SetOfBits ==
  ASSUME NEW s \in SUBSET Bits
  PROVE  IsFiniteSet(s) /\ Cardinality(s) \in Nat /\ (Cardinality(s) <= 0 => s = {})
<1>1. IsFiniteSet(s)
  BY BitsType, FS_Subset
<1> QED
  BY <1>1, FS_CardinalityType, FS_EmptySet

LEMMA OneBit ==
  ASSUME NEW s \in SUBSET Bits, s # {}
  PROVE  /\ One(s) \in s /\ Power[One(s)] \in Int
         /\ Cardinality(s) \in Nat /\ Cardinality(s \ {One(s)}) = Cardinality(s) - 1
<1>1. One(s) \in s
  BY DEF One
<1>2. IsFiniteSet(s) /\ Cardinality(s) \in Nat
  BY SetOfBits
<1>3. One(s) \in Nat
  BY <1>1, BitsType
<1>4. Power[One(s)] \in Int
  BY <1>3, PowerIs
<1> QED
  BY <1>1, <1>2, <1>4, FS_RemoveElement

LEMMA SumsExist == \A n \in Nat : \E f : Sums(f, UpTo(n))
<1> DEFINE T == {n \in Nat : \E f : Sums(f, UpTo(n))}
<1>1. 0 \in T
  <2>1. \A s \in UpTo(0) : s = {}
    BY SetOfBits DEF UpTo
  <2>2. Sums([s \in UpTo(0) |-> 0], UpTo(0))
    BY <2>1 DEF Sums
  <2> QED
    BY <2>2
<1>2. ASSUME NEW n \in Nat, n \in T
      PROVE  n + 1 \in T
  <2>1. PICK f : Sums(f, UpTo(n))
    BY <1>2
  <2> DEFINE D    == UpTo(n + 1)
             g[s \in D] == IF s = {} THEN 0 ELSE Power[One(s)] + f[s \ {One(s)}]
  <2>2. ASSUME NEW s \in D, s # {}
        PROVE  s \ {One(s)} \in UpTo(n) /\ Power[One(s)] \in Int
    <3>1. s \in SUBSET Bits /\ Cardinality(s) <= n + 1
      BY DEF UpTo
    <3> QED
      BY <2>2, <3>1, OneBit DEF UpTo
  <2>3. g \in [D -> Int]
    BY <2>1, <2>2 DEF Sums
  <2>4. \A s \in UpTo(n) : s \in D /\ g[s] = f[s]
    <3>1. \A s \in UpTo(n) : s \in D
      <4>1. \A s \in SUBSET Bits : Cardinality(s) \in Nat
        BY SetOfBits
      <4> QED
        BY <4>1 DEF UpTo
    <3> QED
      BY <2>1, <3>1 DEF Sums
  <2>5. Sums(g, D)
    BY <2>2, <2>3, <2>4 DEF Sums
  <2> QED
    BY <2>5
<1>3. Nat \subseteq T
  <2> HIDE DEF T
  <2> QED
    BY <1>1, <1>2, AllOf
<1> QED
  BY <1>3

\* Every set of bits has a sum.
LEMMA SumsAll == \E f : Sums(f, SUBSET Bits)
<1>1. Cardinality(Bits) \in Nat /\ UpTo(Cardinality(Bits)) = SUBSET Bits
  <2>1. \A s \in SUBSET Bits : Cardinality(s) <= Cardinality(Bits)
    BY BitsType, FS_Subset
  <2> QED
    BY <2>1, BitsType, FS_CardinalityType DEF UpTo
<1> QED
  BY <1>1, SumsExist

\* Number is that sum.
LEMMA NumberIs ==
  ASSUME NEW f, Sums(f, SUBSET Bits), NEW S \in SUBSET Bits
  PROVE  Number(S) = f[S]
<1> DEFINE n == Cardinality(S)
           Eq(it) == it = [s \in SUBSET S |->
                            IF s = {} THEN 0
                            ELSE Power[CHOOSE x \in s : TRUE] + it[s \ {CHOOSE x \in s : TRUE}]]
           h == [s \in SUBSET S |-> f[s]]
           c == CHOOSE it : Eq(it)
<1>1. n \in Nat
  BY SetOfBits
<1>2. Eq(h)
  BY DEF Sums, One
<1>3. Eq(c)
  <2> HIDE DEF Eq, h
  <2> QED
    BY <1>2
<1>4. Number(S) = c[S]
  BY DEF Number, MapThenSumSet, MapThenFoldSet
<1> HIDE DEF c
<1>5. \A s \in SUBSET S : c[s] = IF s = {} THEN 0 ELSE Power[One(s)] + c[s \ {One(s)}]
  BY <1>3 DEF One
<1> DEFINE T == {k \in Nat : \A s \in SUBSET S : Cardinality(s) <= k => c[s] = f[s]}
<1>6. 0 \in T
  <2>1. ASSUME NEW s \in SUBSET S, Cardinality(s) <= 0
        PROVE  c[s] = f[s]
    <3>1. s \in SUBSET Bits /\ s = {}
      BY <2>1, SetOfBits
    <3> QED
      BY <1>5, <3>1 DEF Sums
  <2> QED
    BY <2>1
<1>7. ASSUME NEW k \in Nat, k \in T
      PROVE  k + 1 \in T
  <2>1. ASSUME NEW s \in SUBSET S, Cardinality(s) <= k + 1, s # {}
        PROVE  c[s] = f[s]
    <3>1. s \in SUBSET Bits
      OBVIOUS
    <3>2. Cardinality(s \ {One(s)}) <= k
      BY <2>1, <3>1, OneBit
    <3>3. c[s \ {One(s)}] = f[s \ {One(s)}]
      BY <1>7, <3>2
    <3> QED
      BY <1>5, <2>1, <3>1, <3>3 DEF Sums
  <2>2. c[{}] = f[{}]
    BY <1>5 DEF Sums
  <2> QED
    BY <2>1, <2>2
<1>8. n \in T
  <2> HIDE DEF T
  <2> QED
    BY <1>1, <1>6, <1>7, AllOf
<1> QED
  BY <1>1, <1>4, <1>8

\* One bit after the other is added.
LEMMA NumberSteps ==
  /\ Number({}) = 0
  /\ \A S \in SUBSET Bits :
       /\ Number(S) \in Int
       /\ S # {} => Number(S) = Power[One(S)] + Number(S \ {One(S)})
<1>1. PICK f : Sums(f, SUBSET Bits)
  BY SumsAll
<1>2. \A S \in SUBSET Bits : Number(S) = f[S]
  BY <1>1, NumberIs
<1> QED
  BY <1>1, <1>2 DEF Sums

\* It does not matter which bit is added last.
LEMMA NumberOfMore ==
  ASSUME NEW S \in SUBSET Bits, NEW x \in S
  PROVE  Number(S) = Power[x] + Number(S \ {x})
<1> DEFINE T == {n \in Nat : \A s \in SUBSET Bits : Cardinality(s) <= n =>
                   \A y \in s : Number(s) = Power[y] + Number(s \ {y})}
<1>1. 0 \in T
  BY SetOfBits
<1>2. ASSUME NEW n \in Nat, n \in T
      PROVE  n + 1 \in T
  <2>1. ASSUME NEW s \in SUBSET Bits, Cardinality(s) <= n + 1, NEW y \in s
        PROVE  Number(s) = Power[y] + Number(s \ {y})
    <3> DEFINE o == One(s)
    <3>1. o \in s /\ Number(s) = Power[o] + Number(s \ {o})
      BY NumberSteps, OneBit
    <3>2. CASE y # o
      <4>1. s \ {o} \in SUBSET Bits /\ y \in s \ {o} /\ Cardinality(s \ {o}) <= n
        BY <2>1, <3>2, OneBit
      <4>2. s \ {y} \in SUBSET Bits /\ o \in s \ {y} /\ Cardinality(s \ {y}) <= n
        <5>1. IsFiniteSet(s) /\ Cardinality(s) \in Nat
          BY SetOfBits
        <5>2. Cardinality(s \ {y}) = Cardinality(s) - 1
          BY <5>1, FS_RemoveElement
        <5> QED
          BY <2>1, <3>1, <3>2, <5>1, <5>2
      <4>3. Number(s \ {o}) = Power[y] + Number((s \ {o}) \ {y})
        BY <1>2, <4>1
      <4>4. Number(s \ {y}) = Power[o] + Number((s \ {y}) \ {o})
        BY <1>2, <4>2
      <4>5. (s \ {o}) \ {y} = (s \ {y}) \ {o}
        OBVIOUS
      <4> DEFINE rest == Number((s \ {y}) \ {o})
      <4>6. rest \in Int
        <5>1. (s \ {y}) \ {o} \in SUBSET Bits
          OBVIOUS
        <5> QED
          BY <5>1, NumberSteps
      <4>7. o \in Bits /\ y \in Bits
        BY <3>1
      <4>8. Power[o] \in Int /\ Power[y] \in Int
        BY <4>7, WordIs
      <4>9. Number(s \ {o}) = Power[y] + rest /\ Number(s \ {y}) = Power[o] + rest
        BY <4>3, <4>4, <4>5
      <4> HIDE DEF rest, o
      <4> QED
        BY <3>1, <4>6, <4>8, <4>9
    <3> QED
      BY <3>1, <3>2
  <2> QED
    BY <2>1
<1>3. Nat \subseteq T
  <2> HIDE DEF T
  <2> QED
    BY <1>1, <1>2, AllOf
<1>4. Cardinality(S) \in Nat /\ Cardinality(S) <= Cardinality(S)
  BY SetOfBits
<1> QED
  BY <1>3, <1>4

\* The number with all bits from 0 to k.
LEMMA NumberOfAll ==
  \A k \in Nat : k < WordBits => Number(0..k) + 1 = Power[k + 1]
<1> DEFINE T == {k \in Nat : k < WordBits => Number(0..k) + 1 = Power[k + 1]}
<1>0. \A k \in Nat : k < WordBits => 0..k \in SUBSET Bits
  BY BitsType DEF Bits
<1>1. 0 \in T
  <2>1. CASE 0 < WordBits
    <3>1. 0..0 = {0} /\ (0..0) \ {0} = {} /\ 0 \in 0..0
      OBVIOUS
    <3>2. Number(0..0) = Power[0] + Number({})
      BY <1>0, <2>1, <3>1, NumberOfMore
    <3>3. Power[0] = 1 /\ Power[0 + 1] = 2 * Power[0]
      BY PowerIs
    <3> QED
      BY <3>2, <3>3, NumberSteps
  <2> QED
    BY <2>1
<1>2. ASSUME NEW k \in Nat, k \in T
      PROVE  k + 1 \in T
  <2>1. CASE k + 1 < WordBits
    <3>1. k < WordBits /\ Number(0..k) + 1 = Power[k + 1]
      BY <1>2, <2>1, BitsType
    <3>2. (0..(k + 1)) \ {k + 1} = 0..k /\ k + 1 \in 0..(k + 1)
      OBVIOUS
    <3>3. Number(0..(k + 1)) = Power[k + 1] + Number(0..k)
      BY <1>0, <2>1, <3>2, NumberOfMore
    <3>4. Power[(k + 1) + 1] = 2 * Power[k + 1] /\ Power[k + 1] \in Nat
      BY PowerIs
    <3>5. Number(0..k) \in Int
      BY <1>0, <3>1, NumberSteps
    <3> QED
      BY <3>1, <3>3, <3>4, <3>5
  <2> QED
    BY <2>1
<1>3. Nat \subseteq T
  <2> HIDE DEF T
  <2> QED
    BY <1>1, <1>2, AllOf
<1> QED
  BY <1>3

\* The bits at most m below one of S.
WithinBelow(S, m) == {i \in Bits : \E j \in S : i <= j /\ j <= i + m}

\* A shift by one more than the bits reach so far doubles their reach.
LEMMA ShiftReaches ==
  ASSUME NEW S \in SUBSET Bits, NEW m \in Nat
  PROVE  OrShifted(WithinBelow(S, m), m + 1) = WithinBelow(S, 2 * m + 1)
<1>1. \A i \in Bits, j \in S : i \in Nat /\ j \in Nat /\ i < WordBits /\ j < WordBits
  BY BitsType DEF Bits
<1>2. ASSUME NEW i \in Bits, i + (m + 1) \in WithinBelow(S, m)
      PROVE  i \in WithinBelow(S, 2 * m + 1)
  <2>1. PICK j \in S : i + (m + 1) <= j /\ j <= i + (m + 1) + m
    BY <1>2 DEF WithinBelow
  <2>2. i <= j /\ j <= i + (2 * m + 1)
    BY <1>1, <2>1
  <2> QED
    BY <2>2 DEF WithinBelow
<1>3. ASSUME NEW i \in WithinBelow(S, m)
      PROVE  i \in WithinBelow(S, 2 * m + 1)
  <2>1. i \in Bits
    BY DEF WithinBelow
  <2>2. PICK j \in S : i <= j /\ j <= i + m
    BY DEF WithinBelow
  <2>3. j <= i + (2 * m + 1)
    BY <1>1, <2>1, <2>2
  <2> QED
    BY <2>1, <2>2, <2>3 DEF WithinBelow
<1>4. ASSUME NEW i \in WithinBelow(S, 2 * m + 1), i \notin WithinBelow(S, m)
      PROVE  i + (m + 1) \in WithinBelow(S, m)
  <2>1. i \in Bits
    BY DEF WithinBelow
  <2>2. PICK j \in S : i <= j /\ j <= i + (2 * m + 1)
    BY DEF WithinBelow
  <2>3. ~(j <= i + m)
    BY <1>4, <2>1, <2>2 DEF WithinBelow
  <2>4. i + (m + 1) <= j /\ j <= i + (m + 1) + m
    BY <1>1, <2>1, <2>2, <2>3
  <2>5. i + (m + 1) \in Bits
    BY <1>1, <2>1, <2>4, BitsType DEF Bits
  <2> QED
    BY <2>4, <2>5 DEF WithinBelow
<1> QED
  BY <1>2, <1>3, <1>4 DEF OrShifted, WithinBelow

\* Six shifts reach the 63 bits below, which is every lower one.
LEMMA SmearedFills ==
  ASSUME NEW S \in SUBSET Bits, NEW k \in S, \A j \in S : j <= k
  PROVE  Smeared(S) = 0..k
<1>1. \A i \in Bits : i \in Nat /\ i < WordBits /\ i <= 63
  BY RawAssumption DEF Bits
<1>2. WithinBelow(S, 0) = S
  <2>1. \A i \in Bits, j \in S : i <= j /\ j <= i + 0 <=> i = j
    BY <1>1
  <2> QED
    BY <2>1 DEF WithinBelow
<1>3. /\ OrShifted(WithinBelow(S, 0), 1) = WithinBelow(S, 1)
      /\ OrShifted(WithinBelow(S, 1), 2) = WithinBelow(S, 3)
      /\ OrShifted(WithinBelow(S, 3), 4) = WithinBelow(S, 7)
      /\ OrShifted(WithinBelow(S, 7), 8) = WithinBelow(S, 15)
      /\ OrShifted(WithinBelow(S, 15), 16) = WithinBelow(S, 31)
      /\ OrShifted(WithinBelow(S, 31), 32) = WithinBelow(S, 63)
  <2>1. \A m \in {0, 1, 3, 7, 15, 31} :
          OrShifted(WithinBelow(S, m), m + 1) = WithinBelow(S, 2 * m + 1)
    BY ShiftReaches
  <2> QED
    BY <2>1
<1>4. Smeared(S) = WithinBelow(S, 63)
  BY <1>2, <1>3 DEF Smeared
<1>5. k \in Bits
  OBVIOUS
<1>6. WithinBelow(S, 63) \subseteq 0..k
  BY <1>1, <1>5 DEF WithinBelow
<1>7. ASSUME NEW i \in 0..k
      PROVE  i \in WithinBelow(S, 63)
  <2>1. k \in Nat /\ k < WordBits /\ k <= 63
    BY <1>1, <1>5
  <2>2. i \in Bits /\ i <= k /\ k <= i + 63
    BY <2>1, BitsType DEF Bits
  <2> QED
    BY <2>2 DEF WithinBelow
<1> QED
  BY <1>4, <1>6, <1>7

LEMMA SmearedNone == Smeared({}) = {}
BY DEF Smeared, OrShifted

\* Quotients by a larger number, and by one that goes into n once.
LEMMA SmallQuotients ==
  ASSUME NEW n \in Nat, NEW p \in Nat, p > 0
  PROVE  /\ n < p => n \div p = 0
         /\ p <= n /\ n < 2 * p => n \div p = 1
<1>1. n \div p \in Int /\ p * (n \div p) <= n /\ n < p * (n \div p) + p
  OBVIOUS
<1> QED
  BY <1>1

\* The highest bit of n.
LEMMA HighestBit ==
  ASSUME NEW n \in Nat, n > 0, n < W
  PROVE  \E k \in Bits : /\ Power[k] <= n /\ n < Power[k + 1]
                         /\ k \in BitsOf(n) /\ \A j \in BitsOf(n) : j <= k
<1> DEFINE T == {i \in Nat : n < Power[i + 1]}
<1>1. WordBits - 1 \in T
  <2>1. WordBits - 1 \in Nat /\ (WordBits - 1) + 1 = WordBits /\ W = Power[WordBits]
    BY RawAssumption
  <2> QED
    BY <2>1
<1>2. PICK k \in T : \A i \in T : k <= i
  <2>1. T \subseteq Nat /\ T # {}
    BY <1>1
  <2> HIDE DEF T
  <2> QED
    BY <2>1, LeastOf
<1>3. k \in Nat /\ n < Power[k + 1]
  OBVIOUS
<1>4. k \in Bits
  BY <1>1, <1>2, <1>3, BitsType DEF Bits
<1>5. Power[k] <= n
  <2>1. CASE k = 0
    BY <2>1, PowerIs
  <2>2. CASE k # 0
    <3>1. k - 1 \in Nat /\ (k - 1) + 1 = k /\ ~(k <= k - 1)
      BY <1>3, <2>2
    <3>2. k - 1 \notin T
      BY <1>2, <3>1
    <3>3. ~(n < Power[k])
      BY <3>1, <3>2
    <3>4. Power[k] \in Nat
      BY <1>3, PowerGrows
    <3> QED
      BY <3>3, <3>4
  <2> QED
    BY <2>1, <2>2
<1> HIDE DEF T
<1>6. k \in BitsOf(n)
  <2>1. Power[k] \in Nat /\ Power[k] > 0 /\ Power[k + 1] = 2 * Power[k]
    BY <1>3, PowerIs
  <2>2. n \div Power[k] = 1
    BY <1>3, <1>5, <2>1, SmallQuotients
  <2> QED
    BY <1>4, <2>2 DEF BitsOf
<1>7. ASSUME NEW j \in BitsOf(n), ~(j <= k)
      PROVE  FALSE
  <2>1. j \in Bits /\ (n \div Power[j]) % 2 = 1
    BY DEF BitsOf
  <2>2. j \in Nat /\ k < j
    BY <1>3, <1>7, <2>1, WordIs
  <2>3. Power[j] \in Nat /\ Power[j] > 0 /\ n < Power[j]
    <3>1. /\ Power[k + 1] = 2 * Power[k] /\ 2 * Power[k] <= Power[j]
          /\ Power[k] \in Nat /\ Power[j] \in Nat
      BY <1>3, <2>2, PowerGrows, PowerIs
    <3> QED
      BY <1>3, <3>1
  <2>4. n \div Power[j] = 0
    BY <2>3, SmallQuotients
  <2> QED
    BY <2>1, <2>4
<1> QED
  BY <1>3, <1>4, <1>5, <1>6, <1>7

LEMMA NoBits == BitsOf(0) = {}
<1>1. \A i \in Bits : Power[i] \in Nat /\ Power[i] > 0
  BY WordIs
<1>2. \A i \in Bits : 0 \div Power[i] = 0
  BY <1>1, SmallQuotients
<1> QED
  BY <1>2 DEF BitsOf

\* The powers of two that an alignment may be rounded up to.
FitFor(al) == {Power[i] : i \in Bits} \cap {n \in 1..W : n >= al /\ n >= DefaultAlign}

\* The bits trick finds the least of them.
LEMMA AlignmentRounds ==
  ASSUME NEW al \in 0..(W \div 2)
  PROVE  Alignment(al) \in FitFor(al) /\ \A n \in FitFor(al) : Alignment(al) <= n
<1>1. W \in Nat /\ W > 1 /\ al \in Nat /\ al <= Power[WordBits - 1] /\ al < W
  BY WordIs
<1>2. CASE al < DefaultAlign
  <2>1. Alignment(al) = DefaultAlign
    BY <1>2 DEF Alignment
  <2>2. DefaultAlign \in {Power[i] : i \in Bits} /\ DefaultAlign \in 1..(W - 1)
    BY RawAssumption, WordIs DEF Bits
  <2>3. DefaultAlign \in FitFor(al)
    BY <1>1, <1>2, <2>2 DEF FitFor
  <2>4. \A n \in FitFor(al) : DefaultAlign <= n
    BY <2>2 DEF FitFor
  <2> QED
    BY <2>1, <2>3, <2>4
<1>3. CASE ~(al < DefaultAlign) /\ al = 1
  <2>1. DefaultAlign = 1
    BY <1>3, WordIs
  <2>2. Alignment(al) = (0 + 1) % W
    BY <1>3, NoBits, SmearedNone, NumberSteps DEF Alignment
  <2>3. Alignment(al) = 1
    BY <1>1, <2>2
  <2>4. 1 \in {Power[i] : i \in Bits}
    BY <2>1, RawAssumption DEF Bits
  <2> QED
    BY <1>1, <1>3, <2>1, <2>3, <2>4 DEF FitFor
<1>4. CASE ~(al < DefaultAlign) /\ al # 1
  <2>0. DefaultAlign \in Nat /\ DefaultAlign <= al /\ al - 1 \in Nat /\ al - 1 > 0 /\ al - 1 < W
    BY <1>1, <1>4, WordIs
  <2>1. PICK k \in Bits : /\ Power[k] <= al - 1 /\ al - 1 < Power[k + 1]
                          /\ k \in BitsOf(al - 1)
                          /\ \A j \in BitsOf(al - 1) : j <= k
    BY <2>0, HighestBit
  <2>2. k \in Nat /\ k < WordBits /\ k <= WordBits - 1 /\ Power[k] \in Nat
    BY <2>1, BitsType, WordIs DEF Bits
  <2>3. Smeared(BitsOf(al - 1)) = 0..k
    <3>1. BitsOf(al - 1) \in SUBSET Bits
      BY DEF BitsOf
    <3> QED
      BY <2>1, <3>1, SmearedFills
  <2>4. Alignment(al) = Power[k + 1] % W
    BY <1>4, <2>2, <2>3, NumberOfAll DEF Alignment
  <2>5. k + 1 \in Bits
    <3>1. k # WordBits - 1
      BY <1>1, <2>0, <2>1, <2>2
    <3> QED
      BY <2>2, <3>1, BitsType DEF Bits
  <2>6. Power[k + 1] \in 1..(W - 1)
    BY <2>5, WordIs
  <2>7. Alignment(al) = Power[k + 1]
    BY <1>1, <2>4, <2>6
  <2>8. Power[k + 1] \in FitFor(al)
    BY <1>1, <2>0, <2>1, <2>5, <2>6 DEF FitFor
  <2>9. ASSUME NEW n \in FitFor(al)
        PROVE  Power[k + 1] <= n
    <3>1. PICK i \in Bits : n = Power[i]
      BY DEF FitFor
    <3>2. n >= al /\ i \in Nat /\ n \in Nat
      BY <3>1, WordIs DEF FitFor
    <3>3. CASE i <= k
      <4>1. Power[i] <= Power[k]
        BY <2>2, <3>2, <3>3, PowerGrows
      <4> QED
        BY <1>1, <2>1, <2>2, <3>1, <3>2, <4>1
    <3>4. CASE i = k + 1
      BY <2>6, <3>1, <3>4
    <3>5. CASE k + 1 < i
      <4>1. 2 * Power[k + 1] <= Power[i] /\ Power[k + 1] \in Nat
        BY <2>2, <3>2, <3>5, PowerGrows
      <4> QED
        BY <3>1, <3>2, <4>1
    <3> QED
      BY <2>2, <3>2, <3>3, <3>4, <3>5
  <2> QED
    BY <2>7, <2>8, <2>9
<1> QED
  BY <1>2, <1>3, <1>4

LEMMA AlignmentType ==
  ASSUME NEW al \in 0..(W \div 2)
  PROVE  Alignment(al) \in 0..(W - 1)
BY AlignmentRounds, WordIs DEF FitFor

\* An aligned request under way asks for sizes.
Asked ==
  call # Null /\ call.op = "aligned" =>
    call.count \in 1..(W - 1) /\ call.align \in 0..(W \div 2)

LEMMA AlignsType == /\ Counts \subseteq 1..(W - 1) /\ Aligns \subseteq 0..(W \div 2)
                    /\ 0..(W \div 2) \subseteq 0..(W - 1)
BY WordIs, RawAssumption

LEMMA AskedBegins ==
  ASSUME Asked, Call \/ CallAligned
  PROVE  Asked' /\ heap' = heap
<1>1. PICK op, p, c, al :
        /\ Begin(op, p, c, al)
        /\ op = "aligned" => c \in Counts /\ al \in Aligns
  <2>1. CASE CallAligned
    BY <2>1 DEF CallAligned
  <2>2. CASE Call
    BY <2>2 DEF Call
  <2> QED
    BY <2>1, <2>2
<1>2. call'.op = op /\ call'.count = c /\ call'.align = al
  BY <1>1 DEF Begin
<1>3. heap' = heap
  BY <1>1 DEF Begin, clients
<1> QED
  BY <1>1, <1>2, <1>3, AlignsType DEF Asked

\* An answer to an aligned request either leaves libc's blocks as they are, or gives
\* the client a pointer into the new block, or drops the block, which happens only if
\* the request's size wraps around.
LEMMA AlignedAnswer ==
  ASSUME Asked, AnswerAligned
  PROVE  \/ heap' = heap
         \/ \E a \in Libc, d \in Int :
              /\ heap' = heap \union {a}
              /\ \/ [block |-> a, shift |-> d] \in held'
                 \/ call.count + Alignment(call.align) + PointerSize >= W
<1> DEFINE c    == call.count
           al   == Alignment(call.align)
           size == Allocating(c, al)
<1>1. c \in 1..(W - 1) /\ call.align \in 0..(W \div 2)
  BY DEF Asked, AnswerAligned, Inited
<1>2. al \in 0..(W - 1)
  BY <1>1, AlignmentType
<1>3. W \in Nat /\ PointerSize \in Nat
  BY PoolAssumption, RawAssumption
<1> HIDE DEF al
<1>4. size \in 0..(W - 1) /\ (c + al + PointerSize < W => size = c + al + PointerSize)
  BY <1>1, <1>2, <1>3 DEF Allocating
<1>5. ASSUME NEW d \in Distances(al), ~Fitting(d, c, size)
      PROVE  c + al + PointerSize >= W
  <2>1. d \in 0..(al - 1)
    BY DEF Distances
  <2> QED
    BY <1>1, <1>2, <1>3, <1>4, <1>5, <2>1 DEF Fitting
<1>6. Distances(al) \subseteq Int
  BY <1>2, <1>3 DEF Distances
<1>7. ASSUME NEW a \in Libc \ heap, NEW d \in Distances(al),
             heap' = heap \union {a},
             Fitting(d, c, size) => held' = held \union {[block |-> a, shift |-> d]}
      PROVE  \E b \in Libc, e \in Int :
               /\ heap' = heap \union {b}
               /\ \/ [block |-> b, shift |-> e] \in held'
                  \/ c + al + PointerSize >= W
  <2>1. d \in Int
    BY <1>6
  <2> HIDE DEF size
  <2>2. [block |-> a, shift |-> d] \in held' \/ c + al + PointerSize >= W
    BY <1>5, <1>7
  <2> QED
    BY <1>7, <2>1, <2>2
<1>8. CASE heap' = heap
  BY <1>8
<1>9. CASE heap' # heap
  <2>1. PICK a \in Libc \ heap, d \in Distances(al) :
             /\ heap' = heap \union {a}
             /\ Fitting(d, c, size) => held' = held \union {[block |-> a, shift |-> d]}
    BY <1>9 DEF AnswerAligned, End, clients, al
  <2> HIDE DEF size
  <2> QED
    BY <1>7, <2>1 DEF al
<1> QED
  BY <1>8, <1>9

\* The other answers put every new block into the client's hands.
LEMMA OtherAnswer ==
  ASSUME (\E op \in {"malloc", "calloc"} : AnswerAlloc(op)) \/ AnswerPoolFree
           \/ AnswerFree \/ AnswerPoolRealloc \/ AnswerRealloc
  PROVE  /\ call' = call \/ call' = Null
         /\ given' = given
         /\ \A a \in heap' \ heap : Start(a) \in held'
<1>1. ASSUME NEW f, End(f)
      PROVE  call' = call /\ given' = given /\ heap' = heap
  BY <1>1 DEF End, clients
<1>2. ASSUME NEW op \in {"malloc", "calloc"}, AnswerAlloc(op), ~End("nullCall")
      PROVE  call' = Null /\ given' = given /\ \A a \in heap' \ heap : Start(a) \in held'
  BY <1>2 DEF AnswerAlloc, Return
<1>3. CASE AnswerFree
  BY <1>1, <1>3 DEF AnswerFree, LibcFree, Return, clients
<1>4. CASE AnswerPoolFree \/ AnswerPoolRealloc
  BY <1>1, <1>4 DEF AnswerPoolFree, AnswerPoolRealloc, PoolRace, Return, clients
<1>5. CASE AnswerRealloc
  <2>1. CASE End("nullCall") \/ End("foreign")
    BY <1>1, <2>1
  <2>2. CASE ~End("nullCall") /\ ~End("foreign")
    BY <1>5, <2>2 DEF AnswerRealloc, Return
  <2> QED
    BY <2>1, <2>2
<1> QED
  BY <1>1, <1>2, <1>3, <1>4, <1>5

\* What a step does for aligned requests, and with the blocks libc hands out.
LEMMA AskedNext ==
  ASSUME Asked, [RawNext]_rawVars
  PROVE  /\ Asked'
         /\ \A a \in heap' \ heap :
              \/ \E p \in held' : p.block = a
              \/ call.count + Alignment(call.align) + PointerSize >= W
<1>1. ASSUME call' = call \/ call' = Null
      PROVE  Asked'
  BY <1>1 DEF Asked
<1>2. CASE Call \/ CallAligned
  BY <1>2, AskedBegins
<1>3. CASE AnswerAligned
  <2>1. Asked'
    BY <1>1, <1>3 DEF AnswerAligned, End, Return
  <2>2. \A a \in heap' \ heap :
          \/ \E p \in held' : p.block = a
          \/ call.count + Alignment(call.align) + PointerSize >= W
    <3>1. CASE heap' = heap
      BY <3>1
    <3>2. ASSUME NEW a \in Libc, NEW d \in Int, heap' = heap \union {a},
                 [block |-> a, shift |-> d] \in held'
          PROVE  \A b \in heap' \ heap : \E p \in held' : p.block = b
      BY <3>2
    <3> QED
      BY <1>3, <3>1, <3>2, AlignedAnswer
  <2> QED
    BY <2>1, <2>2
<1>4. CASE Answer /\ ~AnswerAligned
  <2>1. /\ call' = call \/ call' = Null
        /\ \A a \in heap' \ heap : Start(a) \in held'
    BY <1>4, OtherAnswer DEF Answer
  <2>2. \A a : Start(a).block = a
    BY DEF Start
  <2> QED
    BY <1>1, <2>1, <2>2
<1>5. ASSUME \/ ConstructPool \/ ConstructTables \/ EnterOnce \/ Dlsym \/ Decide
             \/ Nested \/ PoolTrims \/ UNCHANGED rawVars
      PROVE  heap' = heap /\ call' = call
  BY <1>5 DEF ConstructPool, ConstructTables, EnterOnce, Dlsym, Decide, Nested, End,
              PoolTrims, clients, rawVars
<1> QED
  BY <1>1, <1>2, <1>3, <1>4, <1>5 DEF RawNext

\* What the aligned operator new gives out is aligned as the bits trick rounds.
LEMMA AlignedRounded ==
  ASSUME Asked, AnswerAligned, given' # given
  PROVE  given'.asked \in 0..(W \div 2) /\ given'.align = Alignment(given'.asked)
<1>1. call.align \in 0..(W \div 2)
  BY DEF Asked, AnswerAligned, Inited
<1>2. given' = [asked |-> call.align, align |-> Alignment(call.align)]
  BY DEF AnswerAligned, End
<1> QED
  BY <1>1, <1>2

LEMMA LeastNext ==
  ASSUME Asked, AlignmentLeast, [RawNext]_rawVars
  PROVE  AlignmentLeast'
<1>1. CASE given' = given
  BY <1>1 DEF AlignmentLeast
<1>2. CASE Call \/ CallAligned
  BY <1>2 DEF Call, CallAligned, Begin, AlignmentLeast
<1>3. CASE AnswerAligned /\ given' # given
  <2>1. /\ given'.align \in FitFor(given'.asked)
        /\ \A n \in FitFor(given'.asked) : given'.align <= n
    BY <1>3, AlignedRounded, AlignmentRounds
  <2> QED
    BY <2>1 DEF AlignmentLeast, FitFor
<1>4. CASE Answer /\ ~AnswerAligned
  BY <1>1, <1>4, OtherAnswer DEF Answer
<1>5. ASSUME \/ ConstructPool \/ ConstructTables \/ EnterOnce \/ Dlsym \/ Decide
             \/ Nested \/ PoolTrims \/ UNCHANGED rawVars
      PROVE  given' = given
  BY <1>5 DEF ConstructPool, ConstructTables, EnterOnce, Dlsym, Decide, Nested, End,
              PoolTrims, rawVars
<1> QED
  BY <1>1, <1>2, <1>3, <1>4, <1>5 DEF RawNext

-----------------------------------------------------------------------------
(* The types.  That a block of the pool's lies in the buffer is what PoolInv    *)
(* says; the rest is inductive.                                                 *)

FlagTypes ==
  /\ isInitFunction \in BOOLEAN /\ isNotInited \in BOOLEAN
  /\ once \in {"never", "running", "done"}
  /\ orig \subseteq Functions
  /\ asking \in Functions \union {"nothing", "test", "exit"}
  /\ pool \in {"raw", "made"} /\ tables \in {"raw", "made"}

BlockTypes == known \subseteq Pointers /\ heap \subseteq Libc /\ held \subseteq Pointers

LEMMA Parts ==
  RawTypeOK <=> /\ FlagTypes /\ BlockTypes /\ call \in Calls \union {Null}
                /\ given \in [asked : Nat, align : Nat] \union {Null}
                /\ fate \in {"running", "nullCall", "foreign", "selfWait", "poolRace"}
BY DEF RawTypeOK, FlagTypes, BlockTypes

LEMMA StartType == \A a \in Libc : Start(a) \in Pointers
<1>1. 0 \in 0..(W - 1)
  BY PoolAssumption
<1> QED
  BY <1>1 DEF Start, Pointers

LEMMA FlagTypesNext ==
  ASSUME FlagTypes, [RawNext]_rawVars
  PROVE  FlagTypes'
<1>1. CASE UNCHANGED <<flags, lives>>
  BY <1>1 DEF FlagTypes, flags, lives
<1>2. CASE ConstructPool \/ ConstructTables
  BY <1>2 DEF FlagTypes, ConstructPool, ConstructTables, flags
<1>3. CASE EnterOnce \/ Decide
  BY <1>3 DEF FlagTypes, EnterOnce, Decide, Raised, Functions, lives
<1>4. CASE Dlsym
  <2>1. asking' \in Functions \union {"test"}
    BY <1>4 DEF Dlsym, After, Functions
  <2>2. orig' \subseteq Functions
    BY <1>4 DEF Dlsym, FlagTypes
  <2> QED
    BY <1>4, <2>1, <2>2 DEF FlagTypes, Dlsym, lives
<1>5. ASSUME Nested \/ PoolTrims \/ Call \/ CallAligned \/ UNCHANGED rawVars
      PROVE  UNCHANGED <<flags, lives>>
  BY <1>5 DEF Nested, PoolTrims, Call, CallAligned, Begin, End, rawVars
<1>6. ASSUME Answer
      PROVE  UNCHANGED <<flags, lives>>
  BY <1>6 DEF Answer, AnswerAlloc, AnswerPoolFree, AnswerFree, LibcFree,
              AnswerPoolRealloc, PoolRace, AnswerRealloc, AnswerAligned, End
<1> QED
  BY <1>1, <1>2, <1>3, <1>4, <1>5, <1>6 DEF RawNext

LEMMA BlockTypesNext ==
  ASSUME BlockTypes, Asked, [RawNext]_rawVars
  PROVE  BlockTypes'
<1>1. CASE heap' \subseteq heap /\ held' \subseteq held /\ known' \subseteq known
  BY <1>1 DEF BlockTypes
<1>2. ASSUME NEW f, End(f)
      PROVE  UNCHANGED clients
  BY <1>2 DEF End
<1>3. ASSUME \/ ConstructPool \/ ConstructTables \/ EnterOnce \/ Dlsym \/ Decide
             \/ Nested \/ PoolTrims \/ Call \/ CallAligned \/ UNCHANGED rawVars
      PROVE  heap' = heap /\ held' = held /\ known' \subseteq known
  BY <1>2, <1>3 DEF ConstructPool, ConstructTables, EnterOnce, Dlsym, Decide, Nested,
                    KnownAfter, PoolTrims, Call, CallAligned, Begin, clients, rawVars
<1>4. ASSUME NEW op \in {"malloc", "calloc"}, AnswerAlloc(op)
      PROVE  BlockTypes'
  BY <1>2, <1>4, StartType DEF AnswerAlloc, BlockTypes, clients
<1>5. CASE AnswerPoolFree \/ AnswerFree \/ AnswerPoolRealloc
  BY <1>1, <1>2, <1>5 DEF AnswerPoolFree, AnswerFree, LibcFree, AnswerPoolRealloc,
                          PoolRace, clients
<1>6. CASE AnswerRealloc
  <2>1. CASE End("nullCall") \/ End("foreign")
    BY <1>1, <1>2, <2>1 DEF clients
  <2>2. CASE \E a \in (Libc \ heap) \union {call.ptr.block} :
               /\ call.ptr \in {Start(b) : b \in heap}
               /\ heap' = (heap \ {call.ptr.block}) \union {a}
               /\ held' = (held \ {call.ptr}) \union {Start(a)}
               /\ known' = IF call.ptr \in known
                           THEN (known \ {call.ptr}) \union {Start(a)} ELSE known
    <3>1. call.ptr.block \in Libc
      BY <2>2 DEF Start, BlockTypes
    <3> QED
      BY <2>2, <3>1, StartType DEF BlockTypes
  <2> QED
    BY <1>6, <2>1, <2>2 DEF AnswerRealloc
<1>7. CASE AnswerAligned
  <2>1. call.align \in 0..(W \div 2) /\ W \in Nat
    BY <1>7, PoolAssumption DEF AnswerAligned, Inited, Asked
  <2>2. Alignment(call.align) \in 0..(W - 1)
    BY <2>1, AlignmentType
  <2>3. Distances(Alignment(call.align)) \subseteq 0..(W - 1)
    BY <2>1, <2>2 DEF Distances
  <2>4. \A a \in Libc, d \in Distances(Alignment(call.align)) :
          [block |-> a, shift |-> d] \in Pointers
    BY <2>3 DEF Pointers
  <2> QED
    BY <1>2, <1>7, <2>4, StartType DEF AnswerAligned, BlockTypes, clients
<1> QED
  BY <1>1, <1>3, <1>4, <1>5, <1>6, <1>7 DEF RawNext, Answer

\* What a call is about.
LEMMA CallTypeNext ==
  ASSUME RawTypeOK, RawInv, [RawNext]_rawVars
  PROVE  call' \in Calls \union {Null}
<1>1. CASE call' = call \/ call' = Null
  BY <1>1 DEF RawTypeOK
<1>2. ASSUME NEW op \in Functions \union {"aligned"}, NEW c \in 0..(W - 1),
             NEW al \in 0..(W - 1), NEW p \in Pointers \union InBuffer \union {Null},
             Begin(op, p, c, al)
      PROVE  call' \in Calls
  BY <1>2 DEF Begin, Calls
<1>3. 0 \in 0..(W - 1) /\ Requests \subseteq 0..(W - 1)
  BY PoolAssumption
<1>4. \A b \in live : Start(b.at) \in InBuffer
  BY PoolApart DEF RawInv, Start, InBuffer
<1>5. CASE Call
  BY <1>2, <1>3, <1>4, <1>5 DEF Call, Functions, RawTypeOK
<1>6. CASE CallAligned
  BY <1>2, <1>3, <1>6, AlignsType DEF CallAligned
<1>7. ASSUME \/ ConstructPool \/ ConstructTables \/ EnterOnce \/ Dlsym \/ Decide
             \/ Nested \/ PoolTrims \/ UNCHANGED rawVars
      PROVE  call' = call
  BY <1>7 DEF ConstructPool, ConstructTables, EnterOnce, Dlsym, Decide, Nested, End,
              PoolTrims, rawVars
<1>8. ASSUME Answer
      PROVE  call' = call \/ call' = Null
  BY <1>8, OtherAnswer DEF Answer, AnswerAligned, End, Return
<1> QED
  BY <1>1, <1>5, <1>6, <1>7, <1>8 DEF RawNext

Promise == [asked : Nat, align : Nat]

\* What the aligned operator new promised, and how the process fares.
LEMMA OutcomeTypesNext ==
  ASSUME RawTypeOK, Asked, [RawNext]_rawVars
  PROVE  /\ given' \in Promise \union {Null}
         /\ fate' \in {"running", "nullCall", "foreign", "selfWait", "poolRace"}
<1>1. /\ given \in Promise \union {Null}
      /\ fate \in {"running", "nullCall", "foreign", "selfWait", "poolRace"}
  BY DEF RawTypeOK, Promise
<1>2. ASSUME \/ ConstructPool \/ ConstructTables \/ EnterOnce \/ Dlsym \/ Decide
             \/ Nested \/ PoolTrims \/ UNCHANGED rawVars
      PROVE  given' = given /\ fate' \in {fate, "selfWait"}
  BY <1>2 DEF ConstructPool, ConstructTables, EnterOnce, Dlsym, Decide, Nested, End,
              PoolTrims, rawVars
<1>3. CASE Call \/ CallAligned
  <2>1. given' = Null /\ fate' = fate
    BY <1>3 DEF Call, CallAligned, Begin
  <2> QED
    BY <1>1, <2>1
<1>4. ASSUME Answer
      PROVE  fate' \in {fate, "nullCall", "foreign", "poolRace"}
  BY <1>4 DEF Answer, AnswerAlloc, AnswerPoolFree, AnswerFree, LibcFree,
              AnswerPoolRealloc, PoolRace, AnswerRealloc, AnswerAligned, End
<1>5. CASE AnswerAligned
  <2>1. call.align \in Nat /\ Alignment(call.align) \in Nat
    BY <1>5, AlignmentType, AlignsType, WordIs DEF AnswerAligned, Inited, Asked
  <2>2. given' \in Promise \union {Null}
    BY <1>1, <1>5, <2>1 DEF AnswerAligned, End, Promise
  <2> QED
    BY <1>1, <1>4, <1>5, <2>2 DEF Answer
<1>6. CASE Answer /\ ~AnswerAligned
  BY <1>1, <1>4, <1>6, OtherAnswer DEF Answer
<1> QED
  BY <1>1, <1>2, <1>3, <1>5, <1>6 DEF RawNext

LEMMA RawTypeInit == ASSUME RawInit PROVE RawTypeOK
BY DEF RawInit, RawTypeOK

LEMMA RawTypeNext ==
  ASSUME RawTypeOK, RawInv, Asked, [RawNext]_rawVars
  PROVE  RawTypeOK'
<1>1. FlagTypes' /\ BlockTypes'
  BY Parts, FlagTypesNext, BlockTypesNext
<1>2. call' \in Calls \union {Null}
  BY CallTypeNext
<1>3. /\ given' \in Promise \union {Null}
      /\ fate' \in {"running", "nullCall", "foreign", "selfWait", "poolRace"}
  BY OutcomeTypesNext
<1> QED
  BY <1>1, <1>2, <1>3 DEF RawTypeOK, FlagTypes, BlockTypes, Promise

-----------------------------------------------------------------------------
(* The theorems. *)

\* Whatever dlsym fails to find, no call goes through a null s_orig_ pointer:
\* InitFunction exits without malloc, realloc or free, and calloc is never missing.
THEOREM NoNullIsCalled == RawSpec => []NeverCallsNull
<1>1. RawInit => Resolved
  BY ResolvedInit
<1>2. Resolved /\ [RawNext]_rawVars => Resolved'
  BY ResolvedNext
<1>3. Resolved => NeverCallsNull
  BY DEF Resolved, NeverCallsNull
<1> QED
  BY <1>1, <1>2, <1>3, PTL DEF RawSpec

\* Whatever dlsym allocates, resizes and frees, and also while exit runs after a failed
\* InitFunction: no call waits for the pthread_once it is made in.
THEOREM NeverWaitsForItself == RawSpec => [](fate # "selfWait")
<1>1. RawInit => Flagged
  BY DEF RawInit, Flagged
<1>2. Flagged /\ [RawNext]_rawVars => Flagged'
  BY FlaggedNext
<1>3. Flagged => fate # "selfWait"
  BY DEF Flagged
<1> QED
  BY <1>1, <1>2, <1>3, PTL DEF RawSpec

LEMMA RawStaysSound ==
  ASSUME Small
  PROVE  RawSpec => []RawInv
<1>1. RawInit => RawInv
  BY RawInitInv
<1>2. RawInv /\ [RawNext]_rawVars => RawInv'
  BY RawNextInv
<1> QED
  BY <1>1, <1>2, PTL DEF RawSpec

\* Whenever the pool and the tables are constructed and whatever dlsym allocates:
\* freen, reallocn and the pool are given only pointers they handed out, and the
\* tables know only blocks of libc's.
THEOREM PointersComeHome ==
  ASSUME Small, "deletesMoved" \notin Habits
  PROVE  RawSpec => []HomeKept
<1>1. RawInv => HomeKept
  BY DEF RawInv, Homes, HomeKept, Starts
<1> QED
  BY <1>1, RawStaysSound, PTL

\* The nested calls of dlsym and the answers of the analyzer's entry points use the
\* pool as its theorems assume: its blocks stay apart, no room is lost, its headers
\* stay chained, and its assertion holds.
THEOREM PoolSoundInUse ==
  ASSUME Small
  PROVE  RawSpec => []( /\ PoolTypeOK /\ BlocksDisjoint /\ NothingStranded
                        /\ Chained /\ NoPoolAssertFails )
<1>1. RawInv => /\ PoolTypeOK /\ BlocksDisjoint /\ NothingStranded
                /\ Chained /\ NoPoolAssertFails
  BY InvTypes, InvDisjoint, InvStranded, InvChained
     DEF RawInv, PoolInv, NoPoolAssertFails
<1> QED
  BY <1>1, RawStaysSound, PTL

\* The flags, the tables, the client's call and its pointers are of their types for any
\* client; an aligned pointer lies less than W bytes behind the start of its block.
THEOREM RawTypeCorrect ==
  ASSUME Small
  PROVE  RawSpec => []RawTypeOK
<1>1. RawInit => RawInv /\ RawTypeOK /\ Asked
  BY RawInitInv, RawTypeInit DEF RawInit, Asked
<1>2. RawInv /\ RawTypeOK /\ Asked /\ [RawNext]_rawVars
        => (RawInv /\ RawTypeOK /\ Asked)'
  BY RawNextInv, RawTypeNext, AskedNext
<1> QED
  BY <1>1, <1>2, PTL DEF RawSpec

\* The six shifts and the increment find, for every alignment up to half of what
\* size_t holds, the least power of two that is neither less than it nor than the
\* default: the aligned operator new rounds up, never down, and never too far.
THEOREM AlignmentIsLeast == RawSpec => []AlignmentLeast
<1>1. RawInit => Asked /\ AlignmentLeast
  BY DEF RawInit, Asked, AlignmentLeast
<1>2. (Asked /\ AlignmentLeast) /\ [RawNext]_rawVars
        => (Asked /\ AlignmentLeast)'
  BY AskedNext, LeastNext
<1> QED
  BY <1>1, <1>2, PTL DEF RawSpec

\* Every block libc hands out comes into the client's hands, unless an aligned request
\* is so large that its size wraps around.
THEOREM BlocksReachTheClient == RawSpec => NothingDropped
<1>1. RawInit => Asked
  BY DEF RawInit, Asked
<1>2. Asked /\ [RawNext]_rawVars => Asked'
  BY AskedNext
<1>3. Asked /\ [RawNext]_rawVars =>
        [\A a \in heap' \ heap :
           \/ \E p \in held' : p.block = a
           \/ call.count + Alignment(call.align) + PointerSize >= W]_rawVars
  BY AskedNext
<1> QED
  BY <1>1, <1>2, <1>3, PTL DEF RawSpec, NothingDropped

=============================================================================
