------------------------------ MODULE RawAlloc ------------------------------
(***************************************************************************)
(* The raw allocation layer of Linux, crash_investigator_alloc_dealloc_    *)
(* unix.cpp, composed with its MemoryPool, and with what the analyzer's    *)
(* entry points do with a pointer's home: libc or the pool.                *)
(*                                                                         *)
(* The first call of malloc and friends asks dlsym for libc's functions,   *)
(* inside pthread_once; what dlsym allocates itself comes back as nested   *)
(* calls, which the pool serves.  The static constructors of the pool and  *)
(* of the analyzer's tables may run before or after that.  The process has *)
(* one thread until the first call returned: pthread_create allocates.     *)
(*                                                                         *)
(* What is left in the pool comes back to it later, and the entry points   *)
(* have let go of the analyzer's mutex by then.  The pool has no lock, so  *)
(* two threads may be in it at once: the model ends when a call enters the *)
(* pool while another one is in its trimming loop, and promises nothing of *)
(* what comes after that.                                                  *)
(*                                                                         *)
(* A pointer is a block and a distance from its start: TestOperatorNew-    *)
(* Aligned returns pointers inside their blocks.                           *)
(***************************************************************************)
EXTENDS MemoryPool, FiniteSetsExt

CONSTANTS
  Libc,          \* blocks libc hands out
  Missing,       \* functions dlsym may fail to find
  Counts,        \* sizes asked of the aligned operator new
  Aligns,        \* alignments asked of it
  DefaultAlign,  \* __STDCPP_DEFAULT_NEW_ALIGNMENT__, malloc's alignment, too
  PointerSize,   \* sizeof(void*)
  WordBits,      \* the width of size_t
  Habits         \* unusual clients: a subset of HabitKinds

\* Powers of two, spelled out for the provers, which know nothing of ^.
Power[i \in Nat] == IF i = 0 THEN 1 ELSE 2 * Power[i - 1]

\* "deletesMoved": the client deletes what the aligned operator new returned even
\* if it is not the start of its block.  "threads": several threads give the pool
\* its blocks back, so that a call may come while another one is in the pool.
HabitKinds == {"deletesMoved", "threads"}

ASSUME RawAssumption ==
  /\ Libc \cap (Nat \union {Null}) = {}
  /\ Missing \subseteq {"malloc", "realloc", "free"}
  /\ WordBits \in 1..64 /\ W = Power[WordBits] /\ Counts \subseteq 1..(W - 1)
  /\ Aligns \subseteq 0..(W \div 2) /\ PointerSize \in Nat
  /\ DefaultAlign \in {Power[i] : i \in 0..(WordBits - 1)}
  /\ Habits \subseteq HabitKinds

VARIABLES
  isInitFunction, isNotInited,  \* s_isInitFunction, s_isNotInited
  once,          \* s_once_control
  orig,          \* the functions whose s_orig_ pointer is not null
  asking,        \* where InitFunction is: the function dlsym looks for, ...
  pool, tables,  \* have the pool and the tables been constructed?
  known,         \* pointers with an Allocated entry in m_memoryItems
  heap,          \* blocks allocated in libc
  held,          \* pointers to them that the client may free
  call,          \* the client's call under way, or Null
  given,         \* ghost: the alignment the aligned operator new was asked for last
                 \* and the one it used, until the next call
  fate           \* how the process fares

flags   == <<isInitFunction, isNotInited, once, orig, asking>>
lives   == <<pool, tables>>
clients == <<known, heap, held>>
rawVars == <<vars, flags, lives, clients, call, given, fate>>

Functions == {"malloc", "calloc", "realloc", "free"}
Pointers  == [block : Libc, shift : 0..(W - 1)]
Start(a)  == [block |-> a, shift |-> 0]
InBuffer  == [block : Offsets, shift : {0}]

\* A call: its operation, its pointer, its sizes.
Calls == [op : Functions \union {"aligned"}, ptr : Pointers \union InBuffer \union {Null},
          count : 0..(W - 1), align : 0..(W - 1)]

RawTypeOK ==
  /\ isInitFunction \in BOOLEAN /\ isNotInited \in BOOLEAN
  /\ once \in {"never", "running", "done"}
  /\ orig \subseteq Functions
  /\ asking \in Functions \union {"nothing", "test", "exit"}
  /\ pool \in {"raw", "made"} /\ tables \in {"raw", "made"}
  /\ known \subseteq Pointers
  /\ heap \subseteq Libc /\ held \subseteq Pointers
  /\ call \in Calls \union {Null}
  /\ given \in [asked : Nat, align : Nat] \union {Null}
  /\ fate \in {"running", "nullCall", "foreign", "selfWait", "poolRace"}

RawInit ==
  /\ Init
  /\ isInitFunction = FALSE /\ isNotInited = TRUE /\ once = "never"
  /\ orig = {} /\ asking = "nothing"
  /\ pool = "raw" /\ tables = "raw"
  /\ known = {} /\ heap = {} /\ held = {}
  /\ call = Null /\ given = Null /\ fate = "running"

\* The pool's loop is not running, and the process is.
Ready == Idle /\ fate = "running"

\* A client's thread runs, maybe while another one is in the pool's loop.
Runs == fate = "running" /\ ~asserted /\ (real = Null \/ "threads" \in Habits)

End(f) ==
  /\ fate' = f
  /\ UNCHANGED <<vars, flags, lives, clients, call, given>>

-----------------------------------------------------------------------------
(* The static constructors.  They run while no call is under way. *)

\* MemoryPool::MemoryPool.
ConstructPool ==
  /\ Ready /\ call = Null /\ pool = "raw"
  /\ pool' = "made"
  /\ item' = << >> /\ first' = Null /\ last' = Null /\ offset' = 0
  /\ UNCHANGED <<cursor, real, live, asserted>>
  /\ UNCHANGED <<flags, tables, clients, call, given, fate>>

\* The hash table of s_crashInvestAnalizerInit: it forgets what the zeroed object
\* before it was told.
ConstructTables ==
  /\ Ready /\ call = Null /\ tables = "raw"
  /\ tables' = "made" /\ known' = {}
  /\ UNCHANGED <<vars, flags, pool, heap, held, call, given, fate>>

-----------------------------------------------------------------------------
(* InitFunction. *)

\* Mutant: s_isInitFunction is not raised.
MutantRaised == FALSE

\* s_isInitFunction during dlsym.
Raised == TRUE

\* mallocn, callocn, reallocn or freen of the first call: pthread_once.
EnterOnce ==
  /\ Ready /\ call # Null /\ isNotInited /\ ~isInitFunction /\ once = "never"
  /\ once' = "running" /\ isInitFunction' = Raised /\ asking' = "malloc"
  /\ UNCHANGED <<vars, isNotInited, orig, lives, clients, call, given, fate>>

\* The function dlsym is asked for after f.
After(f) ==
  CASE f = "malloc"  -> "calloc"
    [] f = "calloc"  -> "realloc"
    [] f = "realloc" -> "free"
    [] f = "free"    -> "test"

\* dlsym answers.
Dlsym ==
  /\ Ready /\ asking \in Functions
  /\ orig' \in {orig \union {asking}} \union (IF asking \in Missing THEN {orig} ELSE {})
  /\ asking' = After(asking)
  /\ UNCHANGED <<vars, isInitFunction, isNotInited, once, lives, clients, call,
                 given, fate>>

\* Mutant: the test forgets free.
MutantEnough == {"malloc", "realloc"} \subseteq orig

\* InitFunction goes on only with these functions; calloc is not looked at.
Enough == {"malloc", "realloc", "free"} \subseteq orig

\* The test after the last dlsym: exit(1), or the end of pthread_once.
Decide ==
  /\ Ready /\ asking = "test"
  /\ IF Enough
     THEN /\ isInitFunction' = FALSE /\ isNotInited' = FALSE /\ once' = "done"
          /\ asking' = "nothing"
     ELSE /\ asking' = "exit"
          /\ UNCHANGED <<isInitFunction, isNotInited, once>>
  /\ UNCHANGED <<vars, orig, lives, clients, call, given, fate>>

\* Mutant: the pool serves before its constructor.
MutantServes == TRUE

\* A pool that is still zeroed has no room.
Serves == pool = "made"

\* Mutant: nested calls are registered, too.
MutantKnownAfter(o) == known \union {Start(o)}

\* What the tables know after a nested call was given the block at o: its thread
\* is marked as allocating.
KnownAfter(o) == known

\* A nested call of dlsym's, or of exit's after the test failed.
Nested ==
  /\ Ready /\ asking # "nothing"
  /\ \/ /\ isInitFunction /\ Serves
        /\ Alloc \/ Calloc \/ Dealloc \/ Realloc
        /\ known' = IF live \subseteq live' THEN KnownAfter(offset) ELSE known
        /\ UNCHANGED <<flags, lives, heap, held, call, given, fate>>
     \/ ~isInitFunction /\ once = "running" /\ End("selfWait")

\* The pool's trimming loop goes on, in whichever call it is.
PoolTrims ==
  /\ fate = "running" /\ Trim
  /\ UNCHANGED <<flags, lives, clients, call, given, fate>>

-----------------------------------------------------------------------------
(* The client's calls, and the end of them in libc or the pool. *)

Begin(op, p, c, al) ==
  /\ call' = [op |-> op, ptr |-> p, count |-> c, align |-> al]
  /\ given' = Null
  /\ UNCHANGED <<vars, flags, lives, clients, fate>>

\* A pointer the client may give back.
MayFree(p) == p.shift = 0 \/ "deletesMoved" \in Habits

\* malloc, calloc, realloc and free, and operator new and delete.
Call ==
  /\ Runs /\ call = Null
  /\ \/ \E op \in {"malloc", "calloc"} : Begin(op, Null, 0, 0)
     \/ \E p \in held : MayFree(p) /\ Begin("free", p, 0, 0)
     \/ \E p \in held : p.shift = 0 /\ Begin("realloc", p, 0, 0)
     \/ \E b \in live : Begin("free", Start(b.at), 0, 0)
     \/ \E b \in live, c \in Requests \ {0} : Begin("realloc", Start(b.at), c, 0)

\* operator new with an alignment.
CallAligned ==
  /\ Runs /\ call = Null
  /\ \E c \in Counts, al \in Aligns : Begin("aligned", Null, c, al)

\* The call has come past the initialisation.
Inited(op) == Runs /\ call # Null /\ call.op = op /\ ~isNotInited

\* The call ends.
Return == call' = Null

\* TestOperatorAlloc and TestOperatorCalloc.
AnswerAlloc(op) ==
  /\ Inited(op)
  /\ IF op \notin orig THEN End("nullCall")
     ELSE /\ \/ \E a \in Libc \ heap :
                  /\ heap' = heap \union {a}
                  /\ held' = held \union {Start(a)}
                  /\ known' = known \union {Start(a)}
             \/ UNCHANGED <<heap, held, known>>
          /\ Return
          /\ UNCHANGED <<vars, flags, lives, given, fate>>

\* libc's free is given p.
LibcFree(p) ==
  IF "free" \notin orig THEN End("nullCall")
  ELSE IF p \notin {Start(a) : a \in heap} THEN End("foreign")
  ELSE /\ heap' = heap \ {p.block} /\ held' = held \ {p}
       /\ known' = known \ {p}
       /\ Return
       /\ UNCHANGED <<vars, flags, lives, given, fate>>

\* Mutant: the pool is never asked.
MutantInPool(p) == FALSE

\* The pool finds the pointer in its buffer.
InPool(p) == pool = "made" /\ p.block \in Offsets

\* Two calls are in the pool, which has no lock.
PoolRace == real # Null /\ End("poolRace")

\* TestOperatorDelete of an unknown pointer that the pool finds in its buffer.
AnswerPoolFree ==
  /\ Inited("free")
  /\ call.ptr \notin known /\ InPool(call.ptr)
  /\ \/ PoolRace
     \/ /\ Idle
        /\ \E b \in live : Start(b.at) = call.ptr /\ GiveBack(b)
        /\ Return
        /\ UNCHANGED <<flags, lives, clients, given, fate>>

\* TestOperatorDelete of another pointer: freen, or libc's free if the tables do
\* not know it.
AnswerFree ==
  /\ Inited("free")
  /\ call.ptr \in known \/ ~InPool(call.ptr)
  /\ LibcFree(call.ptr)

\* TestOperatorReAlloc of a pointer of the pool's, which the tables do not know.
AnswerPoolRealloc ==
  /\ Inited("realloc")
  /\ call.ptr \notin known /\ InPool(call.ptr)
  /\ \/ PoolRace
     \/ /\ Idle
        /\ \E b \in live :
             /\ Start(b.at) = call.ptr
             /\ Resize(b, call.count) \/ (Refuses(b, call.count) /\ UNCHANGED vars)
        /\ Return
        /\ UNCHANGED <<flags, lives, clients, given, fate>>

\* TestOperatorReAlloc of another pointer: reallocn, or libc's realloc if the
\* tables do not know it; then they do not learn of the new block, either.
AnswerRealloc ==
  LET p == call.ptr
  IN
  /\ Inited("realloc")
  /\ p \in known \/ ~InPool(p)
  /\ IF "realloc" \notin orig THEN End("nullCall")
     ELSE IF p \notin {Start(a) : a \in heap} THEN End("foreign")
     ELSE
       /\ \E a \in (Libc \ heap) \union {p.block} :
            /\ heap' = (heap \ {p.block}) \union {a}
            /\ held' = (held \ {p}) \union {Start(a)}
            /\ known' = IF p \in known THEN (known \ {p}) \union {Start(a)} ELSE known
       /\ Return
       /\ UNCHANGED <<vars, flags, lives, given, fate>>

-----------------------------------------------------------------------------
(* TestOperatorNewAligned. *)

Bits == 0..(WordBits - 1)

\* The bits of n, and the number with the bits S.
BitsOf(n) == {i \in Bits : (n \div Power[i]) % 2 = 1}
Number(S) == MapThenSumSet(LAMBDA i : Power[i], S)

\* n |= n >> k.
OrShifted(S, k) == S \union {i \in Bits : i + k \in S}

\* Mutant: the shift by 4 is missing.
MutantSmeared(S) ==
  LET low == OrShifted(OrShifted(S, 1), 2)
  IN OrShifted(OrShifted(OrShifted(low, 8), 16), 32)

\* All bits below the highest one are set.
Smeared(S) ==
  LET low == OrShifted(OrShifted(OrShifted(S, 1), 2), 4)
  IN OrShifted(OrShifted(OrShifted(low, 8), 16), 32)

\* The alignment that is used for the one asked.
Alignment(al) ==
  IF al < DefaultAlign THEN DefaultAlign
  ELSE (Number(Smeared(BitsOf(al - 1))) + 1) % W

\* Mutant: only the sizes are added up.
MutantAllocating(c, al) == (c + PointerSize) % W

\* actually_allocating.
Allocating(c, al) == (c + al + PointerSize) % W

\* std::align, as the standard has it, of a pointer with the given distance to the next aligned one.
Fitting(distance, c, space) == c <= space /\ distance <= space - c

\* The distances from a block of libc's to the next multiple of al.
Distances(al) == {d \in 0..(al - 1) : d % DefaultAlign = 0}

\* TestOperatorNewAligned registers the block and returns the aligned pointer.
\* When std::align fails nobody frees the block.
AnswerAligned ==
  LET al   == Alignment(call.align)
      size == Allocating(call.count, al)
  IN
  /\ Inited("aligned")
  /\ IF "malloc" \notin orig THEN End("nullCall")
     ELSE
       /\ \/ /\ UNCHANGED <<heap, held, known, given>>
          \/ \E a \in Libc \ heap, d \in Distances(al) :
               /\ heap' = heap \union {a}
               /\ IF Fitting(d, call.count, size)
                  THEN /\ held' = held \union {[block |-> a, shift |-> d]}
                       /\ known' = known \union {Start(a)}
                       /\ given' = [asked |-> call.align, align |-> al]
                  ELSE UNCHANGED <<held, known, given>>
       /\ Return
       /\ UNCHANGED <<vars, flags, lives, fate>>

-----------------------------------------------------------------------------
Answer ==
  \/ \E op \in {"malloc", "calloc"} : AnswerAlloc(op)
  \/ AnswerPoolFree \/ AnswerFree \/ AnswerPoolRealloc \/ AnswerRealloc \/ AnswerAligned

RawNext ==
  \/ ConstructPool \/ ConstructTables
  \/ EnterOnce \/ Dlsym \/ Decide \/ Nested \/ PoolTrims
  \/ Call \/ CallAligned \/ Answer

\* The code runs on, and dlsym returns at last, however often it allocates; nobody
\* has to make a call.
RawSpec ==
  /\ RawInit /\ [][RawNext]_rawVars
  /\ WF_rawVars(EnterOnce) /\ SF_rawVars(Dlsym) /\ SF_rawVars(Decide)
  /\ WF_rawVars(PoolTrims) /\ WF_rawVars(Answer)

-----------------------------------------------------------------------------
(* Properties. *)

\* Every pointer goes back to where it came from: libc is never given a pointer
\* that is not the start of one of its blocks, whoever was constructed or
\* initialised first, and the tables know only blocks of libc's.
HomeKept == fate # "foreign" /\ known \subseteq {Start(a) : a \in heap}

\* No call goes through a null s_orig_ pointer.
NeverCallsNull == fate # "nullCall"

\* Every call of the client is answered, unless libc's functions are missing and
\* the process exits, or two threads met in the pool: no call waits for the
\* initialisation it is itself part of.
CallsAnswered == call # Null ~> call = Null \/ asking = "exit" \/ fate = "poolRace"

\* A deallocation that trims comes to its end, also while other threads' calls to
\* libc come and go, unless one of them enters the pool.
TrimmingEnds == real # Null ~> real = Null \/ fate = "poolRace"

\* What libc hands out comes into the client's hands: no block is dropped on the
\* way, unless an aligned request is so large that its size wraps around.
NothingDropped ==
  [][\A a \in heap' \ heap :
       \/ \E p \in held' : p.block = a
       \/ call.count + Alignment(call.align) + PointerSize >= W]_rawVars

\* The alignment used is the least power of two that is neither less than the one
\* asked nor than the default.
AlignmentLeast ==
  given # Null =>
    LET fit == {Power[i] : i \in Bits} \cap {n \in 1..W : n >= given.asked /\ n >= DefaultAlign}
    IN given.align \in fit /\ \A n \in fit : given.align <= n

=============================================================================
