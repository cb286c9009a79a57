----------------------------- MODULE MemoryPool -----------------------------
(***************************************************************************)
(* cpputilsm::MemoryPoolBase, the bump allocator that serves the calls     *)
(* dlsym makes before libc's functions are known.  Blocks are laid out one *)
(* after the other, each behind a header (Item) that links it to the one   *)
(* before; only the last block's room can be given back, and giving it     *)
(* back also takes the freed blocks before it (the trimming loop, one step *)
(* per item).  Addresses are offsets in the buffer, and size_t arithmetic  *)
(* is modulo W.  Item.next is left out: it is written and never read.      *)
(***************************************************************************)
EXTENDS Naturals, FiniteSets

CONSTANTS
  BufferSize,   \* m_cunBufferSize
  HeaderSize,   \* sizeof(Item)
  W,            \* size_t counts modulo W
  Requests,     \* sizes the callers ask for
  Factors,      \* arguments of calloc
  Null

ASSUME PoolAssumption ==
  /\ BufferSize \in Nat /\ HeaderSize \in Nat \ {0} /\ W \in Nat
  /\ HeaderSize < BufferSize /\ BufferSize < W
  /\ Requests \subseteq 0..(W - 1) /\ Factors \subseteq 0..(W - 1)
  /\ Null \notin Nat

VARIABLES
  item,         \* the headers in the buffer, below the offset
  first, last,  \* m_pFirst, m_pLast
  offset,       \* m_unOffset
  cursor, real, \* pItem and unRealPtrOffset of the trimming loop; a null
                \* real means that no call is in the loop
  live,         \* ghost: the blocks the callers hold, with the size they
                \* asked for
  asserted      \* ghost: an assert has failed

vars == <<item, first, last, offset, cursor, real, live, asserted>>

Offsets == 0..(BufferSize - 1)
Header == [count : 0..(W - 1), isInUse : BOOLEAN, prev : Offsets \union {Null}]

PoolTypeOK ==
  /\ DOMAIN item \subseteq Offsets /\ \A o \in DOMAIN item : item[o] \in Header
  /\ first \in Offsets \union {Null} /\ last \in Offsets \union {Null}
  /\ offset \in Offsets
  /\ cursor \in Offsets \union {Null} /\ real \in Offsets \union {Null}
  /\ live \subseteq [at : Offsets, count : Nat]
  /\ asserted \in BOOLEAN

Init ==
  /\ item = << >>
  /\ first = Null /\ last = Null /\ offset = 0
  /\ cursor = Null /\ real = Null
  /\ live = {} /\ asserted = FALSE

Idle == real = Null /\ ~asserted

-----------------------------------------------------------------------------
(* A definition called Mutant... is a slip the code could have in the        *)
(* definition after it; the specification never uses it.                     *)

\* Mutant: the header is counted twice.
MutantEndOf(o) == (o + 2 * HeaderSize + item[o].count) % W

\* The offset right behind the block at o, as its header has it.
EndOf(o) == (o + HeaderSize + item[o].count) % W

\* Mutant: the header is not counted.
MutantFits(c) == ((c + offset) % W) < BufferSize

\* Alloc's test that c bytes and a header fit above the offset.
Fits(c) == ((((c + HeaderSize) % W) + offset) % W) < BufferSize

\* Alloc appends the block to headers h.
Append(h, c) ==
  /\ item' = [o \in DOMAIN h \union {offset} |->
                IF o = offset
                THEN [count |-> c, isInUse |-> TRUE, prev |-> last]
                ELSE h[o]]
  /\ first' = (IF last = Null THEN offset ELSE first)
  /\ last' = offset
  /\ offset' = (offset + ((c + HeaderSize) % W)) % W

\* Mutant: the freed block stays marked.
MutantFreed(o) == item

\* The headers after the block at o, not the last one, was given back.
Freed(o) == [item EXCEPT ![o].isInUse = FALSE]

\* The offset goes back to o: the headers from there on mean nothing.
BackTo(o) ==
  /\ offset' = o
  /\ item' = [x \in {y \in DOMAIN item : y < o} |-> item[x]]

\* The pool is empty again.
Reset == first' = Null /\ last' = Null /\ BackTo(0)

\* Mutant: the offset goes back to the start of the block that stays.
MutantTop(o) == cursor

\* Where the trimming loop puts the offset.
Top(o) == o

\* Mutant: the loop does not move.
MutantStepBack == real' = cursor /\ cursor' = cursor

\* The trimming loop passes a freed item.
StepBack == real' = cursor /\ cursor' = item[cursor].prev

\* MemoryPoolBase::DeallocCheckedMemory up to its loop.
DeallocCheckedMemory(o) ==
  \/ /\ EndOf(o) = offset /\ o = first
     /\ Reset
     /\ UNCHANGED <<cursor, real, asserted>>
  \/ /\ EndOf(o) = offset /\ o # first
     /\ cursor' = item[o].prev /\ real' = o
     /\ UNCHANGED <<item, first, last, offset, asserted>>
  \/ /\ EndOf(o) < offset
     /\ item' = Freed(o)
     /\ UNCHANGED <<first, last, offset, cursor, real, asserted>>
  \/ /\ EndOf(o) > offset
     /\ asserted' = TRUE
     /\ UNCHANGED <<item, first, last, offset, cursor, real>>

-----------------------------------------------------------------------------
\* The block a caller of Alloc(c) asked for with size asked holds.
Take(asked) == live' = live \union {[at |-> offset, count |-> asked]}

\* MemoryPoolBase::Alloc, and Realloc of a null pointer.
Alloc ==
  /\ Idle
  /\ \E c \in Requests : Fits(c) /\ Append(item, c) /\ Take(c)
  /\ UNCHANGED <<cursor, real, asserted>>

\* MemoryPoolBase::Calloc: the product is a size_t, too.
Calloc ==
  /\ Idle
  /\ \E n, m \in Factors :
       LET c == (n * m) % W IN Fits(c) /\ Append(item, c) /\ Take(n * m)
  /\ UNCHANGED <<cursor, real, asserted>>

\* The block b is given back.
GiveBack(b) == DeallocCheckedMemory(b.at) /\ live' = live \ {b}

\* MemoryPoolBase::Dealloc, and Realloc to 0.
Dealloc == Idle /\ \E b \in live : GiveBack(b)

\* One turn of the trimming loop.
Trim ==
  /\ real # Null
  /\ \/ /\ cursor = Null
        /\ BackTo(Top(real)) /\ real' = Null
        /\ UNCHANGED <<first, last, cursor>>
     \/ /\ cursor # Null /\ item[cursor].isInUse
        /\ last' = cursor
        /\ BackTo(Top(real)) /\ real' = Null /\ cursor' = Null
        /\ UNCHANGED first
     \/ /\ cursor # Null /\ ~item[cursor].isInUse /\ cursor = first
        /\ Reset /\ real' = Null /\ cursor' = Null
     \/ /\ cursor # Null /\ ~item[cursor].isInUse /\ cursor # first
        /\ StepBack
        /\ UNCHANGED <<item, first, last, offset>>
  /\ UNCHANGED <<live, asserted>>

\* The offset after the last block, at o, took c bytes.
Stretched(o, c) == (EndOf(o) + c + W - item[o].count) % W

\* The block b stays as it is when it is to be resized to c.
Refuses(b, c) ==
  \/ c = item[b.at].count
  \/ EndOf(b.at) = offset /\ Stretched(b.at, c) >= BufferSize

\* The block b is resized to c.  The last block changes its size in place or not
\* at all; another one is freed and the new block appended, without its contents,
\* and it is gone when the new one does not fit.
Resize(b, c) ==
  LET o == b.at
  IN
  /\ c # item[o].count
  /\ \/ /\ EndOf(o) = offset /\ Stretched(o, c) < BufferSize
        /\ offset' = Stretched(o, c)
        /\ item' = [item EXCEPT ![o].count = c]
        /\ live' = (live \ {b}) \union {[at |-> o, count |-> c]}
        /\ UNCHANGED <<first, last, asserted>>
     \/ /\ EndOf(o) < offset /\ Fits(c)
        /\ Append(Freed(o), c)
        /\ live' = (live \ {b}) \union {[at |-> offset, count |-> c]}
        /\ UNCHANGED asserted
     \/ /\ EndOf(o) < offset /\ ~Fits(c)
        /\ item' = Freed(o) /\ live' = live \ {b}
        /\ UNCHANGED <<first, last, offset, asserted>>
     \/ /\ EndOf(o) > offset
        /\ asserted' = TRUE
        /\ UNCHANGED <<item, first, last, offset, live>>
  /\ UNCHANGED <<cursor, real>>

\* MemoryPoolBase::Realloc.
Realloc == Idle /\ \E b \in live, c \in Requests \ {0} : Resize(b, c)

Next == Alloc \/ Calloc \/ Dealloc \/ Realloc \/ Trim

\* The loop runs on; the callers owe nothing.
Spec == Init /\ [][Next]_vars /\ WF_vars(Trim)

-----------------------------------------------------------------------------
(* Properties. *)

\* The bytes of a block the caller holds, its header included.
Bytes(b) == b.at .. (b.at + HeaderSize + b.count - 1)

\* Whatever was freed, resized and trimmed, the blocks in the callers' hands
\* lie inside the buffer and never share a byte with one another's header or
\* contents.
BlocksDisjoint ==
  /\ \A b \in live : Bytes(b) \subseteq Offsets
  /\ \A b, c \in live : b # c => Bytes(b) \cap Bytes(c) = {}

\* Between calls the offset is right behind the topmost block in use, so that
\* all room above it can be allocated, and an empty pool is whole again.
NothingStranded ==
  Idle => /\ live = {} => offset = 0
          /\ live # {} =>
               \E b \in live : /\ offset = b.at + HeaderSize + b.count
                               /\ \A c \in live : c.at <= b.at

\* Between calls the headers form a chain without gaps from the last block, which
\* is in use, down to the first one at 0: what the trimming loop walks.  They
\* say in use, and the size, of exactly the blocks in the callers' hands.
Chained ==
  Idle =>
    /\ DOMAIN item = {} <=> first = Null
    /\ first = Null <=> last = Null
    /\ last # Null => first = 0 /\ item[last].isInUse /\ EndOf(last) = offset
    /\ \A o \in DOMAIN item :
         /\ item[o].isInUse <=> [at |-> o, count |-> item[o].count] \in live
         /\ IF o = first THEN item[o].prev = Null
            ELSE /\ item[o].prev \in DOMAIN item /\ item[o].prev < o
                 /\ EndOf(item[o].prev) = o
    /\ {b.at : b \in live} \subseteq DOMAIN item

\* assert(ofsetAfterAlloc < m_unOffset) holds for every caller that passes only
\* blocks it holds.
NoPoolAssertFails == ~asserted

=============================================================================
