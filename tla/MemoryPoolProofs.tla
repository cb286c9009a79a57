-------------------------- MODULE MemoryPoolProofs --------------------------
(* Theorems about MemoryPool: as long as no size comes near the end of       *)
(* size_t, the pool is sound, for a buffer, headers and requests of any size.*)
EXTENDS MemoryPool, Integers, TLAPS

\* The sizes that reach Alloc.
Sizes == Requests \union {n * m : n \in Factors, m \in Factors}

\* No sum of Alloc's, Calloc's or Realloc's wraps around.
Small == \A c \in Sizes : c \in Nat /\ c + HeaderSize + BufferSize <= W

-----------------------------------------------------------------------------
(* The invariant, over headers h.  Every block ends at or below the offset n, *)
(* and no two share a byte; every block but the first, which is at 0, starts  *)
(* where the one its header names ends.  Below r the headers in use are those *)
(* of the blocks lv that the callers hold: r is the offset, except in the     *)
(* trimming loop, which has found everything from r on to be free.            *)

EndAt(h, o) == o + HeaderSize + h[o].count

Linked(h, f, o) ==
  IF o = f THEN h[o].prev = Null
  ELSE h[o].prev \in DOMAIN h /\ h[o].prev < o /\ EndAt(h, h[o].prev) = o

Base(h, f, n) ==
  /\ DOMAIN h \subseteq Offsets /\ h \in [DOMAIN h -> Header]
  /\ n \in Offsets
  /\ f \in {0, Null}
  /\ f = Null => DOMAIN h = {} /\ n = 0
  /\ f = 0 => 0 \in DOMAIN h
  /\ \A o \in DOMAIN h : EndAt(h, o) <= n /\ Linked(h, f, o)
  /\ \A o, p \in DOMAIN h : o < p => EndAt(h, o) <= p

Owners(h, lv, r) ==
  /\ \A b \in lv : /\ b \in [at : Offsets, count : Nat]
                   /\ b.at \in DOMAIN h /\ b.at < r
                   /\ b.count = h[b.at].count /\ h[b.at].isInUse
  /\ \A o \in DOMAIN h : o < r /\ h[o].isInUse =>
       [at |-> o, count |-> h[o].count] \in lv

\* Between calls.
Sound(h, f, l, n, lv) ==
  /\ Base(h, f, n) /\ Owners(h, lv, n)
  /\ f = Null <=> l = Null
  /\ l # Null => l \in DOMAIN h /\ h[l].isInUse /\ EndAt(h, l) = n

\* In the loop.
Walk(h, f, n, lv, r, c) ==
  /\ Base(h, f, n) /\ Owners(h, lv, r)
  /\ r \in DOMAIN h /\ r # f /\ c = h[r].prev

PoolInv ==
  /\ asserted = FALSE /\ last \in Offsets \union {Null}
  /\ IF real = Null
     THEN cursor = Null /\ Sound(item, first, last, offset, live)
     ELSE Walk(item, first, offset, live, real, cursor)

-----------------------------------------------------------------------------
(* Arithmetic modulo W. *)

LEMMA ModSmall ==
  ASSUME NEW w \in Nat, NEW x \in Nat, x < w
  PROVE  x % w = x
OBVIOUS

LEMMA ModOver ==
  ASSUME NEW w \in Nat, NEW x \in Nat, x < w
  PROVE  (x + w) % w = x
OBVIOUS

-----------------------------------------------------------------------------
\* What Base says of one block.
LEMMA BaseFacts ==
  ASSUME NEW h, NEW f, NEW n, Base(h, f, n)
  PROVE  /\ n \in Nat /\ n < BufferSize
         /\ BufferSize \in Nat /\ HeaderSize \in Nat \ {0} /\ W \in Nat
         /\ BufferSize < W /\ Null \notin Nat
         /\ DOMAIN h \subseteq Offsets /\ h \in [DOMAIN h -> Header]
         /\ \A o \in DOMAIN h :
              /\ o \in Nat /\ h[o].count \in Nat /\ h[o].isInUse \in BOOLEAN
              /\ EndAt(h, o) \in Nat /\ o + HeaderSize <= EndAt(h, o)
              /\ o < EndAt(h, o) /\ EndAt(h, o) <= n /\ o < n
<1>1. /\ n \in Nat /\ n < BufferSize
      /\ BufferSize \in Nat /\ HeaderSize \in Nat \ {0} /\ W \in Nat
      /\ BufferSize < W /\ Null \notin Nat
  BY PoolAssumption DEF Base, Offsets
<1>2. DOMAIN h \subseteq Offsets /\ h \in [DOMAIN h -> Header]
  BY DEF Base
<1>3. ASSUME NEW o \in DOMAIN h
      PROVE  /\ o \in Nat /\ h[o].count \in Nat /\ h[o].isInUse \in BOOLEAN
             /\ EndAt(h, o) \in Nat /\ o + HeaderSize <= EndAt(h, o)
             /\ o < EndAt(h, o) /\ EndAt(h, o) <= n /\ o < n
  <2>1. o \in Nat
    BY <1>1, <1>2 DEF Offsets
  <2>2. h[o].count \in Nat /\ h[o].isInUse \in BOOLEAN
    BY <1>1, <1>2 DEF Header
  <2>3. EndAt(h, o) = o + HeaderSize + h[o].count /\ EndAt(h, o) <= n
    BY DEF Base, EndAt
  <2> QED
    BY <1>1, <2>1, <2>2, <2>3
<1> QED
  BY <1>1, <1>2, <1>3

\* The sums of the code, for a block that ends at or below the offset.
LEMMA EndOfIsEnd ==
  ASSUME NEW o \in DOMAIN item, Base(item, first, offset)
  PROVE  EndOf(o) = EndAt(item, o)
<1>1. o \in Nat /\ item[o].count \in Nat /\ EndAt(item, o) <= offset /\ offset < W
  BY PoolAssumption DEF Base, Offsets, Header
<1>2. EndAt(item, o) \in Nat /\ EndAt(item, o) < W /\ W \in Nat
  BY <1>1, PoolAssumption DEF EndAt, Base, Offsets
<1> QED
  BY <1>2, ModSmall DEF EndOf, EndAt

LEMMA StretchedIsSum ==
  ASSUME NEW o \in DOMAIN item, Base(item, first, offset),
         NEW c \in Nat, c + HeaderSize + BufferSize <= W
  PROVE  Stretched(o, c) = o + HeaderSize + c
<1>1. /\ o \in Nat /\ o < BufferSize /\ item[o].count \in Nat
      /\ W \in Nat /\ HeaderSize \in Nat /\ BufferSize \in Nat
  BY PoolAssumption DEF Base, Offsets, Header
<1>2. o + HeaderSize + c \in Nat /\ o + HeaderSize + c < W
  BY <1>1
<1>3. EndOf(o) + c + W - item[o].count = (o + HeaderSize + c) + W
  BY <1>1, EndOfIsEnd DEF EndAt
<1> QED
  BY <1>1, <1>2, <1>3, ModOver DEF Stretched

LEMMA FitsIsSum ==
  ASSUME NEW c \in Nat, c + HeaderSize + BufferSize <= W, offset \in Offsets
  PROVE  /\ Fits(c) <=> c + HeaderSize + offset < BufferSize
         /\ (offset + ((c + HeaderSize) % W)) % W = c + HeaderSize + offset
<1>1. /\ W \in Nat /\ HeaderSize \in Nat \ {0} /\ BufferSize \in Nat /\ offset \in Nat
      /\ offset < BufferSize
  BY PoolAssumption DEF Offsets
<1>2. (c + HeaderSize) % W = c + HeaderSize
  BY <1>1, ModSmall
<1>3. (c + HeaderSize + offset) % W = c + HeaderSize + offset
  BY <1>1, ModSmall
<1> QED
  BY <1>1, <1>2, <1>3 DEF Fits

-----------------------------------------------------------------------------
(* What the pieces of the code do to sound headers. *)

\* The header of the block at o says that it is free.
LEMMA FreedSound ==
  ASSUME NEW h, NEW f, NEW l, NEW n, NEW lv, Sound(h, f, l, n, lv),
         NEW b \in lv, EndAt(h, b.at) < n
  PROVE  Sound([h EXCEPT ![b.at].isInUse = FALSE], f, l, n, lv \ {b})
<1> DEFINE o == b.at
           g == [h EXCEPT ![o].isInUse = FALSE]
<1>1. /\ o \in DOMAIN h /\ l # o /\ b \in [at : Offsets, count : Nat]
      /\ b.count = h[o].count /\ h \in [DOMAIN h -> Header]
  <2>1. /\ o \in DOMAIN h /\ b \in [at : Offsets, count : Nat]
        /\ b.count = h[o].count /\ Base(h, f, n)
    BY DEF Sound, Owners
  <2>2. /\ h \in [DOMAIN h -> Header] /\ o \in Nat /\ n \in Nat
        /\ EndAt(h, o) \in Nat /\ Null \notin Nat
    BY <2>1, BaseFacts
  <2>3. l = Null \/ EndAt(h, l) = n
    BY DEF Sound
  <2>4. l # o
    BY <2>2, <2>3
  <2> QED
    BY <2>1, <2>2, <2>4
<1>2. /\ DOMAIN g = DOMAIN h /\ g \in [DOMAIN g -> Header]
      /\ \A p \in DOMAIN h : g[p].count = h[p].count /\ g[p].prev = h[p].prev
      /\ \A p \in DOMAIN h : p # o => g[p] = h[p]
      /\ g[o].isInUse = FALSE
  BY <1>1 DEF Header
<1> HIDE DEF g
<1>3. \A p \in DOMAIN h : EndAt(g, p) = EndAt(h, p)
  BY <1>2 DEF EndAt
<1>4. Base(g, f, n)
  BY <1>2, <1>3 DEF Sound, Base, Linked
<1>5. ASSUME NEW c \in lv \ {b}
      PROVE  c.at # o
  <2>1. c \in [at : Offsets, count : Nat] /\ c.count = h[c.at].count
    BY DEF Sound, Owners
  <2> QED
    BY <1>1, <2>1
<1>6. Owners(g, lv \ {b}, n)
  BY <1>1, <1>2, <1>5 DEF Sound, Owners
<1>7. l # Null => l \in DOMAIN g /\ g[l].isInUse /\ EndAt(g, l) = n
  BY <1>1, <1>2, <1>3 DEF Sound
<1> QED
  BY <1>4, <1>6, <1>7 DEF Sound, g

\* What Append and a Resize in place make of headers h, m_pFirst and the callers'
\* blocks.
Appended(h, l, n, c) ==
  [o \in DOMAIN h \union {n} |->
     IF o = n THEN [count |-> c, isInUse |-> TRUE, prev |-> l] ELSE h[o]]
First(f, l, n) == IF l = Null THEN n ELSE f
With(lv, o, c) == lv \union {[at |-> o, count |-> c]}
Recounted(h, o, c) == [h EXCEPT ![o].count = c]

\* Alloc appends a block of c bytes at the offset n.
LEMMA AppendSound ==
  ASSUME NEW h, NEW f, NEW l, NEW n, NEW lv, Sound(h, f, l, n, lv),
         NEW c \in Nat, c + HeaderSize + n < BufferSize
  PROVE  Sound(Appended(h, l, n, c), First(f, l, n), n, c + HeaderSize + n,
               With(lv, n, c))
<1> DEFINE new == [count |-> c, isInUse |-> TRUE, prev |-> l]
           g   == Appended(h, l, n, c)
           f2  == First(f, l, n)
           n2  == c + HeaderSize + n
           b   == [at |-> n, count |-> c]
           lv2 == lv \union {b}
<1>1. Base(h, f, n)
  BY DEF Sound
<1>2. /\ n \in Nat /\ n < BufferSize
      /\ BufferSize \in Nat /\ HeaderSize \in Nat \ {0} /\ W \in Nat
      /\ BufferSize < W /\ Null \notin Nat
      /\ DOMAIN h \subseteq Offsets /\ h \in [DOMAIN h -> Header]
  BY <1>1, BaseFacts
<1>3. \A o \in DOMAIN h : o \in Nat /\ EndAt(h, o) \in Nat /\ EndAt(h, o) <= n /\ o < n
  BY <1>1, BaseFacts
<1>4. n2 \in Offsets /\ n < n2 /\ n2 \in Nat /\ n \in Offsets
  BY <1>2 DEF Offsets
<1>5. l \in DOMAIN h \union {Null} /\ (l = Null => DOMAIN h = {} /\ n = 0)
  BY DEF Sound, Base
<1>6. new \in Header
  <2>1. c \in 0..(W - 1)
    BY <1>2
  <2>2. l \in Offsets \union {Null}
    BY <1>2, <1>5
  <2> QED
    BY <2>1, <2>2 DEF Header
<1>7. /\ DOMAIN g = DOMAIN h \union {n} /\ g[n] = new
      /\ \A o \in DOMAIN h : g[o] = h[o]
      /\ g \in [DOMAIN g -> Header]
  BY <1>2, <1>3, <1>6 DEF Appended
<1> HIDE DEF g, f2, n2
<1>8. EndAt(g, n) = n2 /\ \A o \in DOMAIN h : EndAt(g, o) = EndAt(h, o)
  <2>1. EndAt(g, n) = n + HeaderSize + c
    BY <1>7 DEF EndAt
  <2> QED
    BY <1>2, <1>7, <2>1 DEF EndAt, n2
<1>9. /\ l = Null => f2 = n /\ f2 = 0
      /\ l # Null => f2 = f /\ f = 0 /\ 0 \in DOMAIN h
  BY <1>5 DEF f2, First, Sound, Base
<1>10. Linked(g, f2, n)
  <2>1. CASE l = Null
    BY <1>7, <1>9, <2>1 DEF Linked
  <2>2. CASE l # Null
    <3>1. l \in DOMAIN h /\ EndAt(h, l) = n /\ l < n /\ 0 < n
      BY <1>3, <1>5, <1>9, <2>2 DEF Sound
    <3>2. g[n].prev = l /\ l \in DOMAIN g /\ EndAt(g, l) = n /\ n # f2
      BY <1>2, <1>7, <1>8, <1>9, <2>2, <3>1
    <3> QED
      BY <3>1, <3>2 DEF Linked
  <2> QED
    BY <2>1, <2>2
<1>11. ASSUME NEW o \in DOMAIN h
       PROVE  Linked(g, f2, o)
  <2>1. f2 = f /\ Linked(h, f, o)
    BY <1>1, <1>5, <1>9, <1>11 DEF Base
  <2> QED
    BY <1>7, <1>8, <2>1 DEF Linked
<1>12. ASSUME NEW o \in DOMAIN g, NEW p \in DOMAIN g, o < p
       PROVE  EndAt(g, o) <= p
  <2>1. CASE o = n
    BY <1>2, <1>3, <1>7, <1>12, <2>1
  <2>2. CASE o \in DOMAIN h /\ p = n
    BY <1>3, <1>8, <2>2
  <2>3. CASE o \in DOMAIN h /\ p \in DOMAIN h
    BY <1>1, <1>8, <1>12, <2>3 DEF Base
  <2> QED
    BY <1>7, <2>1, <2>2, <2>3
<1>13. ASSUME NEW o \in DOMAIN g
       PROVE  EndAt(g, o) <= n2 /\ Linked(g, f2, o) /\ o \in Offsets
  <2>1. CASE o = n
    BY <1>4, <1>8, <1>10, <2>1
  <2>2. CASE o \in DOMAIN h
    BY <1>2, <1>3, <1>4, <1>8, <1>11, <2>2
  <2> QED
    BY <1>7, <2>1, <2>2
<1>14. f2 = 0 /\ 0 \in DOMAIN g /\ f2 # Null
  BY <1>2, <1>7, <1>9
<1>15. Base(g, f2, n2)
  BY <1>4, <1>7, <1>12, <1>13, <1>14 DEF Base
<1>16. Owners(g, lv2, n2)
  <2>1. b \in [at : Offsets, count : Nat] /\ b.at = n /\ b.count = c
    BY <1>4
  <2>2. ASSUME NEW x \in lv
        PROVE  /\ x \in [at : Offsets, count : Nat] /\ x.at \in DOMAIN g
               /\ x.at < n2 /\ x.count = g[x.at].count /\ g[x.at].isInUse
    <3>1. /\ x \in [at : Offsets, count : Nat] /\ x.at \in DOMAIN h
          /\ x.count = h[x.at].count /\ h[x.at].isInUse
      BY DEF Sound, Owners
    <3> QED
      BY <1>2, <1>3, <1>4, <1>7, <3>1
  <2>3. ASSUME NEW o \in DOMAIN g, g[o].isInUse
        PROVE  [at |-> o, count |-> g[o].count] \in lv2
    <3>1. CASE o = n
      BY <1>7, <3>1
    <3>2. CASE o \in DOMAIN h
      BY <1>3, <1>7, <2>3, <3>2 DEF Sound, Owners
    <3> QED
      BY <1>7, <3>1, <3>2
  <2>4. b.at \in DOMAIN g /\ b.at < n2 /\ b.count = g[b.at].count /\ g[b.at].isInUse
    BY <1>4, <1>7, <2>1
  <2> HIDE DEF b
  <2> QED
    BY <2>1, <2>2, <2>3, <2>4 DEF Owners
<1>17. /\ f2 = Null <=> n = Null
       /\ n \in DOMAIN g /\ g[n].isInUse /\ EndAt(g, n) = n2
  BY <1>2, <1>7, <1>8, <1>14
<1>18. Sound(g, f2, n, n2, lv2)
  BY <1>15, <1>16, <1>17 DEF Sound
<1> QED
  BY <1>18 DEF g, f2, n2, With

\* The last block, with no room used above it, is the topmost one.
LEMMA LastIsTop ==
  ASSUME NEW h, NEW f, NEW n, Base(h, f, n), NEW o \in DOMAIN h, EndAt(h, o) = n,
         NEW p \in DOMAIN h, p # o
  PROVE  p < o /\ EndAt(h, p) <= o
<1>1. /\ o \in Nat /\ p \in Nat /\ EndAt(h, p) <= n /\ EndAt(h, p) \in Nat /\ n \in Nat
      /\ p < EndAt(h, p)
  BY BaseFacts
<1>2. o < p => EndAt(h, o) <= p
  BY DEF Base
<1>3. p < o => EndAt(h, p) <= o
  BY DEF Base
<1> QED
  BY <1>1, <1>2, <1>3

\* Two blocks of the callers' are at different places.
LEMMA OwnersApart ==
  ASSUME NEW h, NEW lv, NEW r, Owners(h, lv, r), NEW b \in lv, NEW x \in lv, x # b
  PROVE  x.at # b.at
BY DEF Owners

\* Realloc changes the size of the last block in place.
LEMMA StretchSound ==
  ASSUME NEW h, NEW f, NEW l, NEW n, NEW lv, Sound(h, f, l, n, lv),
         NEW b \in lv, EndAt(h, b.at) = n,
         NEW c \in Nat, b.at + HeaderSize + c < BufferSize
  PROVE  Sound(Recounted(h, b.at, c), f, l, b.at + HeaderSize + c,
               With(lv \ {b}, b.at, c))
<1> DEFINE o   == b.at
           g   == Recounted(h, o, c)
           n2  == o + HeaderSize + c
           b2  == [at |-> o, count |-> c]
           lv2 == (lv \ {b}) \union {b2}
<1>1. Base(h, f, n) /\ Owners(h, lv, n)
  BY DEF Sound
<1>2. /\ BufferSize \in Nat /\ HeaderSize \in Nat \ {0} /\ W \in Nat
      /\ BufferSize < W /\ Null \notin Nat /\ n \in Nat
      /\ DOMAIN h \subseteq Offsets /\ h \in [DOMAIN h -> Header]
  BY <1>1, BaseFacts
<1>3. /\ o \in DOMAIN h /\ b \in [at : Offsets, count : Nat]
      /\ b.count = h[o].count /\ h[o].isInUse
  BY <1>1 DEF Owners
<1>4. \A p \in DOMAIN h : /\ p \in Nat /\ h[p].count \in Nat /\ EndAt(h, p) <= n
                         /\ EndAt(h, p) \in Nat /\ p < EndAt(h, p)
  BY <1>1, BaseFacts
<1>5. \A p \in DOMAIN h : p # o => p < o /\ EndAt(h, p) <= o
  BY <1>1, <1>3, LastIsTop
<1>6. c \in 0..(W - 1) /\ n2 \in Offsets /\ o < n2 /\ n2 \in Nat
  BY <1>2, <1>3, <1>4 DEF Offsets
<1>7. /\ DOMAIN g = DOMAIN h /\ g = [p \in DOMAIN h |-> g[p]]
      /\ \A p \in DOMAIN h : p # o => g[p] = h[p]
      /\ g[o] = [h[o] EXCEPT !.count = c]
  BY <1>2, <1>3 DEF Recounted
<1> HIDE DEF g
<1>8. g[o].count = c /\ g[o].isInUse /\ g[o].prev = h[o].prev /\ g[o] \in Header
  BY <1>2, <1>3, <1>6, <1>7 DEF Header
<1>9. g \in [DOMAIN g -> Header]
  BY <1>2, <1>7, <1>8
<1> HIDE DEF n2
<1>10. EndAt(g, o) = n2 /\ \A p \in DOMAIN h : p # o => EndAt(g, p) = EndAt(h, p)
  BY <1>7, <1>8 DEF EndAt, n2
<1>11. l = o
  <2>1. l \in DOMAIN h /\ EndAt(h, l) = n
    BY <1>3 DEF Sound, Base
  <2> QED
    BY <1>3, <1>4, <1>5, <2>1
<1>12. ASSUME NEW p \in DOMAIN h
       PROVE  Linked(g, f, p)
  <2>1. Linked(h, f, p) /\ g[p].prev = h[p].prev
    BY <1>1, <1>7, <1>8 DEF Base
  <2>2. CASE p = f
    BY <2>1, <2>2 DEF Linked
  <2>3. CASE p # f
    <3>1. h[p].prev \in DOMAIN h /\ h[p].prev < p /\ EndAt(h, h[p].prev) = p
      BY <2>1, <2>3 DEF Linked
    <3>2. h[p].prev # o
      BY <1>3, <1>4, <1>5, <3>1
    <3>3. EndAt(g, h[p].prev) = p
      BY <1>10, <3>1, <3>2
    <3> QED
      BY <1>7, <2>1, <2>3, <3>1, <3>3 DEF Linked
  <2> QED
    BY <2>2, <2>3
<1>13. ASSUME NEW p \in DOMAIN g, NEW q \in DOMAIN g, p < q
       PROVE  EndAt(g, p) <= q
  <2>1. p # o
    BY <1>4, <1>5, <1>7, <1>13
  <2> QED
    BY <1>1, <1>7, <1>10, <1>13, <2>1 DEF Base
<1>14. ASSUME NEW p \in DOMAIN g
       PROVE  EndAt(g, p) <= n2
  <2>1. CASE p = o
    BY <1>6, <1>10, <2>1
  <2>2. CASE p # o
    <3>1. /\ EndAt(h, p) <= o /\ EndAt(g, p) = EndAt(h, p)
          /\ EndAt(h, p) \in Nat /\ o \in Nat
      BY <1>3, <1>4, <1>5, <1>7, <1>10, <2>2
    <3> QED
      BY <1>6, <3>1
  <2> QED
    BY <2>1, <2>2
<1>15. Base(g, f, n2)
  BY <1>1, <1>3, <1>6, <1>7, <1>9, <1>12, <1>13, <1>14 DEF Base
<1>16. ASSUME NEW x \in lv \ {b}
       PROVE  /\ x \in [at : Offsets, count : Nat] /\ x.at \in DOMAIN g
              /\ x.at < n2 /\ x.count = g[x.at].count /\ g[x.at].isInUse
  <2>1. /\ x \in [at : Offsets, count : Nat] /\ x.at \in DOMAIN h
        /\ x.count = h[x.at].count /\ h[x.at].isInUse
    BY <1>1 DEF Owners
  <2>2. x.at # o
    BY <1>1, OwnersApart
  <2>3. x.at < o /\ x.at \in Nat
    BY <1>4, <1>5, <2>1, <2>2
  <2> QED
    BY <1>3, <1>4, <1>6, <1>7, <2>1, <2>2, <2>3
<1>17. /\ b2 \in [at : Offsets, count : Nat] /\ b2.at \in DOMAIN g /\ b2.at < n2
       /\ b2.count = g[b2.at].count /\ g[b2.at].isInUse
  BY <1>3, <1>6, <1>7, <1>8
<1>18. ASSUME NEW p \in DOMAIN g, g[p].isInUse
       PROVE  [at |-> p, count |-> g[p].count] \in lv2
  <2>1. CASE p = o
    BY <1>8, <2>1
  <2>2. CASE p # o
    <3>1. [at |-> p, count |-> h[p].count] \in lv
      <4>1. p \in DOMAIN h /\ h[p].isInUse /\ p < n
        BY <1>1, <1>7, <1>18, <2>2, BaseFacts
      <4> QED
        BY <1>1, <4>1 DEF Owners
    <3>2. [at |-> p, count |-> h[p].count] # b
      BY <2>2
    <3> QED
      BY <1>7, <2>2, <3>1, <3>2
  <2> QED
    BY <2>1, <2>2
<1>19. Owners(g, lv2, n2)
  <2> HIDE DEF b2
  <2> QED
    BY <1>16, <1>17, <1>18 DEF Owners
<1>20. f = Null <=> l = Null
  BY DEF Sound
<1>21. Sound(g, f, l, n2, lv2)
  BY <1>3, <1>7, <1>8, <1>10, <1>11, <1>15, <1>19, <1>20 DEF Sound
<1> QED
  BY <1>21 DEF g, n2, With

-----------------------------------------------------------------------------
(* The trimming loop. *)

\* Nothing is left of an empty pool.
LEMMA EmptySound ==
  ASSUME NEW g, DOMAIN g = {}, g \in [DOMAIN g -> Header]
  PROVE  Sound(g, Null, Null, 0, {})
BY PoolAssumption DEF Sound, Base, Owners, Offsets

\* The headers below r.
Below(h, r) == [x \in {y \in DOMAIN h : y < r} |-> h[x]]

\* No block of the callers' starts behind one that reaches up to r.
LEMMA NoOwnerAbove ==
  ASSUME NEW h, NEW f, NEW n, NEW lv, NEW r, Base(h, f, n), Owners(h, lv, r),
         NEW o \in DOMAIN h, EndAt(h, o) >= r, r \in Nat, NEW x \in lv
  PROVE  x.at \in DOMAIN h /\ x.at <= o
<1>1. x.at \in DOMAIN h /\ x.at < r
  BY DEF Owners
<1>2. o < x.at => EndAt(h, o) <= x.at
  BY <1>1 DEF Base
<1>3. o \in Nat /\ x.at \in Nat /\ EndAt(h, o) \in Nat
  BY <1>1, BaseFacts
<1> QED
  BY <1>1, <1>2, <1>3

\* The block b, the last one, is given back: the loop starts.
LEMMA WalkStarts ==
  ASSUME NEW h, NEW f, NEW l, NEW n, NEW lv, Sound(h, f, l, n, lv),
         NEW b \in lv, EndAt(h, b.at) = n, b.at # f
  PROVE  Walk(h, f, n, lv \ {b}, b.at, h[b.at].prev)
<1>1. Base(h, f, n) /\ Owners(h, lv, n) /\ b.at \in DOMAIN h
  BY DEF Sound, Owners
<1>2. ASSUME NEW x \in lv \ {b}
      PROVE  /\ x \in [at : Offsets, count : Nat] /\ x.at \in DOMAIN h
             /\ x.at < b.at /\ x.count = h[x.at].count /\ h[x.at].isInUse
  <2>1. /\ x \in [at : Offsets, count : Nat] /\ x.at \in DOMAIN h
        /\ x.count = h[x.at].count /\ h[x.at].isInUse
    BY <1>1 DEF Owners
  <2>2. x.at # b.at
    BY <1>1, OwnersApart
  <2> QED
    BY <1>1, <2>1, <2>2, LastIsTop
<1>3. ASSUME NEW o \in DOMAIN h, o < b.at, h[o].isInUse
      PROVE  [at |-> o, count |-> h[o].count] \in lv \ {b}
  <2>1. o < n /\ b.at \in Nat /\ o \in Nat
    BY <1>1, BaseFacts
  <2> QED
    BY <1>1, <1>3, <2>1 DEF Owners
<1>4. Owners(h, lv \ {b}, b.at)
  BY <1>2, <1>3 DEF Owners
<1> QED
  BY <1>1, <1>4 DEF Walk

\* The loop passes a free block.
LEMMA WalkSteps ==
  ASSUME NEW h, NEW f, NEW n, NEW lv, NEW r, NEW c, Walk(h, f, n, lv, r, c),
         ~h[c].isInUse, c # f
  PROVE  Walk(h, f, n, lv, c, h[c].prev)
<1>1. /\ Base(h, f, n) /\ Owners(h, lv, r) /\ r \in DOMAIN h /\ Linked(h, f, r)
      /\ r # f /\ c = h[r].prev
  BY DEF Walk, Base
<1>2. c \in DOMAIN h /\ c < r /\ EndAt(h, c) = r
  BY <1>1 DEF Linked
<1>3. r \in Nat /\ c \in Nat
  BY <1>1, <1>2, BaseFacts
<1>4. ASSUME NEW x \in lv
      PROVE  x.at < c
  <2>1. x.at \in DOMAIN h /\ x.at <= c
    BY <1>1, <1>2, <1>3, NoOwnerAbove
  <2>2. x.at # c
    BY <1>1 DEF Owners
  <2> QED
    BY <1>1, <1>3, <2>1, <2>2, BaseFacts
<1>5. ASSUME NEW o \in DOMAIN h, o < c
      PROVE  o < r
  BY <1>1, <1>2, <1>3, <1>5, BaseFacts
<1>6. Owners(h, lv, c)
  BY <1>1, <1>4, <1>5 DEF Owners
<1> QED
  BY <1>1, <1>2, <1>6 DEF Walk

\* The loop comes to the first block, which is free: the callers hold nothing.
LEMMA WalkEmpties ==
  ASSUME NEW h, NEW f, NEW n, NEW lv, NEW r, NEW c, Walk(h, f, n, lv, r, c),
         ~h[c].isInUse, c = f
  PROVE  lv = {}
<1>1. /\ Base(h, f, n) /\ Owners(h, lv, r) /\ r \in DOMAIN h /\ Linked(h, f, r)
      /\ r # f /\ c = h[r].prev
  BY DEF Walk, Base
<1>2. c \in DOMAIN h /\ c < r /\ EndAt(h, c) = r /\ c = 0
  BY <1>1 DEF Linked, Base
<1>3. r \in Nat
  BY <1>1, BaseFacts
<1>4. ASSUME NEW x \in lv
      PROVE  FALSE
  <2>1. x.at \in DOMAIN h /\ x.at <= c /\ h[x.at].isInUse
    <3>1. EndAt(h, c) >= r
      BY <1>2, <1>3
    <3>2. h[x.at].isInUse
      BY <1>1 DEF Owners
    <3> QED
      BY <1>1, <1>2, <1>3, <3>1, <3>2, NoOwnerAbove
  <2>2. x.at \in Nat
    BY <1>1, <2>1, BaseFacts
  <2> QED
    BY <1>2, <2>1, <2>2
<1> QED
  BY <1>4

\* The loop comes to a block in use, which becomes the last one.
LEMMA WalkEnds ==
  ASSUME NEW h, NEW f, NEW n, NEW lv, NEW r, NEW c, Walk(h, f, n, lv, r, c),
         h[c].isInUse
  PROVE  Sound(Below(h, r), f, c, r, lv)
<1> DEFINE g == Below(h, r)
<1>1. /\ Base(h, f, n) /\ Owners(h, lv, r) /\ r \in DOMAIN h /\ Linked(h, f, r)
      /\ r # f /\ c = h[r].prev
  BY DEF Walk, Base
<1>2. c \in DOMAIN h /\ c < r /\ EndAt(h, c) = r /\ r \in Offsets
  BY <1>1 DEF Linked, Base
<1>3. /\ r \in Nat /\ c \in Nat /\ 0 < r /\ Null \notin Nat
      /\ h \in [DOMAIN h -> Header]
  BY <1>1, <1>2, BaseFacts
<1>4. /\ DOMAIN g = {y \in DOMAIN h : y < r}
      /\ \A o \in DOMAIN g : g[o] = h[o] /\ EndAt(g, o) = EndAt(h, o)
  BY DEF Below, EndAt
<1>5. g \in [DOMAIN g -> Header]
  BY <1>3 DEF Below
<1> HIDE DEF g
<1>6. f = 0 /\ 0 \in DOMAIN g
  BY <1>1, <1>3, <1>4 DEF Base
<1>7. ASSUME NEW o \in DOMAIN g
      PROVE  EndAt(g, o) <= r /\ Linked(g, f, o)
  <2>1. o \in DOMAIN h /\ o < r /\ EndAt(h, o) <= r /\ Linked(h, f, o) /\ o \in Nat
    BY <1>1, <1>4, BaseFacts DEF Base
  <2>2. CASE o = f
    BY <1>4, <2>1, <2>2 DEF Linked
  <2>3. CASE o # f
    <3>1. h[o].prev \in DOMAIN h /\ h[o].prev < o /\ EndAt(h, h[o].prev) = o
      BY <2>1, <2>3 DEF Linked
    <3>2. h[o].prev \in DOMAIN g
      BY <1>1, <1>3, <1>4, <2>1, <3>1, BaseFacts
    <3> QED
      BY <1>4, <2>1, <2>3, <3>1, <3>2 DEF Linked
  <2> QED
    BY <2>2, <2>3
<1>8. \A o, p \in DOMAIN g : o < p => EndAt(g, o) <= p
  BY <1>1, <1>4 DEF Base
<1>9. Base(g, f, r)
  BY <1>1, <1>2, <1>3, <1>4, <1>5, <1>6, <1>7, <1>8 DEF Base
<1>10. Owners(g, lv, r)
  BY <1>1, <1>4 DEF Owners
<1>11. c \in DOMAIN g /\ g[c].isInUse /\ EndAt(g, c) = r /\ c # Null /\ f # Null
  BY <1>2, <1>3, <1>4, <1>6
<1>12. Sound(g, f, c, r, lv)
  BY <1>9, <1>10, <1>11 DEF Sound
<1> QED
  BY <1>12 DEF g

-----------------------------------------------------------------------------
(* The actions. *)

\* Between calls nothing but the layout and the owners matters.
LEMMA IdleIsSound ==
  ASSUME PoolInv, Idle
  PROVE  Sound(item, first, last, offset, live) /\ cursor = Null /\ real = Null
BY DEF PoolInv, Idle

LEMMA SoundIsIdle ==
  ASSUME Sound(item, first, last, offset, live)', cursor' = Null, real' = Null,
         asserted' = FALSE
  PROVE  PoolInv'
<1>1. last' \in Offsets \union {Null}
  BY DEF Sound, Base
<1> QED
  BY <1>1 DEF PoolInv

\* What Alloc and Calloc share: c bytes are handed out.
LEMMA AppendInv ==
  ASSUME PoolInv, Idle, NEW c \in Nat, c + HeaderSize + BufferSize <= W, Fits(c),
         Append(item, c), Take(c), UNCHANGED <<cursor, real, asserted>>
  PROVE  PoolInv'
<1>1. Sound(item, first, last, offset, live) /\ cursor = Null /\ real = Null
  BY IdleIsSound
<1>2. offset \in Offsets
  BY <1>1 DEF Sound, Base
<1>3. c + HeaderSize + offset < BufferSize /\ offset' = c + HeaderSize + offset
  BY <1>2, FitsIsSum DEF Append
<1>4. Sound(Appended(item, last, offset, c), First(first, last, offset), offset,
            c + HeaderSize + offset, With(live, offset, c))
  BY <1>1, <1>3, AppendSound
<1>5. /\ item' = Appended(item, last, offset, c) /\ last' = offset
      /\ first' = First(first, last, offset) /\ live' = With(live, offset, c)
  BY DEF Append, Take, Appended, First, With
<1>6. Sound(item', first', last', offset', live')
  BY <1>3, <1>4, <1>5
<1>7. asserted' = FALSE /\ cursor' = Null /\ real' = Null
  BY <1>1 DEF PoolInv
<1> QED
  BY <1>6, <1>7, SoundIsIdle

LEMMA AllocInv ==
  ASSUME Small, PoolInv, Alloc
  PROVE  PoolInv'
BY AppendInv DEF Alloc, Small, Sizes

LEMMA CallocInv ==
  ASSUME Small, PoolInv, Calloc
  PROVE  PoolInv'
<1>1. PICK n \in Factors, m \in Factors :
        LET c == (n * m) % W IN Fits(c) /\ Append(item, c) /\ Take(n * m)
  BY DEF Calloc
<1> DEFINE p == n * m
<1>2. p \in Sizes
  BY DEF Sizes
<1>3. Fits(p % W) /\ Append(item, p % W) /\ Take(p)
  BY <1>1
<1> HIDE DEF p
<1>4. p \in Nat /\ p + HeaderSize + BufferSize <= W
  BY <1>2 DEF Small
<1>5. p % W = p
  BY <1>4, PoolAssumption, ModSmall
<1> QED
  BY <1>3, <1>4, <1>5, AppendInv DEF Calloc

\* No assertion fails, and a block given back is trimmed or marked free.
LEMMA GiveBackInv ==
  ASSUME PoolInv, Idle, NEW b \in live, GiveBack(b)
  PROVE  PoolInv'
<1> DEFINE o == b.at
<1>1. Sound(item, first, last, offset, live) /\ cursor = Null /\ real = Null
  BY IdleIsSound
<1>2. o \in DOMAIN item /\ Base(item, first, offset) /\ Owners(item, live, offset)
  BY <1>1 DEF Sound, Owners
<1>3. EndOf(o) = EndAt(item, o) /\ EndAt(item, o) <= offset
  BY <1>2, EndOfIsEnd, BaseFacts
<1>4. /\ EndAt(item, o) \in Nat /\ offset \in Nat
      /\ item \in [DOMAIN item -> Header]
  BY <1>2, BaseFacts
<1>5. asserted = FALSE /\ live' = live \ {b}
  BY DEF Idle, PoolInv, GiveBack
<1>6. CASE EndAt(item, o) = offset /\ o = first
  <2>1. Reset /\ UNCHANGED <<cursor, real, asserted>>
    BY <1>3, <1>4, <1>6 DEF GiveBack, DeallocCheckedMemory
  <2>2. live' = {}
    <3>1. o = 0
      BY <1>2, <1>6 DEF Base
    <3>2. ASSUME NEW x \in live \ {b}
          PROVE  FALSE
      <4>1. x.at \in DOMAIN item /\ x.at # o
        BY <1>2, OwnersApart DEF Owners
      <4>2. x.at < o /\ x.at \in Nat
        BY <1>2, <1>6, <4>1, LastIsTop, BaseFacts
      <4> QED
        BY <3>1, <4>2
    <3> QED
      BY <1>5, <3>2
  <2>3. DOMAIN item' = {} /\ item' \in [DOMAIN item' -> Header]
    <3>1. \A y \in DOMAIN item : ~(y < 0)
      BY <1>2, BaseFacts
    <3> QED
      BY <2>1, <3>1 DEF Reset, BackTo
  <2>4. first' = Null /\ last' = Null /\ offset' = 0
    BY <2>1 DEF Reset, BackTo
  <2>5. Sound(item', first', last', offset', live')
    BY <2>2, <2>3, <2>4, EmptySound
  <2> QED
    BY <1>1, <1>5, <2>1, <2>5, SoundIsIdle
<1>7. CASE EndAt(item, o) = offset /\ o # first
  <2>1. /\ cursor' = item[o].prev /\ real' = o
        /\ UNCHANGED <<item, first, last, offset, asserted>>
    BY <1>3, <1>4, <1>7 DEF GiveBack, DeallocCheckedMemory
  <2>2. Walk(item', first', offset', live', real', cursor')
    BY <1>1, <1>5, <1>7, <2>1, WalkStarts
  <2>3. real' # Null
    BY <1>2, <2>1, BaseFacts
  <2>4. last \in Offsets \union {Null}
    BY DEF PoolInv
  <2> QED
    BY <1>5, <2>1, <2>2, <2>3, <2>4 DEF PoolInv
<1>8. CASE EndAt(item, o) < offset
  <2>1. item' = Freed(o) /\ UNCHANGED <<first, last, offset, cursor, real, asserted>>
    BY <1>3, <1>4, <1>8 DEF GiveBack, DeallocCheckedMemory
  <2>2. Sound(item', first', last', offset', live')
    BY <1>1, <1>5, <1>8, <2>1, FreedSound DEF Freed
  <2> QED
    BY <1>1, <1>5, <2>1, <2>2, SoundIsIdle
<1> QED
  BY <1>3, <1>4, <1>6, <1>7, <1>8

\* A block is resized in place, or freed and another one appended if it fits.
LEMMA ResizeInv ==
  ASSUME PoolInv, Idle, NEW b \in live,
         NEW c \in Nat, c + HeaderSize + BufferSize <= W, Resize(b, c)
  PROVE  PoolInv'
<1> DEFINE o == b.at
<1>1. Sound(item, first, last, offset, live) /\ cursor = Null /\ real = Null
  BY IdleIsSound
<1>2. o \in DOMAIN item /\ Base(item, first, offset)
  BY <1>1 DEF Sound, Owners
<1>3. /\ EndOf(o) = EndAt(item, o) /\ EndAt(item, o) <= offset
      /\ EndAt(item, o) \in Nat /\ offset \in Nat
  BY <1>2, EndOfIsEnd, BaseFacts
<1>4. asserted = FALSE /\ cursor' = cursor /\ real' = real
  BY DEF Idle, PoolInv, Resize
<1>5. Stretched(o, c) = o + HeaderSize + c
  BY <1>2, StretchedIsSum
<1>6. CASE EndAt(item, o) = offset
  <2>1. /\ Stretched(o, c) < BufferSize /\ offset' = Stretched(o, c)
        /\ item' = [item EXCEPT ![o].count = c]
        /\ live' = (live \ {b}) \union {[at |-> o, count |-> c]}
        /\ UNCHANGED <<first, last, asserted>>
    BY <1>3, <1>6 DEF Resize
  <2>2. Sound(Recounted(item, o, c), first, last, o + HeaderSize + c,
              With(live \ {b}, o, c))
    BY <1>1, <1>5, <1>6, <2>1, StretchSound
  <2>3. item' = Recounted(item, o, c) /\ live' = With(live \ {b}, o, c)
    BY <2>1 DEF Recounted, With
  <2>4. Sound(item', first', last', offset', live')
    BY <1>5, <2>1, <2>2, <2>3
  <2> QED
    BY <1>1, <1>4, <2>1, <2>4, SoundIsIdle
<1>7. CASE EndAt(item, o) < offset
  <2> DEFINE h == Freed(o)
  <2>1. Sound(h, first, last, offset, live \ {b})
    BY <1>1, <1>7, FreedSound DEF Freed
  <2> HIDE DEF h
  <2>2. CASE Fits(c)
    <3>1. /\ Append(h, c) /\ UNCHANGED asserted
          /\ live' = (live \ {b}) \union {[at |-> offset, count |-> c]}
      BY <1>3, <1>7, <2>2 DEF Resize, h
    <3>2. offset \in Offsets
      BY <1>2 DEF Base
    <3>3. c + HeaderSize + offset < BufferSize /\ offset' = c + HeaderSize + offset
      BY <2>2, <3>1, <3>2, FitsIsSum DEF Append
    <3>4. Sound(Appended(h, last, offset, c), First(first, last, offset), offset,
                c + HeaderSize + offset, With(live \ {b}, offset, c))
      BY <2>1, <3>3, AppendSound
    <3>5. /\ item' = Appended(h, last, offset, c) /\ last' = offset
          /\ first' = First(first, last, offset)
          /\ live' = With(live \ {b}, offset, c)
      BY <3>1 DEF Append, Appended, First, With
    <3>6. Sound(item', first', last', offset', live')
      BY <3>3, <3>4, <3>5
    <3> QED
      BY <1>1, <1>4, <3>1, <3>6, SoundIsIdle
  <2>3. CASE ~Fits(c)
    <3>1. /\ item' = h /\ live' = live \ {b}
          /\ UNCHANGED <<first, last, offset, asserted>>
      BY <1>3, <1>7, <2>3 DEF Resize, h
    <3> QED
      BY <1>1, <1>4, <2>1, <3>1, SoundIsIdle
  <2> QED
    BY <2>2, <2>3
<1> QED
  BY <1>3, <1>6, <1>7

LEMMA DeallocInv ==
  ASSUME PoolInv, Dealloc
  PROVE  PoolInv'
BY GiveBackInv DEF Dealloc

LEMMA ReallocInv ==
  ASSUME Small, PoolInv, Realloc
  PROVE  PoolInv'
BY ResizeInv DEF Realloc, Small, Sizes

\* One turn of the loop.
LEMMA TrimInv ==
  ASSUME PoolInv, Trim
  PROVE  PoolInv'
<1>1. /\ real # Null /\ Walk(item, first, offset, live, real, cursor)
      /\ asserted' = FALSE /\ live' = live
  BY DEF Trim, PoolInv
<1>2. /\ Base(item, first, offset) /\ real \in DOMAIN item
      /\ Linked(item, first, real) /\ real # first /\ cursor = item[real].prev
  BY <1>1 DEF Walk, Base
<1>3. cursor \in DOMAIN item
  BY <1>2 DEF Linked
<1>4. /\ cursor # Null /\ item \in [DOMAIN item -> Header]
      /\ item[cursor].isInUse \in BOOLEAN /\ Null \notin Nat
  BY <1>2, <1>3, BaseFacts
<1>5. CASE item[cursor].isInUse
  <2>1. /\ last' = cursor /\ offset' = real /\ item' = Below(item, real)
        /\ real' = Null /\ cursor' = Null /\ first' = first
    BY <1>4, <1>5 DEF Trim, BackTo, Top, Below
  <2>2. Sound(item', first', last', offset', live')
    BY <1>1, <1>5, <2>1, WalkEnds
  <2> QED
    BY <1>1, <2>1, <2>2, SoundIsIdle
<1>6. CASE ~item[cursor].isInUse /\ cursor = first
  <2>1. Reset /\ real' = Null /\ cursor' = Null
    BY <1>4, <1>6 DEF Trim
  <2>2. live' = {}
    BY <1>1, <1>6, WalkEmpties
  <2>3. DOMAIN item' = {} /\ item' \in [DOMAIN item' -> Header]
    <3>1. \A y \in DOMAIN item : ~(y < 0)
      BY <1>2, BaseFacts
    <3> QED
      BY <2>1, <3>1 DEF Reset, BackTo
  <2>4. first' = Null /\ last' = Null /\ offset' = 0
    BY <2>1 DEF Reset, BackTo
  <2>5. Sound(item', first', last', offset', live')
    BY <2>2, <2>3, <2>4, EmptySound
  <2> QED
    BY <1>1, <2>1, <2>5, SoundIsIdle
<1>7. CASE ~item[cursor].isInUse /\ cursor # first
  <2>1. /\ real' = cursor /\ cursor' = item[cursor].prev
        /\ UNCHANGED <<item, first, last, offset>>
    BY <1>4, <1>7 DEF Trim, StepBack
  <2>2. Walk(item', first', offset', live', real', cursor')
    BY <1>1, <1>7, <2>1, WalkSteps
  <2>3. last \in Offsets \union {Null}
    BY DEF PoolInv
  <2> QED
    BY <1>1, <1>4, <2>1, <2>2, <2>3 DEF PoolInv
<1> QED
  BY <1>4, <1>5, <1>6, <1>7

\* A turn of the loop ends it or goes down by a header at least.
LEMMA TrimDescends ==
  ASSUME PoolInv, Trim
  PROVE  real' = Null \/ (real' \in Offsets /\ real' + HeaderSize <= real)
<1>1. /\ Base(item, first, offset) /\ real \in DOMAIN item
      /\ Linked(item, first, real) /\ real # first /\ cursor = item[real].prev
  BY DEF Trim, PoolInv, Walk, Base
<1>2. cursor \in DOMAIN item /\ EndAt(item, cursor) = real
  BY <1>1 DEF Linked
<1>3. cursor \in Offsets /\ cursor + HeaderSize <= real
  BY <1>1, <1>2, BaseFacts
<1>4. real' = Null \/ real' = cursor
  BY DEF Trim, StepBack
<1> QED
  BY <1>3, <1>4

LEMMA InitInv == ASSUME Init PROVE PoolInv
<1>1. DOMAIN item = {} /\ item \in [DOMAIN item -> Header]
  BY DEF Init
<1>2. Sound(item, Null, Null, 0, {})
  BY <1>1, EmptySound
<1> QED
  BY <1>2 DEF Init, PoolInv

LEMMA StutterInv ==
  ASSUME PoolInv, UNCHANGED vars
  PROVE  PoolInv'
BY DEF vars, PoolInv

LEMMA NextInv ==
  ASSUME Small, PoolInv, [Next]_vars
  PROVE  PoolInv'
BY AllocInv, CallocInv, DeallocInv, ReallocInv, TrimInv, StutterInv DEF Next

-----------------------------------------------------------------------------
(* What the invariant says of the properties. *)

LEMMA InvTypes ==
  ASSUME PoolInv
  PROVE  PoolTypeOK
<1>1. Base(item, first, offset) /\ asserted \in BOOLEAN /\ last \in Offsets \union {Null}
  BY DEF PoolInv, Sound, Walk
<1>2. live \subseteq [at : Offsets, count : Nat]
  BY DEF PoolInv, Sound, Walk, Owners
<1>3. DOMAIN item \subseteq Offsets /\ \A o \in DOMAIN item : item[o] \in Header
  BY <1>1, BaseFacts
<1>4. offset \in Offsets /\ first \in Offsets \union {Null}
  BY <1>1, PoolAssumption DEF Base, Offsets
<1>5. real \in Offsets \union {Null}
  BY <1>3 DEF PoolInv, Walk
<1>6. cursor \in Offsets \union {Null}
  BY <1>3 DEF PoolInv, Walk, Header
<1> QED
  BY <1>1, <1>2, <1>3, <1>4, <1>5, <1>6 DEF PoolTypeOK

LEMMA InvDisjoint ==
  ASSUME PoolInv
  PROVE  BlocksDisjoint
<1>1. Base(item, first, offset) /\ \E r : Owners(item, live, r)
  BY DEF PoolInv, Sound, Walk
<1>2. \A b \in live : /\ b.at \in DOMAIN item /\ b.at \in Nat
                     /\ b.at + HeaderSize + b.count = EndAt(item, b.at)
                     /\ EndAt(item, b.at) \in Nat /\ EndAt(item, b.at) <= offset
  BY <1>1, BaseFacts DEF Owners, EndAt
<1>3. offset \in Nat /\ offset < BufferSize /\ BufferSize \in Nat
  BY <1>1, BaseFacts
<1>4. ASSUME NEW b \in live, NEW x
      PROVE  x \in Bytes(b) <=> x \in Nat /\ b.at <= x /\ x < EndAt(item, b.at)
  <2>1. /\ b.at \in Nat /\ b.count \in Nat /\ HeaderSize \in Nat
        /\ EndAt(item, b.at) = b.at + HeaderSize + b.count
    BY <1>1, <1>2, BaseFacts DEF Owners
  <2> QED
    BY <2>1 DEF Bytes
<1>5. ASSUME NEW b \in live
      PROVE  Bytes(b) \subseteq Offsets
  BY <1>2, <1>3, <1>4 DEF Offsets
<1>6. ASSUME NEW b \in live, NEW c \in live, b # c
      PROVE  Bytes(b) \cap Bytes(c) = {}
  <2>1. b.at # c.at
    BY <1>1, <1>6, OwnersApart
  <2>2. \/ EndAt(item, b.at) <= c.at
        \/ EndAt(item, c.at) <= b.at
    BY <1>1, <1>2, <2>1 DEF Base
  <2> QED
    BY <1>2, <1>4, <2>2
<1> QED
  BY <1>5, <1>6 DEF BlocksDisjoint

LEMMA InvStranded ==
  ASSUME PoolInv
  PROVE  NothingStranded
<1> SUFFICES ASSUME Idle
             PROVE  /\ live = {} => offset = 0
                    /\ live # {} =>
                         \E b \in live : /\ offset = b.at + HeaderSize + b.count
                                         /\ \A c \in live : c.at <= b.at
  BY DEF NothingStranded
<1>1. Sound(item, first, last, offset, live) /\ Base(item, first, offset)
  BY IdleIsSound DEF Sound
<1>2. CASE last = Null
  <2>1. DOMAIN item = {} /\ offset = 0
    BY <1>1, <1>2 DEF Sound, Base
  <2>2. live = {}
    BY <1>1, <2>1 DEF Sound, Owners
  <2> QED
    BY <2>1, <2>2
<1>3. CASE last # Null
  <2> DEFINE b == [at |-> last, count |-> item[last].count]
  <2>1. last \in DOMAIN item /\ item[last].isInUse /\ EndAt(item, last) = offset
    BY <1>1, <1>3 DEF Sound
  <2>2. last < offset /\ last \in Nat
    BY <1>1, <2>1, BaseFacts
  <2>3. b \in live /\ offset = b.at + HeaderSize + b.count
    BY <1>1, <2>1, <2>2 DEF Sound, Owners, EndAt
  <2>4. ASSUME NEW c \in live
        PROVE  c.at <= b.at
    <3>1. c.at \in DOMAIN item
      BY <1>1 DEF Sound, Owners
    <3>2. c.at # last => c.at < last
      BY <1>1, <2>1, <3>1, LastIsTop
    <3>3. c.at \in Nat
      BY <1>1, <3>1, BaseFacts
    <3> QED
      BY <2>2, <3>2, <3>3
  <2> HIDE DEF b
  <2> QED
    BY <2>3, <2>4
<1> QED
  BY <1>2, <1>3

LEMMA InvChained ==
  ASSUME PoolInv
  PROVE  Chained
<1> SUFFICES ASSUME Idle
             PROVE  Chained
  BY DEF Chained
<1>1. Sound(item, first, last, offset, live) /\ Base(item, first, offset)
  BY IdleIsSound DEF Sound
<1>2. Null \notin Nat
  BY PoolAssumption
<1>3. /\ DOMAIN item = {} <=> first = Null
      /\ first = Null <=> last = Null
  BY <1>1, <1>2 DEF Sound, Base
<1>4. last # Null => first = 0 /\ item[last].isInUse /\ EndOf(last) = offset
  BY <1>1, EndOfIsEnd DEF Sound, Base
<1>5. ASSUME NEW o \in DOMAIN item
      PROVE  /\ item[o].isInUse <=> [at |-> o, count |-> item[o].count] \in live
             /\ IF o = first THEN item[o].prev = Null
                ELSE /\ item[o].prev \in DOMAIN item /\ item[o].prev < o
                     /\ EndOf(item[o].prev) = o
  <2>1. o < offset /\ item[o].isInUse \in BOOLEAN
    BY <1>1, BaseFacts
  <2>2. item[o].isInUse <=> [at |-> o, count |-> item[o].count] \in live
    BY <1>1, <2>1 DEF Sound, Owners
  <2>3. Linked(item, first, o)
    BY <1>1 DEF Base
  <2> QED
    BY <1>1, <2>2, <2>3, EndOfIsEnd DEF Linked
<1>6. {b.at : b \in live} \subseteq DOMAIN item
  BY <1>1 DEF Sound, Owners
<1> QED
  BY <1>3, <1>4, <1>5, <1>6 DEF Chained

-----------------------------------------------------------------------------
(* The theorems.  Small excludes the sizes whose sums wrap around; everything *)
(* else is as general as PoolAssumption.                                      *)

LEMMA PoolStaysSound ==
  ASSUME Small
  PROVE  Spec => []PoolInv
<1>1. Init => PoolInv
  BY InitInv
<1>2. PoolInv /\ [Next]_vars => PoolInv'
  BY NextInv
<1> QED
  BY <1>1, <1>2, PTL DEF Spec

\* The pool's fields, headers and loop variables keep their types: no offset
\* leaves the buffer and no header is linked to a place outside it.
THEOREM PoolTypeCorrect ==
  ASSUME Small
  PROVE  Spec => []PoolTypeOK
BY PoolStaysSound, InvTypes, PTL

\* Whatever is allocated, resized, freed and trimmed, two blocks the callers hold
\* never share a byte and none leaves the buffer (Alloc, Realloc,
\* DeallocCheckedMemory).
THEOREM BlocksStayDisjoint ==
  ASSUME Small
  PROVE  Spec => []BlocksDisjoint
BY PoolStaysSound, InvDisjoint, PTL

\* After the trimming loop the offset is right behind the topmost block in use: no
\* room is lost above it, and an empty pool is whole again.
THEOREM NothingIsStranded ==
  ASSUME Small
  PROVE  Spec => []NothingStranded
BY PoolStaysSound, InvStranded, PTL

\* Between calls the headers form one chain without gaps from m_pLast to m_pFirst
\* and say in use of exactly the callers' blocks.
THEOREM ChainIsKept ==
  ASSUME Small
  PROVE  Spec => []Chained
BY PoolStaysSound, InvChained, PTL

\* DeallocCheckedMemory's loop comes to an end after a bounded number of turns: each
\* ends it or takes unRealPtrOffset down by a header's size at least, inside the
\* buffer, and no other call of the pool comes in between.
THEOREM TrimmingDescends ==
  ASSUME Small
  PROVE  Spec => [][real # Null =>
                      \/ real' = Null
                      \/ real' \in Offsets /\ real' + HeaderSize <= real]_vars
<1>1. PoolInv /\ [Next]_vars =>
        [real # Null => \/ real' = Null
                        \/ real' \in Offsets /\ real' + HeaderSize <= real]_vars
  BY TrimDescends DEF Next, Alloc, Calloc, Dealloc, Realloc, Idle
<1> QED
  BY <1>1, PoolStaysSound, PTL DEF Spec

\* assert(ofsetAfterAlloc < m_unOffset) of DeallocCheckedMemory never fails for
\* callers that pass only blocks they hold.
THEOREM PoolAssertionHolds ==
  ASSUME Small
  PROVE  Spec => []NoPoolAssertFails
<1>1. PoolInv => NoPoolAssertFails
  BY DEF PoolInv, NoPoolAssertFails
<1> QED
  BY <1>1, PoolStaysSound, PTL

=============================================================================
