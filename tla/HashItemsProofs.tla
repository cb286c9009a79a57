--------------------------- MODULE HashItemsProofs ---------------------------
(***************************************************************************)
(* Theorems about HashItems: what FindEntryRaw and the iteration answer,   *)
(* for any keys, buckets and finitely many items.  The prover has no       *)
(* induction over data, so a fact about all the items of a chain is shown  *)
(* by looking at the first item of which it would not be true.             *)
(***************************************************************************)
EXTENDS HashItems, Integers, FiniteSetTheorems, WellFoundedInduction, TLAPS

N == Cardinality(Cells)
Links == {"next", "nextInTheList"}

-----------------------------------------------------------------------------
(* Chains. *)

\* A set of numbers has a least one.
LEMMA LeastOf ==
  ASSUME NEW T, T \subseteq Nat, T # {}
  PROVE  \E n \in T : \A m \in T : n <= m
<1>1. PICK n \in T : \A m \in T : ~(<<m, n>> \in OpToRel(<, Nat))
  BY NatLessThanWellFounded, WFMin
<1>2. \A m \in T : ~(m < n)
  BY <1>1 DEF OpToRel
<1> QED
  BY <1>2

\* What holds of the first of a range of numbers, and of each that follows one of
\* which it holds, holds of all.
LEMMA FromTo ==
  ASSUME NEW a \in Nat, NEW b \in Nat, NEW T, a \in T \/ b < a,
         \A n \in a..b : n \in T /\ n < b => n + 1 \in T
  PROVE  a..b \subseteq T
<1> SUFFICES ASSUME (a..b) \ T # {}
             PROVE  FALSE
  OBVIOUS
<1>0. (a..b) \ T \subseteq Nat
  OBVIOUS
<1>1. PICK n \in (a..b) \ T : \A m \in (a..b) \ T : n <= m
  BY <1>0, LeastOf
<1>2. n # a
  BY <1>1
<1>3. n - 1 \in a..b /\ n - 1 < b /\ n - 1 \in T
  BY <1>1, <1>2
<1> QED
  BY <1>1, <1>3

\* The first M + 1 items of a chain.
Follows(at, M, p, link) ==
  /\ at \in [0..M -> Pointer] /\ at[0] = p
  /\ \A n \in 1..M : at[n] = IF at[n - 1] = Null THEN Null ELSE cell[at[n - 1]][link]

LEMMA NType == N \in Nat
BY HashAssumption, FS_CardinalityType DEF N

\* The recursion of Chain defines what it says.
LEMMA ChainFollows ==
  ASSUME cell \in [Cells -> Item], NEW p \in Pointer, NEW link \in Links
  PROVE  Follows(Chain(p, link), N, p, link)
<1> USE NType
<1> DEFINE T == {M \in Nat : \E at : Follows(at, M, p, link)}
<1>1. 0 \in T
  <2>1. Follows([n \in 0..0 |-> p], 0, p, link)
    BY DEF Follows
  <2> QED
    BY <2>1
<1>2. ASSUME NEW M \in Nat, M \in T
      PROVE  M + 1 \in T
  <2>1. PICK at : Follows(at, M, p, link)
    BY <1>2
  <2> DEFINE q    == IF at[M] = Null THEN Null ELSE cell[at[M]][link]
             more == [n \in 0..(M + 1) |-> IF n = M + 1 THEN q ELSE at[n]]
  <2>2. q \in Pointer
    <3>1. at[M] \in Pointer
      BY <2>1 DEF Follows
    <3> QED
      BY <3>1 DEF Pointer, Item, Links
  <2> HIDE DEF q
  <2>3. more \in [0..(M + 1) -> Pointer] /\ more[0] = p
    BY <2>1, <2>2 DEF Follows
  <2>4. ASSUME NEW n \in 1..(M + 1)
        PROVE  more[n] = IF more[n - 1] = Null THEN Null ELSE cell[more[n - 1]][link]
    <3>1. more[n - 1] = at[n - 1]
      OBVIOUS
    <3>2. CASE n = M + 1
      BY <3>1, <3>2 DEF q
    <3>3. CASE n # M + 1
      BY <2>1, <3>1, <3>3 DEF Follows
    <3> QED
      BY <3>2, <3>3
  <2>5. Follows(more, M + 1, p, link)
    <3> HIDE DEF more
    <3> QED
      BY <2>3, <2>4 DEF Follows
  <2> QED
    BY <2>5
<1>3. N \in T
  <2> HIDE DEF T
  <2>1. 0..N \subseteq T
    BY <1>1, <1>2, FromTo
  <2> QED
    BY <2>1
<1>4. PICK f : Follows(f, N, p, link)
  BY <1>3
<1> DEFINE Eq(at) == at = [n \in 0..N |-> IF n = 0 THEN p
                             ELSE IF at[n - 1] = Null THEN Null
                                  ELSE cell[at[n - 1]][link]]
<1>5. Eq(f)
  BY <1>4 DEF Follows
<1> DEFINE g == CHOOSE at : Eq(at)
<1>6. Chain(p, link) = g
  BY DEF Chain, N
<1>7. Eq(g)
  <2> HIDE DEF Eq
  <2> QED
    BY <1>5
<1> HIDE DEF g
<1>8. g \in [0..N -> Pointer] /\ g[0] = p
  <2>1. DOMAIN g = 0..N /\ g[0] = p
    BY <1>7
  <2> DEFINE S == {n \in 0..N : g[n] \in Pointer}
  <2>2. \A n \in 0..N : n \in S /\ n < N => n + 1 \in S
    <3> SUFFICES ASSUME NEW n \in 0..N, g[n] \in Pointer, n < N
                 PROVE  g[n + 1] \in Pointer
      OBVIOUS
    <3>1. g[n + 1] = IF g[n] = Null THEN Null ELSE cell[g[n]][link]
      BY <1>7
    <3> QED
      BY <3>1 DEF Pointer, Item, Links
  <2>3. 0 \in S
    BY <2>1
  <2>4. 0..N \subseteq S
    <3> HIDE DEF S
    <3> QED
      BY <2>2, <2>3, FromTo
  <2>5. \A n \in 0..N : g[n] \in Pointer
    BY <2>4
  <2> QED
    BY <1>7, <2>1, <2>5
<1> QED
  <2>1. Follows(g, N, p, link)
    BY <1>7, <1>8 DEF Follows
  <2> QED
    BY <1>6, <2>1

\* What FindEntryRaw answers is an item of the bucket's chain with the key; it finds
\* one where there is one.
LEMMA FindAnswers ==
  ASSUME HashTypeOK, NEW k \in Keys, NEW at, Follows(at, N, head[hash[k]], "next"),
         at = Chain(head[hash[k]], "next")
  PROVE  /\ FindEntryRaw(k) \in Pointer
         /\ FindEntryRaw(k) # Null =>
              \E n \in 0..N : at[n] = FindEntryRaw(k) /\ cell[at[n]].first = k
         /\ (\E n \in 0..N : at[n] # Null /\ cell[at[n]].first = k) =>
              FindEntryRaw(k) # Null
<1> DEFINE found == {n \in DOMAIN at : at[n] # Null /\ cell[at[n]].first = k}
           least == CHOOSE n \in found : \A m \in found : n <= m
<1>1. FindEntryRaw(k) = IF found = {} THEN Null ELSE at[least]
  BY DEF FindEntryRaw
<1>2. DOMAIN at = 0..N /\ \A n \in 0..N : at[n] \in Pointer
  BY DEF Follows
<1>3. found # {} => least \in found
  <2>1. found \subseteq Nat
    BY <1>2, NType
  <2> HIDE DEF found
  <2> QED
    BY <2>1, LeastOf
<1> HIDE DEF least
<1> QED
  BY <1>1, <1>2, <1>3 DEF Pointer

\* The chain of a key's bucket.
LEMMA BucketChain ==
  ASSUME HashTypeOK, NEW k \in Keys
  PROVE  Follows(Chain(head[hash[k]], "next"), N, head[hash[k]], "next")
<1>1. head[hash[k]] \in Pointer /\ cell \in [Cells -> Item]
  BY DEF HashTypeOK
<1> QED
  BY <1>1, ChainFollows DEF Links

-----------------------------------------------------------------------------
(* The inductive invariant. *)

Stored == {stored[k] : k \in Keys} \ {Null}
Count  == Cardinality(Stored)

\* An item knows its key and its bucket.
Filed == \A k \in Keys : stored[k] # Null =>
           cell[stored[k]].first = k /\ cell[stored[k]].unIndex = hash[k]

\* Keys that share no bucket: every chain is one item long.
Spread ==
  use = "spread" =>
    /\ \A k, l \in Keys : hash[k] = hash[l] => k = l
    /\ \A k \in Keys : head[hash[k]] = stored[k]
    /\ \A p \in Stored : cell[p].next = Null

\* Of the items at S, with the fields c, p is the last one of bucket b added before
\* the one of rank r, if any.
Before(S, c, rank, p, b, r) ==
  /\ p = Null \/ (p \in S /\ c[p].unIndex = b)
  /\ rank[p] < r
  /\ \A q \in S : c[q].unIndex = b /\ rank[q] < r => rank[q] <= rank[p]

\* rank numbers the items in the order they were added; both kinds of chains go from
\* the last one added to the first.
Ranked(rank) ==
  /\ rank \in [Pointer -> 0..Count]
  /\ \A p \in Pointer : p \in Stored <=> rank[p] > 0
  /\ \A p, q \in Stored : rank[p] = rank[q] => p = q
  /\ firstItem \in Stored \union {Null} /\ rank[firstItem] = Count
  /\ \A p \in Stored : /\ cell[p].nextInTheList \in Stored \union {Null}
                        /\ rank[cell[p].nextInTheList] = rank[p] - 1
                        /\ Before(Stored, cell, rank, cell[p].next, cell[p].unIndex, rank[p])
  /\ \A b \in Buckets : Before(Stored, cell, rank, head[b], b, Count + 1)

Kept == use = "keeping" => \E rank : Ranked(rank)

HashInv == HashTypeOK /\ Filed /\ Spread /\ Kept

LEMMA StoredType ==
  ASSUME HashTypeOK
  PROVE  /\ Stored \subseteq Cells /\ IsFiniteSet(Stored)
         /\ Count \in Nat /\ Count <= N
<1>1. Stored \in SUBSET Cells
  BY DEF Stored, HashTypeOK, Pointer
<1> QED
  BY <1>1, HashAssumption, FS_Subset, FS_CardinalityType DEF Count, N

\* Where every item is ranked, FindEntryRaw meets every item of the bucket.
LEMMA MeetsAll ==
  ASSUME HashTypeOK, NEW rank, Ranked(rank), NEW b \in Buckets,
         NEW at, Follows(at, N, head[b], "next")
  PROVE  /\ \A n \in 0..N : at[n] = Null \/ (at[n] \in Stored /\ cell[at[n]].unIndex = b)
         /\ \A p \in Stored : cell[p].unIndex = b => \E n \in 0..N : at[n] = p
<1>1. N \in Nat /\ Count \in Nat /\ Count <= N /\ Stored \subseteq Cells
  BY StoredType, NType
<1>2. /\ at[0] = head[b]
      /\ \A n \in 0..N : n < N => at[n + 1] = IF at[n] = Null THEN Null
                                               ELSE cell[at[n]].next
  <2>1. ASSUME NEW n \in 0..N, n < N
        PROVE  at[n + 1] = IF at[n] = Null THEN Null ELSE cell[at[n]]["next"]
    <3>1. n + 1 \in 1..N /\ (n + 1) - 1 = n
      BY <1>1, <2>1
    <3> QED
      BY <3>1 DEF Follows
  <2> QED
    BY <2>1 DEF Follows
<1>3. ASSUME NEW n \in 0..N
      PROVE  at[n] = Null \/ (at[n] \in Stored /\ cell[at[n]].unIndex = b)
  <2> DEFINE T == {m \in 0..N : at[m] = Null
                                 \/ (at[m] \in Stored /\ cell[at[m]].unIndex = b)}
  <2>1. 0 \in T
    BY <1>1, <1>2 DEF Ranked, Before
  <2>2. \A m \in 0..N : m \in T /\ m < N => m + 1 \in T
    BY <1>1, <1>2 DEF Ranked, Before
  <2>3. 0..N \subseteq T
    <3> HIDE DEF T
    <3> QED
      BY <1>1, <2>1, <2>2, FromTo
  <2> QED
    BY <2>3
<1>4. ASSUME NEW p \in Stored, cell[p].unIndex = b, ~\E n \in 0..N : at[n] = p
      PROVE  FALSE
  <2> DEFINE T == {m \in 0..N : /\ at[m] \in Stored /\ rank[at[m]] > rank[p]
                                /\ rank[at[m]] <= Count - m}
  <2>0. /\ rank \in [Pointer -> 0..Count] /\ Stored \subseteq Pointer
        /\ rank[p] > 0 /\ rank[p] <= Count /\ Null \in Pointer /\ Null \notin Stored
    BY <1>1 DEF Ranked, Pointer, Stored
  <2>1. ASSUME NEW q, NEW r, Before(Stored, cell, rank, q, b, r), rank[p] < r, q # p, r \in Nat
        PROVE  q \in Stored /\ rank[q] > rank[p] /\ rank[q] < r
    <3>1. q \in Pointer /\ rank[p] <= rank[q] /\ rank[q] < r
      BY <1>4, <2>0, <2>1 DEF Before
    <3>2. rank[q] > 0 /\ q \in Stored
      BY <2>0, <3>1 DEF Ranked
    <3>3. rank[q] # rank[p]
      BY <2>1, <3>2 DEF Ranked
    <3> QED
      BY <2>0, <3>1, <3>2, <3>3
  <2>2. 0 \in T
    <3>1. Before(Stored, cell, rank, at[0], b, Count + 1) /\ at[0] # p
      BY <1>1, <1>2, <1>4 DEF Ranked
    <3> QED
      BY <1>1, <2>0, <2>1, <3>1
  <2>3. ASSUME NEW m \in 0..N, m \in T, m < N
        PROVE  m + 1 \in T
    <3>1. at[m] \in Stored /\ at[m + 1] = cell[at[m]].next /\ cell[at[m]].unIndex = b
      BY <1>2, <1>3, <2>0, <2>3
    <3>2. Before(Stored, cell, rank, at[m + 1], b, rank[at[m]]) /\ at[m + 1] # p /\ rank[at[m]] \in Nat
      BY <1>1, <1>4, <2>0, <2>3, <3>1 DEF Ranked
    <3>3. at[m + 1] \in Stored /\ rank[at[m + 1]] > rank[p]
          /\ rank[at[m + 1]] < rank[at[m]]
      BY <2>1, <2>3, <3>2
    <3> QED
      BY <1>1, <2>0, <2>3, <3>3
  <2>4. N \in T
    <3>1. 0..N \subseteq T
      <4> HIDE DEF T
      <4> QED
        BY <1>1, <2>2, <2>3, FromTo
    <3> QED
      BY <1>1, <3>1
  <2> QED
    BY <1>1, <2>0, <2>4
<1> QED
  BY <1>3, <1>4

\* FindEntryRaw finds what is stored, where nothing is removed or no bucket shared.
LEMMA Finds ==
  ASSUME HashInv, use # "any", NEW k \in Keys
  PROVE  FindEntryRaw(k) = stored[k]
<1> DEFINE b  == hash[k]
           at == Chain(head[b], "next")
<1>1. HashTypeOK /\ Follows(at, N, head[b], "next") /\ b \in Buckets
  BY BucketChain DEF HashInv, HashTypeOK
<1> HIDE DEF at
\* Only items of the bucket are met, and all of them.
<1>2. /\ \A n \in 0..N : at[n] = Null \/ at[n] \in Stored
      /\ stored[k] # Null => \E n \in 0..N : at[n] = stored[k]
  <2>1. CASE use = "keeping"
    <3>1. PICK rank : Ranked(rank)
      BY <2>1 DEF HashInv, Kept
    <3>2. stored[k] # Null => stored[k] \in Stored /\ cell[stored[k]].unIndex = b
      BY DEF HashInv, Filed, Stored
    <3> QED
      BY <1>1, <3>1, <3>2, MeetsAll
  <2>2. CASE use = "spread"
    <3>1. at[0] = stored[k]
      BY <1>1, <2>2 DEF HashInv, Spread, Follows
    <3> DEFINE T == {m \in 0..N : at[m] \in {Null, stored[k]}}
    <3>2. 0 \in T /\ N \in Nat
      BY <3>1, NType
    <3>3. ASSUME NEW m \in 0..N, m \in T, m < N
          PROVE  m + 1 \in T
      <4>1. at[m + 1] = IF at[m] = Null THEN Null ELSE cell[at[m]]["next"]
        <5>1. m + 1 \in 1..N /\ (m + 1) - 1 = m
          BY <3>2, <3>3
        <5> QED
          BY <1>1, <5>1 DEF Follows
      <4>2. at[m] # Null => at[m] \in Stored
        BY <3>3 DEF Stored
      <4>3. at[m + 1] = Null
        BY <2>2, <4>1, <4>2 DEF HashInv, Spread
      <4> QED
        BY <3>2, <3>3, <4>3
    <3>4. 0..N \subseteq T
      <4> HIDE DEF T
      <4> QED
        BY <3>2, <3>3, FromTo
    <3> QED
      BY <3>1, <3>2, <3>4 DEF Stored
  <2> QED
    BY <1>1, <2>1, <2>2, HashAssumption DEF HashTypeOK, UseKinds
<1>3. \A n \in 0..N : at[n] # Null /\ cell[at[n]].first = k => at[n] = stored[k]
  BY <1>2 DEF HashInv, Filed, Stored
<1>4. stored[k] # Null => cell[stored[k]].first = k
  BY DEF HashInv, Filed
<1>5. /\ FindEntryRaw(k) # Null =>
           \E n \in 0..N : at[n] = FindEntryRaw(k) /\ cell[at[n]].first = k
      /\ (\E n \in 0..N : at[n] # Null /\ cell[at[n]].first = k) => FindEntryRaw(k) # Null
  BY <1>1, FindAnswers DEF at
<1> QED
  BY <1>2, <1>3, <1>4, <1>5

-----------------------------------------------------------------------------
(* The steps. *)

\* A write through a pointer keeps the types.
LEMMA PutType ==
  ASSUME NEW c \in [Cells -> Item], NEW p \in Pointer, NEW v \in Pointer,
         NEW f \in {"prev", "next", "prevInTheList", "nextInTheList"}
  PROVE  Put(c, p, f, v) \in [Cells -> Item]
BY DEF Put, Item, Pointer

\* It changes one field of at most one item, and no key nor bucket.
LEMMA PutField ==
  ASSUME NEW c \in [Cells -> Item], NEW p \in Pointer, NEW v \in Pointer, NEW q \in Cells,
         NEW f \in {"prev", "next", "prevInTheList", "nextInTheList"}
  PROVE  /\ Put(c, p, f, v)[q].first = c[q].first
         /\ Put(c, p, f, v)[q].unIndex = c[q].unIndex
         /\ Put(c, p, f, v)[q].next \in {c[q].next, v}
         /\ f # "next" => Put(c, p, f, v)[q].next = c[q].next
         /\ f # "nextInTheList" => Put(c, p, f, v)[q].nextInTheList = c[q].nextInTheList
BY HashAssumption DEF Put, Item, Pointer

\* What an addition does to the fields that FindEntryRaw and the iteration read.
Adds(k, p) ==
  /\ FindEntryRaw(k) = Null
  /\ p \in Cells /\ \A l \in Keys : stored[l] # p
  /\ cell' \in [Cells -> Item]
  /\ cell'[p].first = k /\ cell'[p].unIndex = hash[k]
  /\ cell'[p].next = head[hash[k]] /\ cell'[p].nextInTheList = firstItem
  /\ \A q \in Cells : q # p =>
       /\ cell'[q].first = cell[q].first /\ cell'[q].unIndex = cell[q].unIndex
       /\ cell'[q].next = cell[q].next /\ cell'[q].nextInTheList = cell[q].nextInTheList
  /\ head' = [head EXCEPT ![hash[k]] = p] /\ firstItem' = p
  /\ stored' = [stored EXCEPT ![k] = p]
  /\ UNCHANGED <<hash, use>>

LEMMA AddAdds ==
  ASSUME HashTypeOK, NEW k \in Keys, AddEntryWithKnownHash(k)
  PROVE  \E p : Adds(k, p)
<1> DEFINE b == hash[k]
<1>1. PICK p \in FreeCells :
        LET c == [cell EXCEPT ![p] = [first |-> k, unIndex |-> UnIndex(b),
                                      prev |-> Null, next |-> ChainHead(b),
                                      prevInTheList |-> Null,
                                      nextInTheList |-> ListHead]]
        IN /\ cell' = Put(Put(c, head[b], "prev", p), firstItem, "prev", p)
           /\ head' = [head EXCEPT ![b] = p]
           /\ firstItem' = p
           /\ stored' = [stored EXCEPT ![k] = p]
  BY DEF AddEntryWithKnownHash
<1> DEFINE i == [first |-> k, unIndex |-> b, prev |-> Null, next |-> head[b],
                 prevInTheList |-> Null, nextInTheList |-> firstItem]
           c == [cell EXCEPT ![p] = i]
           d == Put(c, head[b], "prev", p)
<1>2. /\ p \in Cells /\ p \in Pointer /\ \A l \in Keys : stored[l] # p
      /\ b \in Buckets /\ head[b] \in Pointer /\ firstItem \in Pointer
      /\ cell \in [Cells -> Item]
  BY DEF FreeCells, Pointer, HashTypeOK
<1>3. i \in Item
  BY <1>2 DEF Item, Pointer
<1>4. c \in [Cells -> Item] /\ c[p] = i /\ \A q \in Cells : q # p => c[q] = cell[q]
  BY <1>2, <1>3
<1>5. cell' = Put(d, firstItem, "prev", p)
  BY <1>1 DEF UnIndex, ChainHead, ListHead
<1> HIDE DEF c, d
<1>6. d \in [Cells -> Item] /\ cell' \in [Cells -> Item]
  BY <1>2, <1>4, <1>5, PutType DEF d
<1>7. \A q \in Cells : /\ cell'[q].first = c[q].first /\ cell'[q].unIndex = c[q].unIndex
                       /\ cell'[q].next = c[q].next
                       /\ cell'[q].nextInTheList = c[q].nextInTheList
  <2> TAKE q \in Cells
  <2>1. /\ d[q].first = c[q].first /\ d[q].unIndex = c[q].unIndex
        /\ d[q].next = c[q].next /\ d[q].nextInTheList = c[q].nextInTheList
    BY <1>2, <1>4, PutField DEF d
  <2>2. /\ cell'[q].first = d[q].first /\ cell'[q].unIndex = d[q].unIndex
        /\ cell'[q].next = d[q].next /\ cell'[q].nextInTheList = d[q].nextInTheList
    BY <1>2, <1>5, <1>6, PutField
  <2> QED
    BY <2>1, <2>2
<1>8. FindEntryRaw(k) = Null /\ UNCHANGED <<hash, use>>
  BY DEF AddEntryWithKnownHash
<1>9. Adds(k, p)
  <2>1. /\ cell'[p].first = k /\ cell'[p].unIndex = b
        /\ cell'[p].next = head[b] /\ cell'[p].nextInTheList = firstItem
    BY <1>2, <1>4, <1>7
  <2>2. \A q \in Cells : q # p =>
          /\ cell'[q].first = cell[q].first /\ cell'[q].unIndex = cell[q].unIndex
          /\ cell'[q].next = cell[q].next /\ cell'[q].nextInTheList = cell[q].nextInTheList
    BY <1>4, <1>7
  <2> QED
    BY <1>1, <1>2, <1>4, <1>6, <1>8, <2>1, <2>2 DEF Adds
<1> QED
  BY <1>9

\* What a removal does to them: the item before the one at p may get a new next.
Removes(k, p) ==
  /\ FindEntryRaw(k) = p /\ p \in Cells /\ use # "keeping"
  /\ cell' \in [Cells -> Item]
  /\ \A q \in Cells :
       /\ cell'[q].first = cell[q].first /\ cell'[q].unIndex = cell[q].unIndex
       /\ cell'[q].next \in {cell[q].next, cell[p].next}
  /\ head' = NewHead(p) /\ firstItem' \in Pointer
  /\ stored' = [stored EXCEPT ![k] = Null]
  /\ UNCHANGED <<hash, use>>

LEMMA RemoveRemoves ==
  ASSUME HashTypeOK, NEW k \in Keys, RemoveEntry(k)
  PROVE  Removes(k, FindEntryRaw(k))
<1> DEFINE p  == FindEntryRaw(k)
           c1 == Put(cell, cell[p].next, "prev", cell[p].prev)
           c2 == Put(c1, c1[p].prev, "next", c1[p].next)
           c3 == Put(c2, c2[p].nextInTheList, "prevInTheList", c2[p].prevInTheList)
           c4 == Put(c3, c3[p].prevInTheList, "nextInTheList", c3[p].nextInTheList)
<1>1. /\ use # "keeping" /\ p # Null
      /\ cell' = c4
      /\ head' = NewHead(p)
      /\ firstItem' = IF p = firstItem THEN c4[p].nextInTheList ELSE firstItem
      /\ stored' = [stored EXCEPT ![k] = Null]
      /\ UNCHANGED <<hash, use>>
  BY DEF RemoveEntry
<1>2. p \in Cells /\ cell \in [Cells -> Item] /\ firstItem \in Pointer
  <2>1. p \in Pointer
    BY BucketChain, FindAnswers
  <2> QED
    BY <1>1, <2>1 DEF Pointer, HashTypeOK
<1> HIDE DEF p
<1>3. ASSUME NEW c \in [Cells -> Item]
      PROVE  /\ c[p].prev \in Pointer /\ c[p].next \in Pointer
             /\ c[p].prevInTheList \in Pointer /\ c[p].nextInTheList \in Pointer
  BY <1>2 DEF Item
<1>4. c1 \in [Cells -> Item]
  BY <1>2, <1>3, PutType
<1> HIDE DEF c1
<1>5. c2 \in [Cells -> Item]
  BY <1>3, <1>4, PutType
<1> HIDE DEF c2
<1>6. c3 \in [Cells -> Item]
  BY <1>3, <1>5, PutType
<1> HIDE DEF c3
<1>7. c4 \in [Cells -> Item]
  BY <1>3, <1>6, PutType
<1>8. ASSUME NEW q \in Cells
      PROVE  /\ c1[q].first = cell[q].first /\ c1[q].unIndex = cell[q].unIndex
             /\ c1[q].next = cell[q].next
  BY <1>2, <1>3, PutField DEF c1
<1>9. ASSUME NEW q \in Cells
      PROVE  /\ c4[q].first = c1[q].first /\ c4[q].unIndex = c1[q].unIndex
             /\ c4[q].next \in {c1[q].next, c1[p].next}
  <2>1. /\ c2[q].first = c1[q].first /\ c2[q].unIndex = c1[q].unIndex
        /\ c2[q].next \in {c1[q].next, c1[p].next}
    BY <1>3, <1>4, PutField DEF c2
  <2>2. /\ c3[q].first = c2[q].first /\ c3[q].unIndex = c2[q].unIndex
        /\ c3[q].next = c2[q].next
    BY <1>3, <1>5, PutField DEF c3
  <2>3. /\ c4[q].first = c3[q].first /\ c4[q].unIndex = c3[q].unIndex
        /\ c4[q].next = c3[q].next
    BY <1>3, <1>6, PutField
  <2> HIDE DEF c4
  <2> QED
    BY <2>1, <2>2, <2>3
<1>10. firstItem' \in Pointer
  BY <1>1, <1>2, <1>3, <1>7
<1> HIDE DEF c4
<1> QED
  BY <1>1, <1>2, <1>7, <1>8, <1>9, <1>10 DEF Removes, p

LEMMA InitHash == ASSUME Init PROVE HashInv
<1>1. \A k \in Keys : stored[k] = Null
  BY DEF Init
<1>2. Stored = {} /\ Count = 0
  BY <1>1, FS_EmptySet DEF Stored, Count
<1>3. HashTypeOK
  <2>1. cell \in [Cells -> Item]
    BY DEF Init, Item, Pointer
  <2> QED
    BY <1>1, <2>1 DEF Init, HashTypeOK, Pointer
<1>4. Filed /\ Spread
  BY <1>1, <1>2 DEF Init, Filed, Spread, HashTypeOK
<1>5. Kept
  <2> DEFINE rank == [p \in Pointer |-> 0]
  <2>1. Ranked(rank)
    BY <1>2 DEF Init, Ranked, Before, Pointer
  <2> QED
    BY <2>1 DEF Kept
<1> QED
  BY <1>3, <1>4, <1>5 DEF HashInv

LEMMA AddInv ==
  ASSUME HashInv, NEW k \in Keys, NEW p, Adds(k, p)
  PROVE  HashInv'
<1> DEFINE b == hash[k]
<1>1. HashTypeOK /\ Stored \subseteq Cells /\ b \in Buckets /\ Null \notin Cells
  BY StoredType, HashAssumption DEF HashInv, HashTypeOK
<1>2. p \in Cells /\ p \in Pointer /\ p # Null /\ p \notin Stored
  BY <1>1 DEF Adds, Stored, Pointer
<1>3. \A l \in Keys : stored'[l] = IF l = k THEN p ELSE stored[l]
  BY <1>1 DEF Adds, HashTypeOK
<1>4. Filed'
  BY <1>1, <1>3 DEF Adds, Filed, HashInv, HashTypeOK, Pointer
<1>5. HashTypeOK'
  <2>1. head' \in [Buckets -> Pointer] /\ stored' \in [Keys -> Pointer]
    BY <1>1, <1>2 DEF Adds, HashTypeOK
  <2>2. hash' \in [Keys -> Buckets] /\ use' \in Uses
    BY <1>1 DEF Adds, HashTypeOK
  <2> QED
    BY <1>2, <1>4, <2>1, <2>2 DEF Adds, HashTypeOK, Filed
<1>6. use # "any" => stored[k] = Null
  BY Finds DEF Adds
<1>7. use # "any" => Stored' = Stored \union {p}
  BY <1>2, <1>3, <1>6 DEF Stored
<1>8. Spread'
  <2> SUFFICES ASSUME use = "spread"
               PROVE  Spread'
    BY DEF Spread, Adds
  <2>1. head[b] = Null
    BY <1>6 DEF HashInv, Spread
  <2>2. \A l \in Keys : head'[hash[l]] = stored'[l]
    BY <1>1, <1>3 DEF HashInv, Spread, Adds, HashTypeOK
  <2>3. \A q \in Stored' : cell'[q].next = Null
    BY <1>1, <1>2, <1>7, <2>1 DEF HashInv, Spread, Adds
  <2> QED
    BY <2>2, <2>3 DEF HashInv, Spread, Adds
<1>9. Kept'
  <2> SUFFICES ASSUME use = "keeping"
               PROVE  \E rank : Ranked(rank)'
    BY DEF Kept, Adds
  <2>1. PICK rank : Ranked(rank)
    BY DEF HashInv, Kept
  <2> PICK more : more = [q \in Pointer |-> IF q = p THEN Count + 1 ELSE rank[q]]
    OBVIOUS
  <2>2. Count \in Nat /\ Count' = Count + 1
    <3>1. Cardinality(Stored \union {p}) = Cardinality(Stored) + 1
      BY <1>1, <1>2, StoredType, FS_AddElement
    <3> QED
      BY <1>1, <1>7, <3>1, StoredType DEF Count
  <2>3. /\ rank \in [Pointer -> 0..Count] /\ Null \in Pointer /\ Stored \subseteq Pointer
        /\ \A q \in Pointer : q \in Stored <=> rank[q] > 0
    BY <1>1, <2>1 DEF Ranked, Pointer
  <2>4. /\ more \in [Pointer -> 0..Count'] /\ more[p] = Count + 1
        /\ \A q \in Pointer : q # p => more[q] = rank[q]
        /\ \A q \in Stored \union {Null} : more[q] = rank[q]
    BY <1>1, <1>2, <2>2, <2>3
  <2>5. \A q \in Pointer : q \in Stored' <=> more[q] > 0
    BY <1>2, <1>7, <2>2, <2>3, <2>4
  <2>6. \A q, r \in Stored' : more[q] = more[r] => q = r
    <3>1. \A q, r \in Stored : more[q] = more[r] => q = r
      <4> TAKE q, r \in Stored
      <4>1. more[q] = rank[q] /\ more[r] = rank[r]
        BY <2>4
      <4>2. rank[q] = rank[r] => q = r
        BY <2>1 DEF Ranked
      <4> QED
        BY <4>1, <4>2
    <3>2. \A q \in Stored : more[q] # more[p]
      BY <2>2, <2>3, <2>4
    <3> QED
      BY <1>7, <3>1, <3>2
  <2>7. firstItem' \in Stored' \union {Null} /\ more[firstItem'] = Count'
    BY <1>7, <2>2, <2>4 DEF Adds
  <2>8. /\ \A q \in Stored : cell'[q].unIndex = cell[q].unIndex /\ cell'[q].next = cell[q].next
                          /\ cell'[q].nextInTheList = cell[q].nextInTheList
        /\ cell'[p].unIndex = b /\ cell'[p].next = head[b]
        /\ cell'[p].nextInTheList = firstItem
    BY <1>1, <1>2 DEF Adds
  \* The new item is after all others.
  <2>9. ASSUME NEW q, NEW d, NEW r \in 0..(Count + 1), Before(Stored, cell, rank, q, d, r)
        PROVE  Before(Stored', cell', more, q, d, r)
    <3>1. q \in Stored \union {Null} /\ more[q] = rank[q]
      BY <2>4, <2>9 DEF Before
    <3>2. q = Null \/ (q \in Stored' /\ cell'[q].unIndex = d)
      BY <1>7, <2>8, <2>9 DEF Before
    <3>3. ASSUME NEW o \in Stored', cell'[o].unIndex = d, more[o] < r
          PROVE  more[o] <= more[q]
      <4>1. o # p /\ o \in Stored
        BY <1>7, <2>2, <2>4, <2>9, <3>3
      <4> QED
        BY <2>4, <2>8, <2>9, <3>1, <3>3, <4>1 DEF Before
    <3> QED
      BY <2>9, <3>1, <3>2, <3>3 DEF Before
  <2>10. ASSUME NEW q \in Stored'
         PROVE  /\ cell'[q].nextInTheList \in Stored' \union {Null}
                /\ more[cell'[q].nextInTheList] = more[q] - 1
                /\ Before(Stored', cell', more, cell'[q].next, cell'[q].unIndex, more[q])
    <3>1. CASE q = p
      <4>1. firstItem \in Stored \union {Null} /\ more[firstItem] = Count
        BY <2>1, <2>4 DEF Ranked
      <4>2. Before(Stored, cell, rank, head[b], b, Count + 1)
        BY <1>1, <2>1 DEF Ranked
      <4>3. Before(Stored', cell', more, head[b], b, Count + 1)
        BY <2>2, <2>9, <4>2
      <4> QED
        BY <1>7, <2>2, <2>4, <2>8, <3>1, <4>1, <4>3
    <3>2. CASE q # p
      <4>1. q \in Stored /\ rank[q] \in 0..(Count + 1) /\ more[q] = rank[q]
        BY <1>7, <2>2, <2>3, <2>4, <3>2
      <4>2. /\ cell[q].nextInTheList \in Stored \union {Null}
            /\ rank[cell[q].nextInTheList] = rank[q] - 1
            /\ Before(Stored, cell, rank, cell[q].next, cell[q].unIndex, rank[q])
        BY <2>1, <4>1 DEF Ranked
      <4> QED
        BY <1>7, <2>4, <2>8, <2>9, <4>1, <4>2
    <3> QED
      BY <3>1, <3>2
  <2>11. ASSUME NEW d \in Buckets
         PROVE  Before(Stored', cell', more, head'[d], d, Count' + 1)
    <3>1. CASE d = b
      <4>1. head'[d] = p /\ p \in Stored' /\ cell'[p].unIndex = d
        BY <1>1, <1>7, <2>8, <3>1 DEF Adds, HashTypeOK
      <4>2. \A q \in Stored' : more[q] <= Count'
        BY <1>2, <1>7, <2>3, <2>4
      <4> QED
        BY <2>2, <2>4, <4>1, <4>2 DEF Before
    <3>2. CASE d # b
      <4>1. head'[d] = head[d]
        BY <1>1, <3>2 DEF Adds, HashTypeOK
      <4>2. Before(Stored, cell, rank, head[d], d, Count + 1)
        BY <2>1 DEF Ranked
      <4>3. Before(Stored', cell', more, head[d], d, Count + 1)
        BY <2>2, <2>9, <4>2
      <4>4. more[head[d]] < Count' + 1
        <5>1. head[d] \in Pointer
          BY <1>1 DEF HashTypeOK
        <5> QED
          BY <2>2, <2>4, <5>1
      <4>5. \A q \in Stored' : cell'[q].unIndex = d => more[q] < Count + 1
        BY <1>7, <2>2, <2>3, <2>4, <2>8, <3>2
      <4> QED
        BY <4>1, <4>3, <4>4, <4>5 DEF Before
    <3> QED
      BY <3>1, <3>2
  <2>12. Ranked(more)'
    BY <2>4, <2>5, <2>6, <2>7, <2>10, <2>11 DEF Ranked
  <2> QED
    BY <2>12
<1> QED
  BY <1>4, <1>5, <1>8, <1>9 DEF HashInv

LEMMA RemoveInv ==
  ASSUME HashInv, NEW k \in Keys, NEW p, Removes(k, p)
  PROVE  HashInv'
<1>1. HashTypeOK /\ Stored \subseteq Cells /\ Null \notin Cells /\ use # "keeping"
      /\ use' = use /\ p \in Cells
  BY StoredType, HashAssumption DEF HashInv, Removes
<1>2. \A l \in Keys : stored'[l] = IF l = k THEN Null ELSE stored[l]
  BY <1>1 DEF Removes, HashTypeOK
<1>3. Filed'
  <2>1. \A l \in Keys : stored[l] # Null => stored[l] \in Cells
    BY <1>1 DEF HashTypeOK, Pointer
  <2> QED
    BY <1>2, <2>1 DEF Removes, Filed, HashInv
<1>4. HashTypeOK'
  <2>1. head' \in [Buckets -> Pointer]
    <3>1. cell[p].next \in Pointer
      BY <1>1 DEF HashTypeOK, Item
    <3> QED
      BY <1>1, <3>1 DEF Removes, NewHead, HashTypeOK
  <2>2. stored' \in [Keys -> Pointer]
    BY <1>1 DEF Removes, HashTypeOK, Pointer
  <2>3. hash' \in [Keys -> Buckets] /\ use' \in Uses
    BY <1>1 DEF Removes, HashTypeOK
  <2> QED
    BY <1>3, <2>1, <2>2, <2>3 DEF Removes, HashTypeOK, Filed
<1>5. Spread'
  <2> SUFFICES ASSUME use = "spread"
               PROVE  Spread'
    BY <1>1 DEF Spread
  <2>1. p = stored[k] /\ p \in Stored
    BY <1>1, Finds DEF Removes, Stored
  <2>2. cell[p].next = Null /\ cell[p].unIndex = hash[k]
    BY <1>1, <2>1 DEF HashInv, Spread, Filed
  <2>3. \A l \in Keys : head'[hash[l]] = stored'[l]
    <3> TAKE l \in Keys
    <3>1. /\ head'[hash[l]] = IF hash[l] = hash[k] /\ head[hash[l]] = p THEN Null
                              ELSE head[hash[l]]
          /\ head[hash[l]] = stored[l] /\ (hash[l] = hash[k] => l = k)
      BY <1>1, <2>2 DEF HashInv, HashTypeOK, Spread, Removes, NewHead
    <3> QED
      BY <1>2, <2>1, <3>1
  <2>4. Stored' \subseteq Stored
    BY <1>2 DEF Stored
  <2>5. \A q \in Stored' : cell'[q].next = Null
    BY <1>1, <2>2, <2>4 DEF HashInv, Spread, Removes
  <2> QED
    BY <2>3, <2>5 DEF HashInv, Spread, Removes
<1>6. Kept'
  BY <1>1 DEF Kept
<1> QED
  BY <1>3, <1>4, <1>5, <1>6 DEF HashInv

LEMMA NextHash == ASSUME HashInv, [Next]_vars PROVE HashInv'
<1>1. CASE UNCHANGED vars
  <2>1. Stored' = Stored /\ Count' = Count
    BY <1>1 DEF vars, Stored, Count
  <2>2. HashTypeOK' /\ Filed' /\ Spread'
    BY <1>1, <2>1 DEF vars, HashInv, HashTypeOK, Filed, Spread
  <2>3. ASSUME NEW rank
        PROVE  Ranked(rank) => Ranked(rank)'
    BY <1>1, <2>1 DEF vars, Ranked
  <2>4. Kept'
    BY <1>1, <2>3 DEF vars, HashInv, Kept
  <2> QED
    BY <2>2, <2>4 DEF HashInv
<1>2. ASSUME NEW k \in Keys, AddEntryWithKnownHash(k)
      PROVE  HashInv'
  BY <1>2, AddAdds, AddInv DEF HashInv
<1>3. ASSUME NEW k \in Keys, RemoveEntry(k)
      PROVE  HashInv'
  BY <1>3, RemoveRemoves, RemoveInv DEF HashInv
<1> QED
  BY <1>1, <1>2, <1>3 DEF Next

LEMMA HashAlways == Spec => []HashInv
BY InitHash, NextHash, PTL DEF Spec

-----------------------------------------------------------------------------
(* The theorems. *)

\* Whatever use is made of the table, RemoveEntry's writes through stale links
\* included, every link of an item and every head of a chain is the address of an
\* item or null, and a stored item's bucket number is one of the table's.
THEOREM HashTypeCorrect == Spec => []HashTypeOK
<1>1. HashInv => HashTypeOK
  BY DEF HashInv
<1> QED
  BY <1>1, HashAlways, PTL

\* FindEntry answers the item of every key that was added and not removed, and
\* nothing for another key, in a table nothing is removed from (m_memoryItems) and in
\* one whose keys share no bucket: AddEntryWithKnownHash's write to the wrong field
\* harms neither.
THEOREM FindsExactly ==
  ASSUME "any" \notin Uses
  PROVE  Spec => []FindsWhatIsStored
<1>1. HashInv => FindsWhatIsStored
  <2>1. HashInv => use # "any"
    BY DEF HashInv, HashTypeOK
  <2> QED
    BY <2>1, Finds DEF FindsWhatIsStored
<1> QED
  BY <1>1, HashAlways, PTL

\* The iteration of a table nothing is removed from.
LEMMA VisitsInOrder ==
  ASSUME HashTypeOK, NEW rank, Ranked(rank)
  PROVE  /\ DOMAIN Visited = 0..N
         /\ \A n \in 0..N :
              /\ Visited[n] \in Stored \union {Null}
              /\ rank[Visited[n]] = IF n <= Count THEN Count - n ELSE 0
<1> DEFINE at == Visited
           T  == {n \in 0..N : /\ at[n] \in Stored \union {Null}
                               /\ rank[at[n]] = IF n <= Count THEN Count - n ELSE 0}
<1>1. Follows(at, N, firstItem, "nextInTheList")
  BY ChainFollows DEF HashTypeOK, Visited, Links
<1>2. N \in Nat /\ Count \in Nat /\ Stored \subseteq Pointer /\ Null \in Pointer
  BY StoredType, NType DEF Pointer
<1> HIDE DEF at
<1>3. 0 \in T
  BY <1>1, <1>2 DEF Follows, Ranked
<1>4. ASSUME NEW n \in 0..N, n \in T, n < N
      PROVE  n + 1 \in T
  <2>1. at[n + 1] = IF at[n] = Null THEN Null ELSE cell[at[n]]["nextInTheList"]
    <3>1. n + 1 \in 1..N /\ (n + 1) - 1 = n
      BY <1>2, <1>4
    <3> QED
      BY <1>1, <3>1 DEF Follows
  <2>2. /\ rank[Null] = 0 /\ Null \notin Stored
        /\ at[n] \in Stored => rank[at[n]] > 0
    BY <1>2 DEF Ranked, Stored
  <2>3. CASE at[n] = Null
    BY <1>2, <1>4, <2>1, <2>2, <2>3
  <2>4. CASE at[n] # Null
    <3>1. at[n] \in Stored /\ at[n + 1] = cell[at[n]].nextInTheList
      BY <1>4, <2>1, <2>4
    <3>2. at[n + 1] \in Stored \union {Null} /\ rank[at[n + 1]] = rank[at[n]] - 1
      BY <3>1 DEF Ranked
    <3> QED
      BY <1>2, <1>4, <2>2, <3>1, <3>2
  <2> QED
    BY <2>3, <2>4
<1>5. 0..N \subseteq T
  <2> HIDE DEF T
  <2> QED
    BY <1>2, <1>3, <1>4, FromTo
<1>6. DOMAIN at = 0..N
  BY <1>1 DEF Follows
<1> QED
  BY <1>5, <1>6 DEF at

\* The iteration begin(), ++ of a table nothing is removed from visits every item
\* once and ends: the analyzer's destructor, which frees the traces, misses none and
\* frees none twice.
THEOREM IterationIsComplete == Spec => []IterationComplete
<1>1. HashInv => IterationComplete
  <2> SUFFICES ASSUME HashInv, use = "keeping"
               PROVE  /\ {Visited[n] : n \in DOMAIN Visited} \ {Null} = Stored
                      /\ Visited[N] = Null
                      /\ \A m, n \in DOMAIN Visited :
                           m # n /\ Visited[m] = Visited[n] => Visited[m] = Null
    BY DEF IterationComplete, Stored, N
  <2>1. PICK rank : Ranked(rank)
    BY DEF HashInv, Kept
  <2>2. /\ N \in Nat /\ Count \in Nat /\ Count <= N
        /\ Stored \subseteq Pointer /\ Null \notin Stored
    BY StoredType, NType DEF HashInv, Pointer, Stored
  <2>3. /\ DOMAIN Visited = 0..N
        /\ \A n \in 0..N : /\ Visited[n] \in Stored \union {Null}
                            /\ rank[Visited[n]] = IF n <= Count THEN Count - n ELSE 0
    BY <2>1, VisitsInOrder DEF HashInv
  <2>4. /\ \A p \in Stored : rank[p] > 0 /\ rank[p] \in 0..Count
        /\ \A p, q \in Stored : rank[p] = rank[q] => p = q
    BY <2>1, <2>2 DEF Ranked
  <2> HIDE DEF Visited
  <2>5. ASSUME NEW p \in Stored
        PROVE  \E n \in 0..N : Visited[n] = p
    <3>1. Count - rank[p] \in 0..N /\ Count - rank[p] <= Count
          /\ Count - (Count - rank[p]) = rank[p]
      BY <2>2, <2>4
    <3>2. /\ rank[Visited[Count - rank[p]]] = rank[p]
          /\ Visited[Count - rank[p]] \in Stored \union {Null}
      BY <2>3, <3>1
    <3>3. rank[Null] = 0
      BY <2>1, <2>2 DEF Ranked, Pointer
    <3>4. Visited[Count - rank[p]] \in Stored
      BY <2>4, <3>2, <3>3
    <3> QED
      BY <2>4, <3>1, <3>2, <3>4
  <2>6. Visited[N] = Null
    BY <2>2, <2>3, <2>4
  <2>7. ASSUME NEW m \in 0..N, NEW n \in 0..N, m # n, Visited[m] = Visited[n]
        PROVE  Visited[m] = Null
    BY <2>2, <2>3, <2>4, <2>7
  <2> QED
    BY <2>2, <2>3, <2>5, <2>6, <2>7
<1> QED
  BY <1>1, HashAlways, PTL
=============================================================================
