------------------------------ MODULE HashItems ------------------------------
(***************************************************************************)
(* cpputilsm::HashItemsByPtr, the table behind m_memoryItems and           *)
(* m_stackItems, pointer by pointer: every item is linked in the chain of  *)
(* its bucket (prev, next) and in the list of all items (prevInTheList,    *)
(* nextInTheList).  A freed item keeps its bytes until its memory is       *)
(* handed out again.                                                       *)
(*                                                                         *)
(* AddEntryWithKnownHash links the list's old first item back through its  *)
(* prev, not through its prevInTheList.  The specification has the line as *)
(* it is; which uses of the table bear it is what the properties tell.     *)
(***************************************************************************)
EXTENDS Naturals, FiniteSets

CONSTANTS
  Keys, Buckets,
  Cells,        \* addresses of items
  Uses,         \* the ways the table is used: a subset of UseKinds
  Null

\* "keeping" never removes (m_memoryItems); "spread" removes, and no two keys
\* share a bucket; "any" removes under any hash (m_stackItems).
UseKinds == {"keeping", "spread", "any"}

ASSUME HashAssumption == /\ Uses \subseteq UseKinds
                         /\ IsFiniteSet(Cells)
                         /\ Null \notin Cells \union Keys

VARIABLES
  cell,         \* the fields of the items, freed ones included
  head,         \* m_ppItems
  firstItem,    \* m_pFirstItem
  stored,       \* ghost: the keys added and not removed, and their cells
  hash, use     \* the hash function and the use made of the table

vars == <<cell, head, firstItem, stored, hash, use>>

Pointer == Cells \union {Null}
Item == [first : Keys \union {Null}, unIndex : Buckets \union {Null},
         prev : Pointer, next : Pointer,
         prevInTheList : Pointer, nextInTheList : Pointer]

HashTypeOK ==
  /\ cell \in [Cells -> Item]
  /\ head \in [Buckets -> Pointer] /\ firstItem \in Pointer
  /\ stored \in [Keys -> Pointer]
  /\ \A k \in Keys : stored[k] # Null => cell[stored[k]].unIndex \in Buckets
  /\ hash \in [Keys -> Buckets] /\ use \in Uses

Init ==
  /\ cell = [i \in Cells |->
       [first |-> Null, unIndex |-> Null, prev |-> Null, next |-> Null,
        prevInTheList |-> Null, nextInTheList |-> Null]]
  /\ head = [b \in Buckets |-> Null] /\ firstItem = Null
  /\ stored = [k \in Keys |-> Null]
  /\ hash \in [Keys -> Buckets] /\ use \in Uses
  /\ use = "spread" => \A k, l \in Keys : hash[k] = hash[l] => k = l

\* Memory allocFn may return.
FreeCells == Cells \ {stored[k] : k \in Keys}

\* Items c after p->f = v; nothing is written through a null pointer.
Put(c, p, f, v) == IF p = Null THEN c ELSE [c EXCEPT ![p][f] = v]

\* The items from p on, along their field link: the one after n steps, if any.  A
\* chain that runs in circles has visited all its items when n is their number.
Chain(p, link) ==
  LET at[n \in 0..Cardinality(Cells)] ==
        IF n = 0 THEN p
        ELSE IF at[n - 1] = Null THEN Null ELSE cell[at[n - 1]][link]
  IN at

\* FindEntryRaw: the first item of the bucket's chain with the key k.
FindEntryRaw(k) ==
  LET at    == Chain(head[hash[k]], "next")
      found == {n \in DOMAIN at : at[n] # Null /\ cell[at[n]].first = k}
  IN IF found = {} THEN Null
     ELSE at[CHOOSE n \in found : \A m \in found : n <= m]

\* Mutant: the chain of the bucket starts anew.
MutantChainHead(b) == Null

\* What a new item of bucket b has for next.
ChainHead(b) == head[b]

\* Mutant: the list of all items starts anew.
MutantListHead == Null

\* What a new item has for nextInTheList.
ListHead == firstItem

\* Mutant: the bucket number is not kept.
MutantUnIndex(b) == Null

\* What a new item of bucket b remembers for its removal.
UnIndex(b) == b

\* AddEntryWithKnownHash.
AddEntryWithKnownHash(k) ==
  /\ FindEntryRaw(k) = Null
  /\ \E p \in FreeCells :
       LET b == hash[k]
           c == [cell EXCEPT ![p] = [first |-> k, unIndex |-> UnIndex(b),
                                     prev |-> Null,
                                     next |-> ChainHead(b),
                                     prevInTheList |-> Null,
                                     nextInTheList |-> ListHead]]
       IN /\ cell' = Put(Put(c, head[b], "prev", p), firstItem, "prev", p)
          /\ head' = [head EXCEPT ![b] = p]
          /\ firstItem' = p
          /\ stored' = [stored EXCEPT ![k] = p]
  /\ UNCHANGED <<hash, use>>

\* m_ppItems after the item at p was taken out of its chain.
NewHead(p) ==
  [b \in Buckets |-> IF b = cell[p].unIndex /\ head[b] = p THEN cell[p].next
                     ELSE head[b]]

\* RemoveEntry, of what FindEntry found.
RemoveEntry(k) ==
  LET p  == FindEntryRaw(k)
      c1 == Put(cell, cell[p].next, "prev", cell[p].prev)
      c2 == Put(c1, c1[p].prev, "next", c1[p].next)
      c3 == Put(c2, c2[p].nextInTheList, "prevInTheList", c2[p].prevInTheList)
      c4 == Put(c3, c3[p].prevInTheList, "nextInTheList", c3[p].nextInTheList)
  IN
  /\ use # "keeping" /\ p # Null
  /\ cell' = c4
  /\ head' = NewHead(p)
  /\ firstItem' = IF p = firstItem THEN c4[p].nextInTheList ELSE firstItem
  /\ stored' = [stored EXCEPT ![k] = Null]
  /\ UNCHANGED <<hash, use>>

Next == \E k \in Keys : AddEntryWithKnownHash(k) \/ RemoveEntry(k)

Spec == Init /\ [][Next]_vars

-----------------------------------------------------------------------------
(* Properties. *)

\* FindEntry finds the item of every key that was added and not removed, and no
\* other: the assertion of TestOperatorDelete and TestOperatorReAlloc rests on
\* it (m_stackItems.FindEntry(allocTrace) != s_endIter).
FindsWhatIsStored == \A k \in Keys : FindEntryRaw(k) = stored[k]

\* Items in the order of the iteration begin(), ++, the one after n steps.
Visited == Chain(firstItem, "nextInTheList")

\* The iteration of a table nothing is removed from (the one of the analyzer's
\* destructor, which frees the traces) visits every item once, and ends.
IterationComplete ==
  use = "keeping" =>
    /\ {Visited[n] : n \in DOMAIN Visited} \ {Null}
         = {stored[k] : k \in Keys} \ {Null}
    /\ Visited[Cardinality(Cells)] = Null
    /\ \A m, n \in DOMAIN Visited :
         m # n /\ Visited[m] = Visited[n] => Visited[m] = Null

=============================================================================
