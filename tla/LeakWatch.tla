------------------------------ MODULE LeakWatch ------------------------------
(***************************************************************************)
(* What the leak-only analyzer promises, without threads, locks and tables *)
(* (see LeakOnly, which implements this specification): a block is watched *)
(* from the time it is registered with the stack it was allocated from; it *)
(* is given back to libc only unwatched; and the alarm goes off with the   *)
(* very block that makes the watched blocks of one stack too many.         *)
(***************************************************************************)
EXTENDS Naturals, FiniteSets

CONSTANTS Blocks, Sites, Nowhere, Allowed

VARIABLES
  allocated,  \* blocks libc has handed out
  from,       \* the site of a watched block, else Nowhere
  alarm       \* a leak was reported

watchVars == <<allocated, from, alarm>>

Unwatched == [b \in Blocks |-> Nowhere]

WatchInit == allocated = {} /\ from = Unwatched /\ alarm = FALSE

\* The watched blocks of one site.
Of(s) == {b \in Blocks : from[b] = s}

Obtain(b) ==
  /\ b \notin allocated
  /\ allocated' = allocated \union {b}
  /\ UNCHANGED <<from, alarm>>

\* The first block of a site never is one too many.
Watch(b, s) ==
  /\ b \in allocated /\ from[b] = Nowhere
  /\ from' = [from EXCEPT ![b] = s]
  /\ alarm' = (alarm \/ (Of(s) # {} /\ Cardinality(Of(s)) >= Allowed))
  /\ UNCHANGED allocated

Unwatch(b) ==
  /\ from[b] # Nowhere
  /\ from' = [from EXCEPT ![b] = Nowhere]
  /\ UNCHANGED <<allocated, alarm>>

GiveBack(b) ==
  /\ b \in allocated /\ from[b] = Nowhere
  /\ allocated' = allocated \ {b}
  /\ UNCHANGED <<from, alarm>>

\* The tables are made anew, or deleted.
Forget == from' = Unwatched /\ UNCHANGED <<allocated, alarm>>

WatchNext ==
  \/ \E b \in Blocks : \/ Obtain(b) \/ Unwatch(b) \/ GiveBack(b)
                       \/ \E s \in Sites : Watch(b, s)
  \/ Forget

WatchSpec == WatchInit /\ [][WatchNext]_watchVars
=============================================================================
