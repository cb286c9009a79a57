----------------------------- MODULE MCLeakOnly -----------------------------
(* Model-checking definitions for LeakOnly. *)
EXTENDS LeakOnly, TLC

\* Addresses, stacks and the threads other than Main are interchangeable.
LeakSymmetry ==
  Permutations(Addrs) \union Permutations(Stacks)
    \union Permutations(Threads \ {Main})
=============================================================================
