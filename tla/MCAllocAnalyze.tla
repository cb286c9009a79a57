--------------------------- MODULE MCAllocAnalyze ---------------------------
(* Model-checking definitions for AllocAnalyze. *)
EXTENDS AllocAnalyze, TLC

\* Threads, traces, stacks and the addresses that no constant names are each
\* interchangeable.
Symmetry ==
  Permutations(Threads) \union Permutations(Traces) \union Permutations(Stacks)
    \union Permutations(Addrs \ (Early \union Pool))
=============================================================================
