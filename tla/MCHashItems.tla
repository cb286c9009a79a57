----------------------------- MODULE MCHashItems -----------------------------
(* Model-checking definitions for HashItems. *)
EXTENDS HashItems, TLC

\* Keys, buckets and items are interchangeable.
HashSymmetry ==
  Permutations(Keys) \union Permutations(Buckets) \union Permutations(Cells)
=============================================================================
