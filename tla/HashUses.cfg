CONSTANTS
  Keys = {k1, k2, k3}
  Buckets = {b1, b2, b3}
  Cells = {c1, c2, c3, c4}
  Uses = {"keeping", "spread"}
  Null = Null
SYMMETRY HashSymmetry
SPECIFICATION Spec
INVARIANTS HashTypeOK FindsWhatIsStored IterationComplete
CHECK_DEADLOCK FALSE
