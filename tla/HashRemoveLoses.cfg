CONSTANTS
  Keys = {k1, k2, k3}
  Buckets = {b1, b2, b3}
  Cells = {c1, c2, c3, c4}
  Uses = {"any"}
  Null = Null
SYMMETRY HashSymmetry
SPECIFICATION Spec
INVARIANTS FindsWhatIsStored
CHECK_DEADLOCK FALSE
