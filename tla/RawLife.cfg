CONSTANTS
  BufferSize = 6
  HeaderSize = 1
  W = 64
  Requests = {0, 1, 3}
  Factors = {2}
  Null = Null
  Libc = {a, b}
  Missing = {"free"}
  Counts = {5, 61}
  Aligns = {0, 17}
  DefaultAlign = 16
  PointerSize = 2
  WordBits = 6
  Habits = {"threads"}
SPECIFICATION RawSpec
INVARIANTS PoolTypeOK BlocksDisjoint NothingStranded Chained NoPoolAssertFails RawTypeOK HomeKept NeverCallsNull AlignmentLeast
PROPERTIES TrimmingEnds CallsAnswered NothingDropped
CHECK_DEADLOCK FALSE
