CONSTANTS
  Threads = {main, t1, t2}
  Main = main
  Addrs = {a1, a2, a3}
  Stacks = {s1, s2}
  Null = Null
  Limit = 2
  CanFail = TRUE
  Habits = {}
SYMMETRY LeakSymmetry
SPECIFICATION Spec
INVARIANTS LeakTypeOK RegisteredIsAllocated CountsExact NoLeakAssertFails TablesUsedSafely NoReentry NoLeakMissed
PROPERTIES NoFalseLeak ImplementsWatch
CHECK_DEADLOCK FALSE
