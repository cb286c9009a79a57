CONSTANTS
  Threads = {t1, t2}
  Addrs = {a1, e1}
  Stacks = {s1}
  Traces = {r1, r2, r3, r4}
  Types = {"Malloc"}
  Null = Null
  Early = {e1}
  Pool = {}
  InitialLimit = 2
  Limits = {}
  Callbacks = {"user"}
  Verdicts = {"DoNotMakeActionToPreventCrash"}
  LeakVerdicts = {"ExitApp"}
  Misuse = {"stale"}
  CanReuse = TRUE
  CanFail = FALSE
  Nested = FALSE
SYMMETRY Symmetry
SPECIFICATION Spec
INVARIANTS TypeOK HeapAgrees NoBlockFreedTwice TracesOwnedOnce NoTraceFreedTwice ReportsReadOwnTraces
CHECK_DEADLOCK FALSE
