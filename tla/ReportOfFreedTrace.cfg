CONSTANTS
  Threads = {t1, t2}
  Addrs = {a1, a2}
  Stacks = {s1}
  Traces = {r1, r2, r3, r4}
  Types = {"New", "Malloc"}
  Null = Null
  Early = {}
  Pool = {}
  InitialLimit = 3
  Limits = {}
  Callbacks = {"default"}
  Verdicts = {"DoNotMakeActionToPreventCrash"}
  LeakVerdicts = {"DoNotMakeActionToPreventCrash"}
  Misuse = {"stale"}
  CanReuse = TRUE
  CanFail = FALSE
  Nested = FALSE
SYMMETRY Symmetry
SPECIFICATION Spec
INVARIANTS ReportsReadLiveTraces
CHECK_DEADLOCK FALSE
