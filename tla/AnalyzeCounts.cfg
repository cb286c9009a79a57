CONSTANTS
  Threads = {t1, t2}
  Addrs = {a1, a2, a3}
  Stacks = {s1, s2}
  Traces = {r1, r2, r3, r4}
  Types = {"Malloc"}
  Null = Null
  Early = {}
  Pool = {}
  InitialLimit = 2
  Limits = {0, 1}
  Callbacks = {"user"}
  Verdicts = {"DoNotMakeActionToPreventCrash"}
  LeakVerdicts = {"ExitApp"}
  Misuse = {"stale"}
  CanReuse = TRUE
  CanFail = FALSE
  Nested = FALSE
SYMMETRY Symmetry
SPECIFICATION CountSpec
INVARIANTS StackTableExact NoAssertFails
PROPERTIES LeakReportExact
CHECK_DEADLOCK FALSE
