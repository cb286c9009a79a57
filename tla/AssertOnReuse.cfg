CONSTANTS
  Threads = {t1}
  Addrs = {a1, a2}
  Stacks = {s1, s2}
  Traces = {r1, r2, r3, r4}
  Types = {"New", "Malloc"}
  Null = Null
  Early = {}
  Pool = {}
  InitialLimit = 3
  Limits = {}
  Callbacks = {"default"}
  Verdicts = {"DoNotMakeActionToPreventCrash"}
  LeakVerdicts = {"DoNotMakeActionToPreventCrash"}
  Misuse = {}
  CanReuse = TRUE
  CanFail = FALSE
  Nested = FALSE
SYMMETRY Symmetry
SPECIFICATION Spec
INVARIANTS NoAssertFails
CHECK_DEADLOCK FALSE
