CONSTANTS
  Threads = {t1, t2}
  Addrs = {a1, a2}
  Stacks = {s1}
  Traces = {r1, r2, r3}
  Types = {"New", "Malloc"}
  Null = Null
  Early = {}
  Pool = {}
  InitialLimit = 1
  Limits = {}
  Callbacks = {"user"}
  Verdicts = {"DoNotMakeActionToPreventCrash"}
  LeakVerdicts = {"ExitApp"}
  Misuse = {"stale"}
  CanReuse = TRUE
  CanFail = FALSE
  Nested = FALSE
SPECIFICATION FairSpec
INVARIANTS TracesOwnedOnce
PROPERTIES ImplementsLedger
CHECK_DEADLOCK FALSE
