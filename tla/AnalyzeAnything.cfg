CONSTANTS
  Threads = {t1, t2}
  Addrs = {a1, a2}
  Stacks = {s1}
  Traces = {r1, r2}
  Types = {"Malloc"}
  Null = Null
  Early = {}
  Pool = {}
  InitialLimit = 3
  Limits = {0}
  Callbacks = {"default", "user"}
  Verdicts = {"MakeAction", "DoNotMakeActionToPreventCrash", "ExitApp"}
  LeakVerdicts = {"MakeAction", "DoNotMakeActionToPreventCrash", "ExitApp"}
  Misuse = {"wild"}
  CanReuse = FALSE
  CanFail = TRUE
  Nested = TRUE
SPECIFICATION FairSpec
INVARIANTS LockDiscipline
PROPERTIES MutexReleased CallsEnd
CHECK_DEADLOCK FALSE
