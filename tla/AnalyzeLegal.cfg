CONSTANTS
  Threads = {t1, t2}
  Addrs = {a1, a2, a3, p1}
  Stacks = {s1, s2}
  Traces = {r1, r2, r3, r4}
  Types = {"New", "Malloc"}
  Null = Null
  Early = {}
  Pool = {p1}
  InitialLimit = 2
  Limits = {0}
  Callbacks = {"default"}
  Verdicts = {"DoNotMakeActionToPreventCrash"}
  LeakVerdicts = {"DoNotMakeActionToPreventCrash"}
  Misuse = {}
  CanReuse = TRUE
  CanFail = FALSE
  Nested = FALSE
SYMMETRY Symmetry
SPECIFICATION Spec
INVARIANTS NoFalseAlarm
CHECK_DEADLOCK FALSE
