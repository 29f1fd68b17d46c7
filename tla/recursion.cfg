SPECIFICATION Spec
CONSTANTS
  m = m
  w1 = w1
  w2 = w2
  main = main
  work = work
  kernel = kernel
  aux = aux
  helper = helper
  default = default
  n1 = n1
  n2 = n2
  Threads = {m}
  NoThread = NoThread
  Names = {default, n1, n2}
  DefaultName = default
  NoFile = NoFile
  Funcs = {main, work, kernel, aux}
  NoFunc = NoFunc
  NoTrace = NoTrace
  Tracked = {kernel}
  TopLevelMode = TRUE
  HasLabelMap = TRUE
  OpenMayFail = FALSE
  Main = m
  MainFn = main
  WorkerFn = work
  Native = {main, kernel, aux}
  Calls <- Recursion
  Namers = {work}
  NameOf <- Unnamed
  NameEveryCall = TRUE
  JoinsThreads = TRUE
  Budget <- Five
  MaxDepth = 4
INVARIANTS
  UncalledAssertTruthful
CHECK_DEADLOCK TRUE
