SPECIFICATION FairSpec
CONSTANTS
  m = m
  w1 = w1
  w2 = w2
  main = main
  work = work
  kernel = kernel
  aux = aux
  helper = helper
  default = default
  n1 = n1
  n2 = n2
  Threads = {m, w1}
  NoThread = NoThread
  Names = {default, n1, n2}
  DefaultName = default
  NoFile = NoFile
  Funcs = {main, work, kernel, aux, helper}
  NoFunc = NoFunc
  NoTrace = NoTrace
  Tracked = {kernel, aux}
  TopLevelMode = TRUE
  HasLabelMap = TRUE
  OpenMayFail = TRUE
  Main = m
  MainFn = main
  WorkerFn = work
  Native = {main, kernel, aux, helper}
  Calls <- KernelInsideKernel
  Namers = {work}
  NameOf <- DistinctNames
  NameEveryCall = FALSE
  JoinsThreads = TRUE
  Budget <- OneFive
  MaxDepth = 4
PROPERTIES
  NestedCallsAbort
  ProcessEnds
CHECK_DEADLOCK TRUE
