SPECIFICATION BuildSpec
CONSTANTS
  main = main
  fa = fa
  fb = fb
  fc = fc
  cxx = cxx
  method = method
  l1 = l1
  l2 = l2
  work1 = work1
  work2 = work2
  Order <- KeyOrder
  MainFn = main
  Methods = {method}
  CxxFunctions = {cxx}
  Labels = {l1, l2}
  Inputs <- OneOrTwoSources
  Projects <- AllProjects
  WorkloadValues <- Workloads
  StackLimit = 4
INVARIANTS
  CallersExact
  OverflowOnlyOnCycle
  OneLinePerLabel
  BinaryExact
  OneWorkload
PROPERTIES
  ToolEnds
CHECK_DEADLOCK TRUE
