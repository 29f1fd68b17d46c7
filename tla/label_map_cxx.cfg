SPECIFICATION Spec
CONSTANTS
  main = main
  fa = fa
  fb = fb
  fc = fc
  cxx = cxx
  method = method
  l1 = l1
  l2 = l2
  Order <- KeyOrder
  MainFn = main
  Methods = {method}
  CxxFunctions = {cxx}
  Labels = {l1, l2}
  Inputs <- OneOrTwoSources
  StackLimit = 4
INVARIANTS
  OnlyExternC
CHECK_DEADLOCK TRUE
