SPECIFICATION Spec
CONSTANTS
  main = main
  kernel = kernel
  helper = helper
  cxx = cxx
  mangled = mangled
  hostLoad = hostLoad
  memcpy = memcpy
  dbg = dbg
  sin = sin
  a = a
  v = v
  w = w
  x = x
  y = y
  cast = cast
  exit = exit
  body = body
  NoName = NoName
  Empty = Empty
  MainFn = main
  Recorded = {memcpy}
  Ignored = {dbg}
  Special <- HostLoad
  SpecialMath = {sin}
  Modules <- Programs
INVARIANTS
  TypeOK
  HooksAround
  EveryPathSwitches
  BuffersDominate
  BuffersFit
  IdsUnique
  OperandsAgree
  SlotsOfSource
  BlocksNamed
  CallArgsMatch
  ValuesShown
CHECK_DEADLOCK TRUE
