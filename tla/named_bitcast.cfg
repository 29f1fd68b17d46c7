SPECIFICATION Spec
CONSTANTS
  main = main
  kernel = kernel
  helper = helper
  cxx = cxx
  mangled = mangled
  hostLoad = hostLoad
  memcpy = memcpy
  dbg = dbg
  sin = sin
  a = a
  v = v
  w = w
  x = x
  y = y
  cast = cast
  exit = exit
  body = body
  NoName = NoName
  Empty = Empty
  MainFn = main
  Recorded = {memcpy}
  Ignored = {dbg}
  Special <- HostLoad
  SpecialMath = {sin}
  Modules <- Programs
INVARIANT ArtificialIds
CHECK_DEADLOCK TRUE
