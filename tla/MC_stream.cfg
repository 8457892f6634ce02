SPECIFICATION StreamSpec
CONSTANTS
  a1 = a1  o1 = o1  o2 = o2  r1 = r1  r2 = r2
  Objects = {o1, o2}
  Aliases = {a1}
  Refs = {r1, r2}
  Configs <- OneHost
  Null = Null
  Absent = Absent
  Shutdown = Shutdown
  ReconstructModes = {TRUE}
  ConnectMayFail = TRUE
  Serialized = FALSE
  MaxCount = 1
SYMMETRY Sym
INVARIANTS
  StreamHandleAllocated
  SharedStreamStaysOpen
PROPERTIES
  OnlyCallbackCloses
  AggregateReportsFailure
