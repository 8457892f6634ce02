SPECIFICATION FairSpec
CONSTANTS
  a1 = a1  a2 = a2  o1 = o1  o2 = o2  o3 = o3  r1 = r1  r2 = r2  r3 = r3
  Objects = {o1, o2}
  Aliases = {a1, a2}
  Refs = {r1, r2}
  Configs <- TwoHosts
  Null = Null
  Absent = Absent
  Shutdown = Shutdown
  ReconstructModes = {TRUE}
  ConnectMayFail = FALSE
  Serialized = FALSE
  MaxCount = 1
INVARIANTS
  CountCoversUsers
  NoConcurrentConnect
PROPERTIES
  CallsReturn
  ShutdownFinishes
