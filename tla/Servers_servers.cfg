SPECIFICATION Spec
CONSTANTS
  small = small
  large = large
  s1 = s1
  s2 = s2
  a = a
  b = b
  Models = {small, large}
  MaxClients = 2
  MaxJobs = 2
  Servers = {s1, s2}
  Buckets = {a, b}
  MaxFiles = 2
  MaxMoves = 1
  MaxFaults = 1
  Nobody = Nobody
INVARIANTS TypeOK ModelKept ReadyIsServed
PROPERTIES FinishedStays 
CHECK_DEADLOCK FALSE
