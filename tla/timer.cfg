SPECIFICATION FairSpec
CONSTANTS
  p = p  s = s  c1 = c1  c2 = c2
  Timer = {p, s}
  Client = {c1, c2}
  TickRange = 8
  Times = {1, 2}
  MaxLag = 1
  Setups <- Programs
  Periodic = {p}
  Nothing = nothing
INVARIANTS
  TypeOK
  Sorted
  FlagAgrees
  DetachedStaysOut
PROPERTIES
  NotEarly
  NotLate
  SameTickFifo
  CheckEnds
