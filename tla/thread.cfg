SPECIFICATION FairSpec
CONSTANTS
  a = a  b = b  c = c  d = d  idle = idle
  Thread = {a, b, c, d, idle}
  MaxPrio = 3
  Queue = {}
  Defunct = defunct
  Nobody = nobody
  First = c
  BasePrio <- MCBasePrio
  ReadyOrder <- MCReadyOrder
  Idle = idle
  MaxNest = 2
  Controls <- MCControls
  Deletes <- MCControls
  Creates <- MCCreates
  Sleepers = {a, c}
  Exiting = {c, d}
  Signalled = {c}
  Static = {c}
INVARIANTS
  TypeOK
  Consistent
  FreedIsGone
PROPERTIES
  ClosedIsFinal
  CriticalKeepsProcessor
  EqualShare
