SPECIFICATION Spec
CONSTANTS
  a = a  b = b  c = c  idle = idle
  Thread = {a, b, c, idle}
  MaxPrio = 3
  Queue = {sq}
  Defunct = defunct
  Waiters = sq
  InitValue = 1
  MaxValue = 2
  First = a
  BasePrio <- MCBasePrio
  ReadyOrder <- MCReadyOrder
  Idle = idle
INVARIANTS
  NoWildResume
