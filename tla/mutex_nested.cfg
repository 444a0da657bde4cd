SPECIFICATION Spec
CONSTANTS
  a = a  b = b  c = c  idle = idle  m1 = m1  m2 = m2
  Thread = {a, b, c, idle}
  MaxPrio = 4
  Queue = {m1, m2}
  Mutexes = {m1, m2}
  Defunct = defunct
  Nobody = nobody
  MaxHold = 1
  First = a
  BasePrio <- MCBasePrio
  ReadyOrder <- MCReadyOrder
  Idle = idle
  Uses <- UsesBoth
  Sleepers = {a, b}
  Deletable = {}
INVARIANTS
  OwnerInherits
