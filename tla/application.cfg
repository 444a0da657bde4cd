SPECIFICATION Spec
CONSTANTS
  a = a  b = b  c = c  idle = idle  x = x  y = y  z = z  tp = tp  ts = ts
  m1 = m1  m2 = m2  mu = mu
  Thread = {a, b, c, idle}
  MaxPrio = 3
  Queue = {mqq, mbr, mbs, mpq, evq, hpq}
  Defunct = defunct
  First = a
  BasePrio <- MCBasePrio
  ReadyOrder <- MCReadyOrder
  Idle = idle
  Isr = isr
  Object = {"mq", "mb", "mp", "event", "timer", "heap"}
  Item = {x, y, z}
  None = none
  Programs <- MCPrograms
  MqWaiters = mqq
  Block = {1, 2}
  Msg = {m1, m2, mu}
  UrgentMsg = {mu}
  FreeOrder <- MCFreeOrder
  MbReceivers = mbr
  MbSenders = mbs
  MbSize = 2
  MpWaiters = mpq
  ListOrder <- MCListOrder
  MaxSuspended = 3
  EvWaiters = evq
  Bit = {0, 1}
  Request <- MCRequest
  HeapWaiters = hpq
  MemSize = 18
  Header = 3
  MinSize = 3
  Sizes = {2, 9}
  SoftTimers = {tp, ts}
  SoftPeriodic = {tp}
  TimerThread = a
  SoftUses <- MCSoftUses
  SoftCallback <- MCSoftCallback
  SoftNaps = {ts}
SYMMETRY MCSymmetry
INVARIANTS
  TypeOK
  Consistent
  BlocksConserved
  NoLostWakeUp
  NoTimerForgottenOnceSeen
  HeapSound
PROPERTIES
  ClearedForOthers
  ImplementFifo
