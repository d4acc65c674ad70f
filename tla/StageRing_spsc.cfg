SPECIFICATION Spec
CHECK_DEADLOCK FALSE
CONSTANTS
  NoThread = NoThread
  Producers = {p1}
  Consumers = {c1}
  Locked = {}
  Policy = "Block"
  SpuriousCas = TRUE
  Capacity = 2
  MaxPush = 5
INVARIANT RingInv
INVARIANT NoSlotRace
INVARIANT EmptyReadMeansServed
PROPERTY RefinesFifo
