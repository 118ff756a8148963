CONSTANTS
  Ctx = {c1, c2, c3, c4, c5, c6}
  Times = {0, 1, 2}
  InitCapa = 0
SPECIFICATION Spec
SYMMETRY Symmetry
INVARIANTS
  TypeOK
  OwnersKnowTheirSlots
  HeapOrder
PROPERTY
  ImplementsTimerQueue
