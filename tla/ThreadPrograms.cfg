CONSTANTS
  Target = 3
  K = 3
  Windows = {wA, wB, wC}
  Total = 4
  ThreadsA = {a0, a1}
  ThreadsB = {b}
SPECIFICATION Spec
INVARIANTS CountExact InTurn NumberIsNewEnough OwnerIsAwake
PROPERTIES NobodyStops AllServed CalledPrints EndsOtherwise
CHECK_DEADLOCK FALSE
