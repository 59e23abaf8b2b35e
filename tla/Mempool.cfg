SPECIFICATION Spec
CONSTANTS
  CAPACITY = 4
  MaxLent = 2
  MaxArena = 2
INVARIANTS NoSlotLost
CHECK_DEADLOCK FALSE
