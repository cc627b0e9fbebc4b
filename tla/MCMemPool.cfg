SPECIFICATION Spec
CONSTANTS
  NumElems = 4
  SizeModulus = 16
  MaxDepth = 4
  CtorAllocates = FALSE
  SweptDtorDeallocates = FALSE
INVARIANTS
  FreeCountExact
  NextSlotIsFree
  ObjectLifetimes
  NoObjectOutlivesPool
CHECK_DEADLOCK FALSE
