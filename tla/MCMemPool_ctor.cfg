SPECIFICATION Spec
CONSTANTS
  NumElems = 4
  SizeModulus = 16
  MaxDepth = 4
  CtorAllocates = TRUE
  SweptDtorDeallocates = FALSE
INVARIANTS
  ObjectLifetimes
CHECK_DEADLOCK FALSE
