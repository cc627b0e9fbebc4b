SPECIFICATION Spec
CONSTANTS
  NumElems = 4
  SizeModulus = 16
  MaxDepth = 4
  CtorAllocates = FALSE
  SweptDtorDeallocates = TRUE
INVARIANTS
  ObjectLifetimes
CHECK_DEADLOCK FALSE
