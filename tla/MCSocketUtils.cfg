SPECIFICATION Spec
CONSTANTS
  MaxCandidates = 3
  Descriptors = {3, 4}
INVARIANTS
  NoDescriptorLeak
  ReturnedSocketIsComplete
CHECK_DEADLOCK FALSE
