SPECIFICATION Spec
CONSTANTS
  Values = {a, b}
  Torn = torn
  NumElems = 3
  MaxItems = 5
INVARIANTS
  StopsWhenDrained
  FileHasOneUser
PROPERTIES
  FileSafeSpec
  LoggedReachesStream
  DestructorFinishes
  FullQueueIsDrained
CHECK_DEADLOCK FALSE
