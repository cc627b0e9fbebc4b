SPECIFICATION SafeSpec
CONSTANTS
  Conns = {c1, c2}
  Watched = {c1, c2}
  Listener = listener
  Epoll = epoll
  MAX_EPOLL_EVENTS = 1
  TCP_BUFFER_SIZE = 2
  Prefix = 1
  KernelBuffer <- MCKernelBuffer
  Callbacks = {"reply", "keep", "destroy"}
SYMMETRY Symmetry
INVARIANTS
  NoDanglingPointers
  EverySocketIsServed
  NoDescriptorLeak
  FailedSocketsScheduled
PROPERTY
  DroppedForCause
CHECK_DEADLOCK FALSE
