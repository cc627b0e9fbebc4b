SPECIFICATION DemoSpec
CONSTANTS
  Conns = {c1, c2}
  Watched = {c2}
  Listener = listener
  Epoll = epoll
  MAX_EPOLL_EVENTS = 1
  TCP_BUFFER_SIZE = 4
  Prefix = 1
  KernelBuffer <- MCKernelBuffer
  Callbacks = {"reply"}
  Clients <- MCClients
  Message <- MCMessage
  Attempts = 1
PROPERTY
  WaitingConnectionIsTaken
CHECK_DEADLOCK FALSE
