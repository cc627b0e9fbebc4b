SPECIFICATION Spec
CONSTANTS
  TCP_BUFFER_SIZE = 3
  MaxSent = 4
  MaxArrived = 3
  MaxConnects = 2
INVARIANTS
  IndicesInBuffer
  SendStreamIntact
  RecvStreamIntact
  FlagsJustified
  DescriptorOwned
PROPERTY
  AcceptedBytesLeave
