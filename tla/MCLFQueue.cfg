SPECIFICATION Spec
CONSTANTS
  Values = {a, b}
  Torn = torn
  NumElems = 3
  MaxItems = 7
INVARIANTS
  TypeOK
  SlotExclusive
  RingHoldsItems
  OperationsStable
PROPERTIES
  FifoSafeSpec
  EveryItemReleased
  RefusedProducerGetsSlot
