SPECIFICATION Spec
CONSTANTS
  MaxEdges = 9
  Capacity = 3
INVARIANTS TypeOK EdgesAccounted NoLostWakeup NoDescriptorLeak
PROPERTY CountsEdges
CHECK_DEADLOCK FALSE
