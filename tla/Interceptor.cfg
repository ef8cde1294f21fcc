SPECIFICATION InterceptorSpec
CONSTANTS
  None = None
  Worlds <- MCWorlds
  Texts = {"s", "t"}
  Nums = {0, 2}
  NarrowBound = 2
  HeapBase = 1
  Cells <- MCCells
INVARIANTS
  CallsReachTheirFunction
  AdviceSeesTheCall
  AdviceIsObeyed
  MemoryIsReclaimed
CHECK_DEADLOCK FALSE
