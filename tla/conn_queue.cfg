CONSTANTS
  Nodes = {n1, n2, n3, n4}
  NULL = null
  INT_MAX = 4
  RPCHAT_MAX_STR_LENGTH = 8
  Inputs <- SomeInputs
  Garbage <- SomeGarbage
SPECIFICATION Spec
CHECK_DEADLOCK FALSE
INVARIANTS LLTypeOK ListOK SearchOK FitsUnlessFull
PROPERTIES RemoveEnds MessageClean UserListComplete
