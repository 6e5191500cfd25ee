SPECIFICATION Spec
CONSTANTS
  MaxDepth = 1
  Trouble = {"ErrImagePull"}
  Deadlines = TRUE
  MaxCreates = 3
INVARIANT TypeOK
INVARIANT JobChainBounded
CHECK_DEADLOCK FALSE
