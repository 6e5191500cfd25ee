SPECIFICATION Spec
CONSTANTS
  MaxDepth = 1
  Trouble = {"ErrImagePull"}
  Deadlines = TRUE
  MaxCreates = 3
INVARIANT ChainBounded
CHECK_DEADLOCK FALSE
