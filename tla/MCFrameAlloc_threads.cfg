SPECIFICATION Spec
CONSTANTS
  Threads = {t1, t2}
  NUM_OF_FRAMES = 3
  BYTES_PER_FRAME = 2
  Sizes = {0, 1, 3, 5}
  IntRange = 16
  HandlesSegv = FALSE
  MaxLock = 3
CHECK_DEADLOCK FALSE
SYMMETRY ThreadSymmetry
INVARIANTS
  MutualExclusion
  ReservedFramesHaveOneBlock
PROPERTIES
  BlockIsItsCallers
