SPECIFICATION FairSpec
CONSTANTS
  Threads = {t1}
  NUM_OF_FRAMES = 4
  BYTES_PER_FRAME = 2
  Sizes = {0, 2, 3, 6, 9}
  IntRange = 16
  HandlesSegv = TRUE
  MaxLock = 3
CHECK_DEADLOCK FALSE
PROPERTIES
  IsHeap
  GrowReturnsWithSpare
