CONSTANTS
  MINIMUM_RCVBUF_SIZE = 4
  Least = 3
  INT_MAX = 15
  Sizes = {0, 1, 3, 4, 5, 8, 9, 14, 15}
SPECIFICATION Spec
INVARIANTS
  WholeDatagrams
  BufferInRange
  MinimumAccepted
