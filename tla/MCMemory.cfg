\* Every call on a memory of five bytes; formats of up to two items and numbers of 7 bits;
\* five calls of malloc with pointers of 7 bits.
CONSTANTS
  M = 5
  Byte = {0, 1, 2}
  Bits = 7
  Nums <- MCNums
  Widths = {0, 2, 4}
  MaxItems = 2
  HeapModulus = 128
  HeapStart = 60
  HeapEnd = 104
  Threads = {t1, t2}
  Sizes = {0, 1, 8, 17, 127}
  MaxCalls = 5
SPECIFICATION MCSpec
INVARIANTS
  WritesRight
  ReadsRight
  CopyInv
  CopiesRight
  AccessesInside
  PrintsRight
  ReadBack
  BlocksApart
CHECK_DEADLOCK FALSE
