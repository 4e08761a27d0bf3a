\* One call of each arithmetic function: words of 5 bits and of twice 4, zeros in words of 8.
CONSTANTS
  W = 5
  Pow <- MCPow
  LogH = 2
  ZerosLogH = 3
SPECIFICATION MCSpec
INVARIANTS
  SubtractInv
  QuotientRight
  MultipliesRight
  WideLoopInv
  DividesRight
  SignedRight
  ZerosRight
PROPERTY CallsEnd
