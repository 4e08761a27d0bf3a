\* As MCArith.cfg: the signed division as its declaration reads.
CONSTANTS
  W = 5
  Pow <- MCPow
  LogH = 1
  ZerosLogH = 1
SPECIFICATION MCSpec
INVARIANT SignedDivides
