SPECIFICATION FairSpec

CONSTANTS
  MaxTests = 3
  MsgSizes = {0, 1, 2, 3, 4, 8, 9}
  MaxMsgSize = 8
  Alignment = 1
  NumBufs = 2
  SmallLimit = 1
  MidLimit = 2
  BigLimit = 4

INVARIANTS
  TypeOK
  Lockstep
  BuffersConserved
  PoolsSuffice

PROPERTY TestsFinish

CHECK_DEADLOCK FALSE
