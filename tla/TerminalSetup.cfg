SPECIFICATION FairSpec

CONSTANTS
  t1 = t1
  t2 = t2
  Terms = {t1, t2}
  NumUsers = 1
  NumIocp = 5
  PoolSize = 8
  QueuePool = FALSE
  MaxAtt = 3

INVARIANTS
  TypeOK
  PooledQuiet
  TokensNotShared
  RegionsMatch
  NdReleased
  OverlapBound

PROPERTIES
  SetupEnds

CHECK_DEADLOCK FALSE
