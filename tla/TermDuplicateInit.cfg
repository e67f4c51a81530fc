SPECIFICATION Spec

CONSTANTS
  t1 = t1
  t2 = t2
  Terms = {t1}
  NumUsers = 1
  NumIocp = 8
  PoolSize = 16
  QueuePool = FALSE
  MaxAtt = 2

INVARIANT NoDuplicateInit

CHECK_DEADLOCK FALSE
