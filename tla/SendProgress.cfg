SPECIFICATION FairSpec

CONSTANTS
  t1 = t1
  t2 = t2
  m1 = m1
  m2 = m2
  m3 = m3
  Threads = {t1, t2}
  CqThread = cqThread
  NoThread = noThread
  Msgs = {m1, m2}
  NoMsg = noMsg
  MsgSize <- Sizes
  BufSize = 4
  PacketSize = 2
  MaxPendingRead = 2
  MaxConns = 1
  TornBack = FALSE

PROPERTY ChannelProgress
