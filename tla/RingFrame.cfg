SPECIFICATION Spec

CONSTANTS
  Word = 256
  MinConBuf = 4
  MaxConBuf = 64
  ConnLimit = 25
  TermSize = 3
  SockSize = 1
  Granularity = 16
  ConBufSizes = {4, 8, 12, 16, 32, 64}
  MaxConnections = {1, 2, 3, 4, 16, 32}
  PacketSizes = {2, 4, 8}
  MaxUnits = 11
  MaxEdge = 40

INVARIANTS
  FrameLayout
  FrameWrites
  MessageCount
  FrameCopied
  CrcAgrees
  SlicesSound
  RemoteWritesInside

CHECK_DEADLOCK FALSE
