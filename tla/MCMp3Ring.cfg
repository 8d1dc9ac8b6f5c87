CONSTANTS
  RingLen <- MCRingLen
  HeadLen <- MCHeadLen
  MaxChunk <- MCMaxChunk
  MinFirst = 2
  FrameSizes <- MCFrameSizes
  Garbage <- MCGarbage
  MaxWritten <- MCMaxWritten
SPECIFICATION Spec
INVARIANTS
  TypeOK
  NoUnreadOverwritten
  ReserveIsUnread
  NoFrameLeftBehind
PROPERTIES
  FramesAligned
  CallReturns
  ImplementsFrameStream
CHECK_DEADLOCK FALSE
