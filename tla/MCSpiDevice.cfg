CONSTANTS
  FifoLen <- MCFifoLen
  TxThreshold <- MCTxThreshold
  WriteLens <- MCWriteLens
  ReadLens <- MCReadLens
SPECIFICATION PacedSpec
INVARIANTS
  TypeOK
  SuccessIsReply
  SentIsGiven
PROPERTIES
  ShortReadsWhole
  CallReturns
  RxRecovers
CHECK_DEADLOCK FALSE
