CONSTANTS
  FifoLen <- MCFifoLen
  TxThreshold <- MCTxThreshold
  WriteLens <- MCWriteLens
  ReadLens <- MCReadLens
SPECIFICATION PacedSpec
INVARIANTS
  NothingAstray
CHECK_DEADLOCK FALSE
