CONSTANTS
  Kinds = {"rrd", "log", "now"}
  MaxAttempts <- CodeMax
  BlockTime <- ShortBlocks
  HasProxy = TRUE
SPECIFICATION FairSpec
INVARIANTS TypeOK AttemptsAreBounded DecidedPathsHonourBlocks
PROPERTIES KeepsDelivery SessionEnds
