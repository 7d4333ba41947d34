CONSTANTS
  full = full
  half = half
  bare = bare
  Confs <- ThreeConfs
  Readable <- ThreeConfs
  LogCron <- ThreeLogs
  DifdCron <- ThreeDifds
  NoConf = NoConf
SPECIFICATION FairSpec
INVARIANTS TypeOK JobsFollowOneConf
  
CHECK_DEADLOCK FALSE
