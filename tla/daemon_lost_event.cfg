CONSTANTS
  full = full
  half = half
  bare = bare
  Confs <- OneConf
  Readable <- OneConf
  LogCron <- OneLog
  DifdCron <- OneDifd
  NoConf = NoConf
SPECIFICATION FairSpec
PROPERTIES EventIsServed
CHECK_DEADLOCK FALSE
