CONSTANTS
  Day = 4
  early = early
  late = late
  hourly = hourly
  never = never
  Patterns <- SomePatterns
  Fires <- SomeFires
  NoPattern = NoPattern
  NoDue = NoDue
  Short = Short
  Garbled = Garbled
SPECIFICATION FairSpec
INVARIANTS TypeOK NoLostWakeup
PROPERTIES KeepsPromise StartedJobFires CallsReturn
