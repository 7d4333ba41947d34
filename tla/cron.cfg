CONSTANTS
  MaxSeconds = 2
  MaxMinutes = 2
  MaxHours = 3
  MaxCalls = 2
  CronPatterns <- MCCronPatterns
  Starts <- MCStarts
SPECIFICATION CronSpec
INVARIANTS CronTypeOK ParsedAsMeant AnswersMatch NothingIsSkipped
PROPERTIES SearchMovesOn SearchEnds
CHECK_DEADLOCK FALSE
