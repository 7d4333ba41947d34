CONSTANTS
  Runs = {r1, r2}
  Logs = {l1}
  MaxMinutes = 2
  MaxLines = 2
SPECIFICATION Spec
SYMMETRY RunSymmetry
INVARIANTS TypeOK SuccessMeansOnDrive LossesHaveCauses
CHECK_DEADLOCK FALSE
