CONSTANTS
  Dirs = {d1, d2}
  MaxBoots = 2
  MaxRuns = 3
SPECIFICATION Spec
SYMMETRY DirSymmetry
INVARIANTS LeavesNothingBehind  BatchesAreListed
 
CHECK_DEADLOCK FALSE
