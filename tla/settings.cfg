SPECIFICATION Spec
CONSTANTS
  Pids = {p1, p2}
  Confs = {good, cut, lines}
  FirstLine = {good, cut}
  Whole = {good, lines}
  UploadOn = {good, cut}
  NoDifd = {good}
SYMMETRY PidSymmetry
INVARIANTS TypeOK OneDaemon 
