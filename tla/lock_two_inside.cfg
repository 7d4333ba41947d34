CONSTANTS
  dcmd = dcmd
  logupload = logupload
  uploadstb = uploadstb
  main = main
  logjob = logjob
  cli = cli
  tool = tool
  Procs <- TwoProcs
  Threads = {main, logjob, cli}
  ProcOf <- TwoInDcmd
  Fds = {"fd1", "fd2"}
  Closed = Closed
  Nobody = Nobody
SPECIFICATION Spec
INVARIANTS MutualExclusion
