CONSTANTS
  dcmd = dcmd
  logupload = logupload
  uploadstb = uploadstb
  main = main
  logjob = logjob
  cli = cli
  tool = tool
  Procs <- ThreeProcs
  Threads = {main, cli, tool}
  ProcOf <- OneEach
  Fds = {"fd1", "fd2"}
  Closed = Closed
  Nobody = Nobody
SPECIFICATION FairSpec
 
PROPERTIES ImplementsGuard LockComesFree
