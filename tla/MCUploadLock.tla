----------------------------- MODULE MCUploadLock -----------------------------
(* Processes and threads for checking UploadLock.                          *)
EXTENDS UploadLock, TLC

CONSTANTS dcmd, logupload, uploadstb,  \* processes
          main, logjob, cli, tool      \* their threads

\* Three programs with one thread each.
ThreeProcs == {dcmd, logupload, uploadstb}
OneEach == (main :> dcmd) @@ (cli :> logupload) @@ (tool :> uploadstb)

\* dcmd with its main thread and the log job, and one standalone program.
TwoProcs == {dcmd, logupload}
TwoInDcmd == (main :> dcmd) @@ (logjob :> dcmd) @@ (cli :> logupload)
=============================================================================
