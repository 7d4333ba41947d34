------------------------------ MODULE MCDcmDaemon ------------------------------
(* Configurations for checking DcmDaemon.                                  *)
EXTENDS DcmDaemon, TLC

CONSTANTS full, half, bare

\* Both crons; a log cron that is rejected; no DIFD cron, so ParseConf fails
\* after it has overwritten the buffers. The path no event has set yet is the
\* file that cannot be read.
ThreeConfs == {full, half, bare}
OneConf == {full}

Logs(S) == [c \in S |-> IF c = half THEN "bad" ELSE "good"]
Difds(S) == [c \in S |-> IF c = bare THEN "missing" ELSE "good"]

ThreeLogs == Logs(ThreeConfs)
ThreeDifds == Difds(ThreeConfs)
OneLog == Logs(OneConf)
OneDifd == Difds(OneConf)
=============================================================================
