----------------------------- MODULE MCDcmSettings -----------------------------
(* Two daemons and three kinds of file: a good one without a firmware cron, one *)
(* that is JSON in its first line only, one that is not JSON in its first line. *)
EXTENDS DcmSettings, TLC

PidSymmetry == Permutations(Pids)
================================================================================
