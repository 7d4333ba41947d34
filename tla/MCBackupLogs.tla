----------------------------- MODULE MCBackupLogs ------------------------------
(* Two log files for checking BackupLogs.                                  *)
EXTENDS BackupLogs

TwoFiles == {"messages", "app"}
================================================================================
