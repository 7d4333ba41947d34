---------------------------- MODULE MCUsbLogUpload -----------------------------
(* Interchangeable invocations and logs for checking UsbLogUpload.         *)
EXTENDS UsbLogUpload, TLC

RunSymmetry == Permutations(Runs) \cup Permutations(Logs)
================================================================================
