---------------------------- MODULE MCUploadEngine -----------------------------
(* The limits of load_environment for checking UploadEngine.               *)
EXTENDS UploadEngine

\* NUM_UPLOAD_ATTEMPTS = 3, CB_NUM_UPLOAD_ATTEMPTS = 1.
CodeMax == [p \in Paths |-> IF p = "direct" THEN 3 ELSE 1]

\* 24 hours against 30 minutes: the first outlasts the second, and a session may
\* begin while either has run out in part.
ShortBlocks == [p \in Paths |-> IF p = "direct" THEN 3 ELSE 2]
================================================================================
