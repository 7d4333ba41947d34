---------------------------- MODULE ArchiveDelivery ----------------------------
(***************************************************************************)
(* What one upload promises of its archive, whatever paths, retries and    *)
(* fallbacks it takes: it is announced at most once, as a success exactly  *)
(* when the server is known to have it, and the local copy is removed only *)
(* after it was announced as stored.                                       *)
(***************************************************************************)
VARIABLES
  archive,  \* "none", "waiting" to be uploaded, "stored" on the server, "gone" from here
  told      \* what was announced: "nothing", "success" or "failure"

delivery == <<archive, told>>

Init == archive = "none" /\ told = "nothing"

Submit ==
  /\ archive \in {"none", "gone"}
  /\ archive' = "waiting"
  /\ told' = "nothing"

Store ==
  /\ archive = "waiting" /\ told = "nothing"
  /\ archive' = "stored"
  /\ UNCHANGED told

Announce ==
  /\ archive \in {"waiting", "stored"} /\ told = "nothing"
  /\ told' = IF archive = "stored" THEN "success" ELSE "failure"
  /\ UNCHANGED archive

Remove ==
  /\ archive = "stored" /\ told = "success"
  /\ archive' = "gone"
  /\ UNCHANGED told

\* The upload ends, or its process is killed, and the copy stays.
Leave ==
  /\ archive \in {"waiting", "stored"}
  /\ archive' = "none"
  /\ UNCHANGED told

Next == Submit \/ Store \/ Announce \/ Remove \/ Leave

Spec == Init /\ [][Next]_delivery
================================================================================
