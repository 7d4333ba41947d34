----------------------------- MODULE ScheduledJob -----------------------------
(***************************************************************************)
(* What one scheduled job promises its owner, without its thread, mutex or *)
(* clock: the job is switched on and off, it arms a run only while it is   *)
(* on, each armed run happens at most once, runs never overlap, a run that *)
(* was armed before the job went off may still happen, and nothing happens *)
(* any more once the job is gone.                                          *)
(***************************************************************************)
VARIABLES on,       \* the owner wants runs
          armed,    \* one run is due to happen
          running,  \* the callback is executing
          gone      \* the owner has removed the job

job == <<on, armed, running, gone>>

Init == on = FALSE /\ armed = FALSE /\ running = FALSE /\ gone = FALSE

SwitchOn ==
  /\ ~gone /\ ~running
  /\ on' = TRUE
  /\ UNCHANGED <<armed, running, gone>>

SwitchOff ==
  /\ ~gone /\ ~running
  /\ on' = FALSE
  /\ UNCHANGED <<armed, running, gone>>

Remove ==
  /\ ~gone /\ ~running
  /\ on' = FALSE
  /\ gone' = TRUE
  /\ UNCHANGED <<armed, running>>

Arm ==
  /\ on /\ ~armed /\ ~running
  /\ armed' = TRUE
  /\ UNCHANGED <<on, running, gone>>

\* A run is given up only when the job is off.
Disarm ==
  /\ armed /\ ~on
  /\ armed' = FALSE
  /\ UNCHANGED <<on, running, gone>>

Run ==
  /\ armed /\ ~gone
  /\ armed' = FALSE
  /\ running' = TRUE
  /\ UNCHANGED <<on, gone>>

Finish ==
  /\ running
  /\ running' = FALSE
  /\ UNCHANGED <<on, armed, gone>>

Next == SwitchOn \/ SwitchOff \/ Remove \/ Arm \/ Disarm \/ Run \/ Finish

Spec == Init /\ [][Next]_job
=============================================================================
