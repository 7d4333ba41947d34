------------------------------ MODULE UploadGuard ------------------------------
(***************************************************************************)
(* What the upload lock promises: one caller at a time is inside, it       *)
(* leaves before another enters, and nobody else can end its turn.         *)
(***************************************************************************)
CONSTANTS Callers, NoCaller

VARIABLE inside  \* the caller between acquire_lock and release_lock

Init == inside = NoCaller

Begin(t) == inside = NoCaller /\ inside' = t

End == inside # NoCaller /\ inside' = NoCaller

Next == (\E t \in Callers : Begin(t)) \/ End

Spec == Init /\ [][Next]_inside
=============================================================================
