---------------------------- MODULE MCDcmScheduler ----------------------------
(* Model values and the pattern table for checking DcmScheduler.           *)
EXTENDS DcmScheduler, TLC

CONSTANTS early, late, hourly, never

\* Two patterns with one slot each, one that fires in every slot, and one with a
\* day that no month has, "0 0 30 2 *".
SomePatterns == {early, late, hourly, never}
SomeFires == (early :> {0}) @@ (late :> {Day - 1}) @@ (hourly :> Slots) @@ (never :> {})
=============================================================================
