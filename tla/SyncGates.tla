---------------------------- MODULE SyncGates ----------------------------
(***************************************************************************)
(* The synchronisation gates a reboot upload passes before it touches the   *)
(* logs of the last boot (src/uploadstblogs/src/strategies.c, reboot_setup  *)
(* and the functions it calls): the backup sentinel, the clock, then the    *)
(* sentinels of the reboot reason and of telemetry, each awaited through    *)
(* inotify with a deadline.  The writers of the sentinels are other         *)
(* programs; they and the kernel's event queue run beside the waiting       *)
(* thread.  A second passes (Tick) only while that thread is blocked in     *)
(* select: its own steps take no time.                                      *)
(***************************************************************************)
EXTENDS Integers, Sequences, SequencesExt

CONSTANTS Timeout,    \* seconds a sentinel is awaited
          Heartbeat,  \* seconds select blocks at most
          MaxQueue,   \* events the inotify queue holds
          MaxNoise    \* disturbances in a second: foreign files, signals

ASSUME GateAssumption == /\ Timeout \in Nat \ {0} /\ Heartbeat \in Nat \ {0}
                         /\ MaxQueue \in Nat \ {0} /\ MaxNoise \in Nat

Sentinels == {"reason", "telemetry"}

VARIABLES gatePc,    \* where reboot_setup stands
          gate,      \* the sentinel awaited now
          made,      \* made[s]: the sentinel's file exists
          old,       \* old[s]: it has existed for a second or more
          watching,  \* the watch on /tmp is set
          queue,     \* events not read yet: names of sentinels, or "other"
          lost,      \* the queue overflowed during this wait
          remaining, \* seconds to the deadline
          nap,       \* seconds until select returns without an event
          noise,     \* disturbances in this second
          outcome,   \* outcome[s]: how the wait for s ended
          refTime    \* archive_ref_time: "system" stands for 0

thread == <<gatePc, gate, remaining, outcome, refTime>>
gateFiles == <<made, old>>
kernel == <<watching, queue, lost>>
gateVars == <<thread, gateFiles, kernel, nap, noise>>

GateInit ==
    /\ gatePc = "backup" /\ gate = "reason"
    /\ made \in [Sentinels -> BOOLEAN] /\ old = made
    /\ watching = FALSE /\ queue = <<>> /\ lost = FALSE
    /\ remaining = Timeout /\ nap = 0 /\ noise = 0
    /\ outcome = [s \in Sentinels |-> "none"] /\ refTime = "system"

-----------------------------------------------------------------------------
\* Other programs and the kernel.

Deliver(e) == IF ~watching THEN UNCHANGED kernel
              ELSE IF Len(queue) < MaxQueue
                   THEN queue' = Append(queue, e) /\ UNCHANGED <<watching, lost>>
                   ELSE lost' = TRUE /\ UNCHANGED <<watching, queue>>

WriteSentinel(s) ==
    /\ ~made[s]
    /\ made' = [made EXCEPT ![s] = TRUE]
    /\ Deliver(s)
    /\ UNCHANGED <<thread, old, nap, noise>>

OtherFile ==
    /\ watching /\ noise < MaxNoise
    /\ noise' = noise + 1
    /\ Deliver("other")
    /\ UNCHANGED <<thread, gateFiles, nap>>

Tick ==
    /\ gatePc = "select" /\ queue = <<>> /\ nap > 0
    /\ nap' = nap - 1 /\ remaining' = remaining - 1 /\ noise' = 0
    /\ old' = made
    /\ UNCHANGED <<gatePc, gate, outcome, refTime, made, kernel>>

-----------------------------------------------------------------------------
\* The gates before the waits.

\* Without /tmp/.backup_logs_done the set of logs is incomplete: no upload.
BackupGate ==
    /\ gatePc = "backup"
    /\ gatePc' \in {"clock", "aborted"}
    /\ UNCHANGED <<gate, remaining, outcome, refTime, gateFiles, kernel, nap, noise>>

\* The network service is asked over IPv4, and over IPv6 when that answers
\* NO_INTERNET; a call that fails, or an answer without a status, is a no.
Answers == {"failed", "no_status", "internet", "none"}
check_internet_connectivity(v4, v6) == v4 = "internet" \/ (v4 = "none" /\ v6 = "internet")

\* systemimgr's clock file may be missing, empty or hold no positive number.
apply_ntp_fallback_time == {"system", "saved"}

ClockGate ==
    /\ gatePc = "clock"
    /\ \/ UNCHANGED refTime                       \* /tmp/stt_received is there
       \/ \E v4, v6 \in Answers :
             IF check_internet_connectivity(v4, v6)
             THEN refTime' \in apply_ntp_fallback_time
             ELSE UNCHANGED refTime
    /\ gatePc' = "look"
    /\ UNCHANGED <<gate, remaining, outcome, gateFiles, kernel, nap, noise>>

-----------------------------------------------------------------------------
\* wait_for_sentinel

\* The wait ends: the watch goes, with what is still queued.  A reboot reason
\* that did not show leads to trigger_reboot_info_update, telemetry to nothing.
Conclude(result) ==
    /\ outcome' = [outcome EXCEPT ![gate] = result]
    /\ gatePc' = IF gate = "telemetry" THEN "proceed"
                 ELSE IF result = "there" THEN "look" ELSE "nudge"
    /\ gate' = IF gatePc' = "nudge" THEN gate ELSE "telemetry"
    /\ watching' = FALSE /\ queue' = <<>> /\ lost' = FALSE
    /\ remaining' = Timeout /\ nap' = 0
    /\ UNCHANGED <<refTime, gateFiles, noise>>

Goto(next) == gatePc' = next /\ UNCHANGED <<gate, remaining, outcome, refTime, gateFiles, noise>>

Look ==
    /\ gatePc = "look"
    /\ IF made[gate] THEN Conclude("there")
                     ELSE Goto("watch") /\ UNCHANGED <<kernel, nap>>

\* inotify_init1, or inotify_add_watch, may fail.
Watch ==
    /\ gatePc = "watch"
    /\ \/ Conclude("failed")
       \/ Goto("again") /\ watching' = TRUE /\ UNCHANGED <<queue, lost, nap>>

\* Variant: no second look.
LookAgainNot ==
    /\ gatePc = "again"
    /\ \/ Conclude("failed")
       \/ Goto("top") /\ UNCHANGED <<kernel, nap>>

\* The second look at the file; then the deadline is set, if the clock can be
\* read.
LookAgain ==
    /\ gatePc = "again"
    /\ IF made[gate] THEN Conclude("there")
       ELSE \/ Conclude("failed")
            \/ Goto("top") /\ UNCHANGED <<kernel, nap>>

\* The head of the loop: past the deadline the wait is given up without
\* another look at the file or the queue.
LoopHead ==
    /\ gatePc = "top"
    /\ IF remaining <= 0 THEN Conclude("late")
       ELSE Goto("select") /\ nap' = Heartbeat /\ UNCHANGED kernel

Wakes == gatePc = "select" /\ (queue # <<>> \/ nap = 0)

\* Variants: the heartbeat goes back to select, and the deadline is counted
\* from the heartbeat.
SelectReturnsToItself ==
    /\ Wakes
    /\ Goto(IF queue # <<>> THEN "read" ELSE "select")
    /\ nap' = IF queue # <<>> THEN nap ELSE Heartbeat
    /\ UNCHANGED kernel

SelectReturnsRestarting ==
    /\ Wakes
    /\ gatePc' = IF queue # <<>> THEN "read" ELSE "top"
    /\ remaining' = IF queue # <<>> THEN remaining ELSE Timeout
    /\ UNCHANGED <<gate, outcome, refTime, gateFiles, noise, kernel, nap>>

\* select returns: an event is readable, or the heartbeat, which goes back to
\* the head of the loop.
SelectReturns ==
    /\ Wakes
    /\ Goto(IF queue # <<>> THEN "read" ELSE "top")
    /\ UNCHANGED <<kernel, nap>>

\* A signal interrupts select (EINTR), or select fails for good.
SelectFails ==
    /\ gatePc = "select"
    /\ \/ /\ noise < MaxNoise
          /\ gatePc' = "top" /\ noise' = noise + 1
          /\ UNCHANGED <<gate, remaining, outcome, refTime, gateFiles, kernel, nap>>
       \/ Conclude("failed")

\* As many events as fit in the buffer, one at least, are read together; a
\* read that fails leaves the queue as it is.
ReadEvents ==
    /\ gatePc = "read"
    /\ \/ \E k \in 1..Len(queue) :
             IF Contains(SubSeq(queue, 1, k), gate)
             THEN Conclude("there")
             ELSE /\ Goto("top")
                  /\ queue' = SubSeq(queue, k + 1, Len(queue))
                  /\ UNCHANGED <<watching, lost, nap>>
       \/ /\ noise < MaxNoise
          /\ gatePc' = "top" /\ noise' = noise + 1
          /\ UNCHANGED <<gate, remaining, outcome, refTime, gateFiles, kernel, nap>>

\* trigger_reboot_info_update: unless the sentinel came meanwhile, the program
\* that writes it is run; it may make it or fail.
Nudge ==
    /\ gatePc = "nudge"
    /\ made' \in {made, [made EXCEPT !["reason"] = TRUE]}
    /\ gatePc' = "look" /\ gate' = "telemetry"
    /\ UNCHANGED <<remaining, outcome, refTime, old, kernel, nap, noise>>

GateSetup == \/ BackupGate \/ ClockGate
             \/ Look \/ Watch \/ LookAgain \/ LoopHead
             \/ SelectReturns \/ ReadEvents \/ Nudge

Stopped == gatePc \in {"proceed", "aborted"}

GateNext == \/ GateSetup
            \/ SelectFails
            \/ \E s \in Sentinels : WriteSentinel(s)
            \/ OtherFile
            \/ Tick

\* The thread runs when it can, and time passes when it cannot.
GateSpec == GateInit /\ [][GateNext]_gateVars /\ WF_gateVars(GateSetup) /\ WF_gateVars(Tick)

-----------------------------------------------------------------------------
\* Types; among them, that a wait overruns its deadline by less than a
\* heartbeat (the select timeout of two seconds, strategies.c:262), whatever
\* events and signals disturb it.
GateTypeOK ==
    /\ gatePc \in {"backup", "clock", "look", "watch", "again", "top", "select",
               "read", "nudge", "proceed", "aborted"}
    /\ gate \in Sentinels
    /\ made \in [Sentinels -> BOOLEAN] /\ old \in [Sentinels -> BOOLEAN]
    /\ watching \in BOOLEAN /\ lost \in BOOLEAN
    /\ queue \in Seq(Sentinels \cup {"other"}) /\ Len(queue) <= MaxQueue
    /\ remaining \in (1 - Heartbeat)..Timeout /\ nap \in 0..Heartbeat
    /\ noise \in 0..MaxNoise
    /\ outcome \in [Sentinels -> {"none", "there", "late", "failed"}]
    /\ refTime \in {"system", "saved"}

\* A wait that reports its sentinel is right about it, and one that gives up at
\* the deadline is at most a second wrong: the file was not there a second ago,
\* unless the kernel dropped events.  Rests on the second access after
\* inotify_add_watch (strategies.c:239) and on every event being read.
OutcomeIsTrue ==
    [][\A s \in Sentinels : outcome[s] = "none" =>
          /\ outcome'[s] = "there" => made[s]
          /\ outcome'[s] = "late" => ~old[s] \/ lost]_gateVars

\* reboot_setup passes its gates or aborts: no sentinel that stays away, and no
\* traffic in /tmp, holds a reboot upload for ever (strategies.c:253).
GateEnds == <>Stopped
=============================================================================
